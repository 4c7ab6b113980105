---------------------------- MODULE WeixinProofs ----------------------------
(* Proofs about Weixin: types, that polling repeats and reorders updates only *)
(* where the cursor was lost or not sent, and what a fault can lose, for any  *)
(* channel and any number of faults.                                          *)
EXTENDS Weixin, FiniteSetTheorems, TLAPS

\* The first update that can be submitted without the channel repeating itself.
Frontier ==
  IF run = "await" THEN next + 1
  ELSE IF run \in {"fetched", "writing", "handle"} THEN next ELSE cursorFile + 1

\* How often the channel has come to repeat updates.  A response without a cursor
\* makes it do so once its batch is left.
Repeats == resets + blanks - IF fresh THEN 0 ELSE 1

\* Accounts come from confirmed codes, and run logs in only before it polls.
LoginInv ==
  /\ accountFile \in 0..confirmed \cup {Torn}
  /\ \A p \in Procs : /\ scanned[p] \in 0..confirmed
                      /\ login[p] \in {"save", "writing"} => scanned[p] > 0
  /\ login["run"] # "idle" => run = "login"

\* Where the batch is, relative to the cursor on file.
BatchInv ==
  /\ run = "fetched" => next = cursorFile + 1
  /\ run \in {"fetched", "writing", "handle", "await"} => next <= last + 1
  /\ run \in {"handle", "await"} => IF fresh THEN cursorFile = last ELSE cursorFile < next
  /\ run = "await" => next <= last
  /\ ~fresh => run \in {"fetched", "writing", "handle", "await"} /\ blanks > 0

Inv == TypeOK /\ LoginInv /\ BatchInv

\* How often an update was submitted, and that those at the frontier may be once more.
OnceInv ==
  \A u \in U : /\ submitted[u] <= Repeats + 1
               /\ u >= Frontier => submitted[u] <= Repeats

\* Until the channel repeats itself, updates are submitted in order, and lie before the
\* frontier.
OrderInv ==
  Repeats = 0 => /\ \A i \in DOMAIN order : order[i] < Frontier
                 /\ \A i, j \in DOMAIN order : i < j => order[i] < order[j]

-----------------------------------------------------------------------------

\* What the assumption says of the bounds.
LEMMA Parameters ==
  /\ Len(Updates) \in Nat /\ Torn \notin 0..MaxAccounts
  /\ MaxAccounts \in Nat /\ MaxPollErrors \in Nat /\ MaxErrors \in Nat
  /\ MaxBlanks \in Nat /\ MaxCrashes \in Nat
BY WeixinAssumption

\* The initial states satisfy the invariant.
LEMMA InitInv == Init => Inv
BY Parameters DEF Init, Inv, TypeOK, LoginInv, BatchInv, U, Procs, LoginPc, RunPc

\* Login keeps types, accounts and the place of the batch.
LEMMA LoginStepInv ==
  ASSUME Inv, NEW p \in Procs, LoginStep(p) \/ LoginTimesOut(p)
  PROVE  Inv'
<1> USE Parameters DEF Inv, TypeOK, LoginInv, BatchInv, U, Procs, LoginPc, RunPc,
          files, loginVars, batch, history, counters
<1>1. CASE TicketIssued(p)
  BY <1>1 DEF TicketIssued
<1>2. CASE Confirmed(p)
  <2>1. confirmed' = confirmed + 1 /\ confirmed + 1 \in 0..MaxAccounts
    BY <1>2 DEF Confirmed
  <2>2. TypeOK'
    BY <1>2, <2>1 DEF Confirmed
  <2>3. LoginInv'
    BY <1>2, <2>1 DEF Confirmed
  <2>4. BatchInv'
    BY <1>2 DEF Confirmed
  <2> QED
    BY ONLY <2>2, <2>3, <2>4 DEF Inv
<1>3. CASE LoginFails(p)
  BY <1>3 DEF LoginFails, LoginError
<1>4. CASE SaveAccountBegins(p)
  BY <1>4 DEF SaveAccountBegins
<1>5. CASE SaveAccountEnds(p)
  <2>1. scanned[p] \in 0..confirmed /\ scanned[p] > 0
    BY <1>5 DEF SaveAccountEnds
  <2>2. TypeOK'
    BY SMTT(30), <1>5, <2>1 DEF SaveAccountEnds
  <2>3. LoginInv'
    BY <1>5, <2>1 DEF SaveAccountEnds
  <2>4. BatchInv'
    BY <1>5 DEF SaveAccountEnds
  <2> QED
    BY ONLY <2>2, <2>3, <2>4 DEF Inv
<1>6. CASE LoginTimesOut(p)
  BY <1>6 DEF LoginTimesOut, LoginError
<1> QED
  BY <1>1, <1>2, <1>3, <1>4, <1>5, <1>6 DEF LoginStep

\* A submission is recorded as one of an update.
LEMMA DeliverType ==
  ASSUME Inv, Deliver(next), next <= last
  PROVE  submitted' \in [U -> Nat] /\ order' \in Seq(U)
<1>1. next \in U /\ submitted \in [U -> Nat] /\ order \in Seq(U)
  BY Parameters DEF Inv, TypeOK, U
<1>2. submitted[next] + 1 \in Nat
  BY <1>1
<1> QED
  BY <1>1, <1>2 DEF Deliver

\* Polling keeps them.
LEMMA PollStepInv ==
  ASSUME Inv, PollStep
  PROVE  Inv'
<1> USE Parameters DEF Inv, TypeOK, LoginInv, BatchInv, U, Procs, LoginPc, RunPc,
          files, loginVars, batch, history, counters
<1>1. CASE Fetch
  BY <1>1 DEF Fetch, NextBatch
<1>2. CASE FetchFails
  BY <1>2 DEF FetchFails
<1>3. CASE FetchBlank
  <2>1. /\ run = "poll" /\ next' = cursorFile + 1 /\ next' <= last' + 1
        /\ last' \in 0..Len(Updates) /\ fresh' = FALSE /\ blanks' = blanks + 1
        /\ blanks < MaxBlanks /\ run' \in {"handle", "fetched"}
        /\ UNCHANGED <<arrived, files, loginVars, held, history,
                       resets, pollErrors, errors, crashes>>
    BY <1>3 DEF FetchBlank, NextBatch
  <2>2. blanks' \in 0..MaxBlanks /\ blanks' > 0 /\ next' \in 1..Len(Updates) + 1
    BY <2>1
  <2>3. LoginInv'
    BY <2>1
  <2>4. CASE run' = "handle"
    <3>1. TypeOK'
      BY <2>1, <2>2, <2>4
    <3>2. cursorFile' < next' /\ next' <= last' + 1 /\ blanks' > 0 /\ ~fresh'
      <4>1. cursorFile \in Nat /\ cursorFile' = cursorFile
        BY <2>1
      <4>2. cursorFile < cursorFile + 1
        BY <4>1
      <4> QED
        BY <2>1, <2>2, <4>1, <4>2
    <3>3. BatchInv'
      BY ONLY <2>4, <3>2 DEF BatchInv
    <3> QED
      BY ONLY <3>1, <3>3, <2>3 DEF Inv
  <2>5. CASE run' = "fetched"
    <3>1. TypeOK'
      BY <2>1, <2>2, <2>5
    <3>2. BatchInv'
      BY <2>1, <2>2, <2>5
    <3> QED
      BY ONLY <3>1, <3>2, <2>3 DEF Inv
  <2> QED
    BY ONLY <2>1, <2>4, <2>5
<1>4. CASE SaveCursorBegins
  BY <1>4 DEF SaveCursorBegins
<1>5. CASE SaveCursorEnds
  BY <1>5 DEF SaveCursorEnds
<1>6. CASE SaveCursorFails
  BY <1>6 DEF SaveCursorFails, LeaveBatch
<1>7. CASE Ignore
  BY <1>7 DEF Ignore
<1>8. CASE Submit
  BY <1>8, DeliverType DEF Submit
<1>9. CASE SubmitFails
  <2>1. submitted' \in [U -> Nat] /\ order' \in Seq(U)
    BY <1>9, DeliverType DEF SubmitFails
  <2> QED
    BY <1>9, <2>1 DEF SubmitFails, LeaveBatch
<1>10. CASE Reply
  BY <1>10 DEF Reply
<1>11. CASE ReplyFails
  BY <1>11 DEF ReplyFails, LeaveBatch
<1>12. CASE BatchDone
  BY <1>12 DEF BatchDone, LeaveBatch
<1>13. CASE Wake
  BY <1>13 DEF Wake
<1> QED
  BY <1>1, <1>2, <1>3, <1>4, <1>5, <1>6, <1>7, <1>8, <1>9, <1>10, <1>11, <1>12, <1>13
  DEF PollStep

\* So does every step.
LEMMA StepInv ==
  ASSUME Inv, [Next]_vars
  PROVE  Inv'
<1> USE Parameters DEF Inv, TypeOK, LoginInv, BatchInv, U, Procs, LoginPc, RunPc,
          files, loginVars, batch, history, counters
<1>1. CASE Arrive
  BY <1>1 DEF Arrive
<1>2. CASE Start
  BY <1>2 DEF Start
<1>3. CASE EnsureLoggedIn
  BY SMTT(30), <1>3 DEF EnsureLoggedIn, Accounts
<1>4. CASE LoginForced
  BY <1>4 DEF LoginForced
<1>5. ASSUME NEW p \in Procs, LoginStep(p) \/ LoginTimesOut(p) PROVE Inv'
  BY <1>5, LoginStepInv
<1>6. ASSUME NEW p \in Procs, Die(p) PROVE Inv'
  <2>1. CASE p = "run"
    BY SMTT(30), <1>6, <2>1 DEF Die, LoginError, LeaveBatch
  <2>2. CASE p = "cli"
    BY <1>6, <2>2 DEF Die, LoginError
  <2> QED
    BY ONLY <2>1, <2>2, p \in {"run", "cli"}
<1>7. CASE PollStep
  BY <1>7, PollStepInv
<1>8. CASE UNCHANGED vars
  BY <1>8 DEF vars
<1> QED
  BY <1>1, <1>2, <1>3, <1>4, <1>5, <1>6, <1>7, <1>8 DEF Next

\* Types, for every channel and every bound; a polling connector holds a confirmed
\* account (ensure_logged_in, save_account).
THEOREM TypeCorrect == Spec => []TypeOK
<1>1. Spec => []Inv
  BY InitInv, StepInv, PTL DEF Spec
<1> QED
  BY <1>1, PTL DEF Inv

-----------------------------------------------------------------------------
(* What a step does to the updates submitted *)

\* The channel comes to repeat itself, and nothing is submitted.
CursorLost == Repeats' > Repeats /\ UNCHANGED <<submitted, order>>

\* Nothing is submitted, and what could not be submitted again still cannot be.
Advances ==
  Repeats' = Repeats /\ UNCHANGED <<submitted, order>> /\ Frontier' >= Frontier

\* Update u is submitted: it was not before the frontier, and now it is, unless the
\* channel comes to repeat itself with the same step.
Submits(u) ==
  /\ submitted' = [submitted EXCEPT ![u] = @ + 1]
  /\ order' = Append(order, u)
  /\ u >= Frontier
  /\ (Repeats' = Repeats /\ Frontier' > u) \/ Repeats' > Repeats

\* A step makes the channel repeat itself, submits an update at the frontier or beyond and
\* passes it, or submits nothing and does not let the frontier fall.
LEMMA StepKinds ==
  ASSUME Inv, [Next]_vars
  PROVE  CursorLost \/ Advances \/ \E u \in U : Submits(u)
<1> USE Parameters DEF files, loginVars, batch, history, counters
<1> DEFINE Claim == CursorLost \/ Advances \/ \E u \in U : Submits(u)
<1>1. /\ next \in Nat /\ last \in 0..Len(Updates) /\ cursorFile \in Nat /\ resets \in Nat
      /\ blanks \in Nat /\ fresh \in BOOLEAN
      /\ BatchInv /\ run \in RunPc
  BY DEF Inv, TypeOK
<1>2. ASSUME UNCHANGED <<run, next, cursorFile, resets, blanks, fresh, submitted, order>> PROVE Advances
  BY <1>1, <1>2 DEF Advances, Frontier, Repeats
<1>3. CASE Arrive
  BY <1>2, <1>3 DEF Arrive
<1>4. CASE Start
  BY <1>1, <1>4 DEF Start, Advances, Frontier, Repeats
<1>5. CASE EnsureLoggedIn
  BY <1>1, <1>5 DEF EnsureLoggedIn, Advances, Frontier, Repeats
<1>6. CASE LoginForced
  BY <1>2, <1>6 DEF LoginForced
<1>7. ASSUME NEW p \in Procs, LoginStep(p) \/ LoginTimesOut(p) PROVE Advances
  <2>1. UNCHANGED <<next, cursorFile, resets, blanks, fresh, submitted, order>>
    BY <1>7 DEF LoginStep, TicketIssued, Confirmed, LoginFails, SaveAccountBegins,
                SaveAccountEnds, LoginTimesOut
  <2>2. UNCHANGED run \/ (p = "run" /\ login[p] # "idle" /\ run' \in {"off", "poll"})
    BY <1>7 DEF LoginStep, TicketIssued, Confirmed, LoginFails, SaveAccountBegins,
                SaveAccountEnds, LoginTimesOut, LoginError
  <2>3. p = "run" /\ login[p] # "idle" => run = "login"
    BY DEF Inv, LoginInv
  <2> QED
    BY <1>1, <2>1, <2>2, <2>3 DEF Advances, Frontier, Repeats
<1>8. ASSUME NEW p \in Procs, Die(p) PROVE CursorLost \/ Advances
  <2>1. CASE p = "cli"
    BY <1>2, <1>8, <2>1 DEF Die, LoginError
  <2>2. CASE p = "run" /\ (run = "writing" \/ ~fresh)
    BY <1>1, <1>8, <2>2 DEF Die, LeaveBatch, CursorLost, Repeats
  <2>3. CASE p = "run" /\ run # "writing" /\ fresh
    BY <1>1, <1>8, <2>3 DEF Die, LoginError, LeaveBatch, Advances, Frontier, Repeats,
                            BatchInv, RunPc
  <2> QED
    BY <1>1, <1>8, <2>1, <2>2, <2>3 DEF Procs
<1>9. CASE PollStep
  <2>1. CASE Fetch
    BY <1>1, <2>1 DEF Fetch, NextBatch, Advances, Frontier, Repeats, BatchInv
  <2>2. CASE FetchFails
    BY <1>1, <2>2 DEF FetchFails, Advances, Frontier, Repeats
  <2>3. CASE FetchBlank
    BY <1>1, <2>3 DEF FetchBlank, NextBatch, Advances, Frontier, Repeats, BatchInv
  <2>4. CASE SaveCursorBegins
    BY <1>1, <2>4 DEF SaveCursorBegins, Advances, Frontier, Repeats
  <2>5. CASE SaveCursorEnds
    BY <1>1, <2>5 DEF SaveCursorEnds, Advances, Frontier, Repeats
  <2>6. CASE SaveCursorFails
    <3>1. CASE run = "fetched" /\ fresh
      BY <1>1, <2>6, <3>1 DEF SaveCursorFails, LeaveBatch, Advances, Frontier, Repeats, BatchInv
    <3>2. CASE run = "writing" \/ ~fresh
      BY <1>1, <2>6, <3>2 DEF SaveCursorFails, LeaveBatch, CursorLost, Repeats
    <3> QED
      BY <1>1, <2>6, <3>1, <3>2 DEF SaveCursorFails
  <2>7. CASE Ignore
    BY <1>1, <2>7 DEF Ignore, Advances, Frontier, Repeats
  <2>8. CASE Submit
    <3>1. next \in U
      BY <1>1, <2>8 DEF Submit, U, Inv, TypeOK
    <3>2. Submits(next)
      BY <1>1, <2>8 DEF Submit, Deliver, Submits, Frontier, Repeats
    <3> QED
      BY <3>1, <3>2
  <2>9. CASE SubmitFails
    <3>1. next \in U
      BY <1>1, <2>9 DEF SubmitFails, U, Inv, TypeOK
    <3>2. /\ run' = "sleep" /\ UNCHANGED <<resets, blanks, cursorFile>> /\ fresh' = TRUE
          /\ run = "handle" /\ next <= last
      BY <2>9 DEF SubmitFails, LeaveBatch
    <3>3. /\ Frontier = next
          /\ (Repeats' = Repeats /\ Frontier' = last + 1) \/ Repeats' > Repeats
      BY <1>1, <3>2 DEF Frontier, Repeats, BatchInv
    <3>4. CASE UNCHANGED <<submitted, order>>
      BY <1>1, <3>2, <3>3, <3>4 DEF Advances, CursorLost
    <3>5. CASE Deliver(next)
      <4>1. Submits(next)
        BY <1>1, <3>2, <3>3, <3>5 DEF Submits, Deliver
      <4> QED
        BY <3>1, <4>1
    <3> QED
      BY <2>9, <3>4, <3>5 DEF SubmitFails
  <2>10. CASE Reply
    BY <1>1, <2>10 DEF Reply, Advances, Frontier, Repeats
  <2>11. CASE ReplyFails
    <3>1. CASE fresh
      BY <1>1, <2>11, <3>1 DEF ReplyFails, LeaveBatch, Advances, Frontier, Repeats, BatchInv
    <3>2. CASE ~fresh
      BY <1>1, <2>11, <3>2 DEF ReplyFails, LeaveBatch, CursorLost, Repeats
    <3> QED
      BY <3>1, <3>2
  <2>12. CASE BatchDone
    <3>1. CASE fresh
      BY <1>1, <2>12, <3>1 DEF BatchDone, LeaveBatch, Advances, Frontier, Repeats, BatchInv
    <3>2. CASE ~fresh
      BY <1>1, <2>12, <3>2 DEF BatchDone, LeaveBatch, CursorLost, Repeats
    <3> QED
      BY <3>1, <3>2
  <2>13. CASE Wake
    BY <1>1, <2>13 DEF Wake, Advances, Frontier, Repeats
  <2> QED
    BY <1>9, <2>1, <2>2, <2>3, <2>4, <2>5, <2>6, <2>7, <2>8, <2>9, <2>10, <2>11, <2>12, <2>13
    DEF PollStep
<1>10. CASE UNCHANGED vars
  BY <1>2, <1>10 DEF vars
<1> QED
  BY <1>3, <1>4, <1>5, <1>6, <1>7, <1>8, <1>9, <1>10 DEF Next

\* The channel repeats itself a natural number of times.
LEMMA RepeatsType ==
  ASSUME Inv
  PROVE  Repeats \in Nat /\ (resets + blanks = 0 => Repeats = 0)
                          /\ Repeats <= resets + blanks
<1>1. resets \in Nat /\ blanks \in Nat /\ fresh \in BOOLEAN /\ (~fresh => blanks > 0)
  BY Parameters DEF Inv, TypeOK, BatchInv
<1> QED
  BY <1>1 DEF Repeats

\* The frontier is a number.
LEMMA FrontierType ==
  ASSUME Inv, Inv'
  PROVE  Frontier \in Nat /\ Frontier' \in Nat
<1>1. next \in Nat /\ cursorFile \in Nat /\ next' \in Nat /\ cursorFile' \in Nat
  BY Parameters DEF Inv, TypeOK
<1>2. Frontier \in Nat
  BY <1>1 DEF Frontier
<1>0. \A n \in Nat : n + 1 \in Nat
  OBVIOUS
<1>3. next' + 1 \in Nat /\ cursorFile' + 1 \in Nat
  BY <1>0, <1>1
<1>4. Frontier' = next' + 1 \/ Frontier' = next' \/ Frontier' = cursorFile' + 1
  BY DEF Frontier
<1> QED
  BY <1>1, <1>2, <1>3, <1>4

\* So is how often the channel has repeated itself after the step.
LEMMA RepeatsNext ==
  ASSUME Inv'
  PROVE  Repeats' \in Nat
<1>1. resets' \in Nat /\ blanks' \in Nat /\ fresh' \in BOOLEAN /\ (~fresh' => blanks' > 0)
  BY Parameters DEF Inv, TypeOK, BatchInv
<1>0. \A m, n \in Nat : m + n - 0 \in Nat /\ (n > 0 => m + n - 1 \in Nat)
  OBVIOUS
<1>2. CASE fresh'
  <2>1. Repeats' = resets' + blanks' - 0
    BY <1>2 DEF Repeats
  <2> QED
    BY <1>0, <1>1, <2>1
<1>3. CASE ~fresh'
  <2>1. Repeats' = resets' + blanks' - 1
    BY <1>3 DEF Repeats
  <2> QED
    BY <1>0, <1>1, <1>3, <2>1
<1> QED
  BY <1>2, <1>3

\* None of these submits an update more often than the channel repeats itself, and once more.
LEMMA OnceStep ==
  ASSUME Inv, Inv', OnceInv, CursorLost \/ Advances \/ \E u \in U : Submits(u)
  PROVE  OnceInv'
<1>1. /\ submitted \in [U -> Nat] /\ U \subseteq Nat /\ Repeats \in Nat /\ Repeats' \in Nat
      /\ Frontier \in Nat /\ Frontier' \in Nat
  <2>1. U \subseteq Nat
    BY DEF U
  <2> QED
    BY <2>1, FrontierType, RepeatsType, RepeatsNext DEF Inv, TypeOK
<1>2. CASE CursorLost
  BY <1>1, <1>2 DEF CursorLost, OnceInv
<1>3. CASE Advances
  BY <1>1, <1>3 DEF Advances, OnceInv
<1>4. ASSUME NEW u \in U, Submits(u) PROVE OnceInv'
  <2> SUFFICES ASSUME NEW v \in U
               PROVE  /\ submitted'[v] <= Repeats' + 1
                      /\ v >= Frontier' => submitted'[v] <= Repeats'
    BY DEF OnceInv
  <2>1. CASE v = u
    BY <1>1, <1>4, <2>1 DEF Submits, OnceInv
  <2>2. CASE v # u
    BY <1>1, <1>4, <2>2 DEF Submits, OnceInv
  <2> QED
    BY <2>1, <2>2
<1> QED
  BY <1>2, <1>3, <1>4

\* None of these submits out of order while the channel does not repeat itself.
LEMMA OrderStep ==
  ASSUME Inv, Inv', OrderInv, CursorLost \/ Advances \/ \E u \in U : Submits(u)
  PROVE  OrderInv'
<1>1. /\ order \in Seq(U) /\ U \subseteq Nat /\ Repeats \in Nat /\ Repeats' \in Nat
      /\ Frontier \in Nat /\ Frontier' \in Nat
  <2>1. U \subseteq Nat
    BY DEF U
  <2> QED
    BY <2>1, FrontierType, RepeatsType, RepeatsNext DEF Inv, TypeOK
<1>a. DOMAIN order = 1..Len(order) /\ Len(order) \in Nat /\ \A i \in 1..Len(order) : order[i] \in Nat
  <2>1. DOMAIN order = 1..Len(order) /\ Len(order) \in Nat
    BY <1>1
  <2>2. \A i \in 1..Len(order) : order[i] \in U
    BY <1>1
  <2> QED
    BY <1>1, <2>1, <2>2
<1>2. CASE CursorLost
  BY <1>1, <1>2 DEF CursorLost, OrderInv
<1>3. CASE Advances
  BY <1>1, <1>a, <1>3 DEF Advances, OrderInv
<1>4. ASSUME NEW u \in U, Submits(u) PROVE OrderInv'
  <2>1. /\ DOMAIN order = 1..Len(order) /\ DOMAIN order' = 1..Len(order) + 1
        /\ order'[Len(order) + 1] = u /\ Len(order) \in Nat
        /\ \A i \in 1..Len(order) : order'[i] = order[i] /\ order[i] \in Nat
    BY <1>1, <1>a, <1>4 DEF Submits
  <2>2. u \in Nat /\ u >= Frontier
    BY <1>1, <1>4 DEF Submits
  <2>3. CASE Repeats' > Repeats
    BY <1>1, <2>3 DEF OrderInv
  <2>4. CASE Repeats' = Repeats /\ Frontier' > u
    <3>1. Repeats = 0 => \A i \in 1..Len(order) : order[i] < u
      BY SMTT(30), <1>1, <2>1, <2>2 DEF OrderInv
    <3>2. Repeats = 0 => \A i \in DOMAIN order' : order'[i] < Frontier'
      BY <1>1, <2>1, <2>2, <2>4, <3>1
    <3>3. Repeats = 0 => \A i, j \in DOMAIN order : i < j => order[i] < order[j]
      BY DEF OrderInv
    <3>4. Repeats = 0 => \A i, j \in DOMAIN order' : i < j => order'[i] < order'[j]
      BY <1>1, <2>1, <2>2, <3>1, <3>3
    <3> QED
      BY <2>4, <3>2, <3>4 DEF OrderInv
  <2> QED
    BY <1>4, <2>3, <2>4 DEF Submits
<1> QED
  BY <1>2, <1>3, <1>4

\* An update is submitted at most once more than the cursor was lost or not sent (run_once,
\* save_cursor), for any channel and any number of errors, failed polls and deaths.
THEOREM Once == Spec => []AtMostOnce
<1>1. Init => Inv /\ OnceInv
  BY InitInv, Parameters DEF Init, OnceInv, Repeats, U
<1>2. Inv /\ OnceInv /\ [Next]_vars => (Inv /\ OnceInv)'
  BY StepInv, StepKinds, OnceStep
<1>3. Inv /\ OnceInv => AtMostOnce
  <2> SUFFICES ASSUME Inv, OnceInv, NEW u \in U PROVE submitted[u] <= resets + blanks + 1
    BY DEF AtMostOnce
  <2>1. submitted[u] \in Nat /\ resets \in Nat /\ blanks \in Nat
    BY Parameters DEF Inv, TypeOK
  <2> QED
    BY <2>1, RepeatsType DEF OnceInv
<1> QED
  BY <1>1, <1>2, <1>3, PTL DEF Spec

\* Updates are submitted in the channel's order until the cursor is lost or not sent
\* (run_once).
THEOREM InOrder == Spec => []InChannelOrder
<1>1. Init => Inv /\ OrderInv
  BY InitInv DEF Init, OrderInv
<1>2. Inv /\ OrderInv /\ [Next]_vars => (Inv /\ OrderInv)'
  BY StepInv, StepKinds, OrderStep
<1>3. Inv /\ OrderInv => InChannelOrder
  BY RepeatsType DEF OrderInv, InChannelOrder
<1> QED
  BY <1>1, <1>2, <1>3, PTL DEF Spec

-----------------------------------------------------------------------------
(* What is lost *)

\* The last update that the cursor covers, or covered before it is rewritten.
Covered == IF run = "writing" THEN next - 1 ELSE cursorFile

\* What Covered covers and will not be submitted.
Missed ==
  {u \in 1..Covered : /\ Addressed(u)
                      /\ submitted[u] = 0
                      /\ run \in {"handle", "await"} => u \notin next..last}

\* A batch holds no more updates than a response, and the one that is answered was
\* submitted.
SizeInv ==
  /\ run = "writing" => cursorFile = 0
  /\ run \in {"fetched", "writing", "handle", "await"} => last < next + BatchLimit
  /\ run = "await" => submitted[next] > 0

MissedInv == Cardinality(Missed) <= BatchLimit * (crashes + errors)

\* Every step keeps the size of the batch.
LEMMA SizeStep ==
  ASSUME Inv, SizeInv, [Next]_vars
  PROVE  SizeInv'
<1> USE Parameters, WeixinAssumption
    DEF files, loginVars, batch, history, counters, SizeInv
<1>1. /\ next \in Nat /\ next >= 1 /\ last \in 0..Len(Updates) /\ cursorFile \in Nat
      /\ BatchInv /\ submitted \in [U -> Nat] /\ U = 1..Len(Updates)
  BY DEF Inv, TypeOK, U
<1>2. CASE Arrive \/ Start \/ EnsureLoggedIn \/ LoginForced
  BY <1>2 DEF Arrive, Start, EnsureLoggedIn, LoginForced
<1>3. ASSUME NEW p \in Procs, LoginStep(p) \/ LoginTimesOut(p) PROVE SizeInv'
  <2>1. UNCHANGED <<next, last, cursorFile, submitted>>
    BY <1>3 DEF LoginStep, TicketIssued, Confirmed, LoginFails, SaveAccountBegins,
                SaveAccountEnds, LoginTimesOut
  <2>2. UNCHANGED run \/ run' \in {"off", "poll"}
    BY <1>3 DEF LoginStep, TicketIssued, Confirmed, LoginFails, SaveAccountBegins,
                SaveAccountEnds, LoginTimesOut, LoginError
  <2> QED
    BY <2>1, <2>2
<1>4. ASSUME NEW p \in Procs, Die(p) PROVE SizeInv'
  BY <1>4 DEF Die, LoginError
<1>5. CASE Fetch \/ FetchFails \/ FetchBlank \/ SaveCursorBegins \/ SaveCursorEnds
  BY <1>1, <1>5 DEF Fetch, FetchFails, FetchBlank, NextBatch, SaveCursorBegins, SaveCursorEnds
<1>6. CASE SaveCursorFails \/ SubmitFails \/ ReplyFails \/ BatchDone \/ Wake
  BY <1>6 DEF SaveCursorFails, SubmitFails, ReplyFails, BatchDone, Wake
<1>7. CASE Ignore \/ Submit \/ Reply
  <2>1. CASE Ignore
    BY <1>1, <2>1 DEF Ignore
  <2>2. CASE Submit
    <3>1. next \in U
      BY <1>1, <2>2 DEF Submit
    <3>2. submitted'[next] = submitted[next] + 1 /\ submitted[next] \in Nat
      BY <1>1, <2>2, <3>1 DEF Submit, Deliver
    <3> QED
      BY <1>1, <2>2, <3>2 DEF Submit
  <2>3. CASE Reply
    BY <1>1, <2>3 DEF Reply
  <2> QED
    BY <1>7, <2>1, <2>2, <2>3
<1>8. CASE UNCHANGED vars
  BY <1>8 DEF vars
<1> QED
  BY <1>2, <1>3, <1>4, <1>5, <1>6, <1>7, <1>8 DEF Next, PollStep

\* No more is lost, or an error or a death leaves the batch.
Keeps ==
  Missed' \subseteq Missed /\ crashes' + errors' >= crashes + errors

Leaves ==
  /\ Missed' \subseteq Missed \cup next..last
  /\ last < next + BatchLimit
  /\ crashes' + errors' = crashes + errors + 1

LEMMA MissedKinds ==
  ASSUME Inv, SizeInv, [Next]_vars
  PROVE  Keeps \/ Leaves
<1> USE Parameters, WeixinAssumption DEF files, loginVars, batch, history, counters
<1>1. /\ next \in Nat /\ last \in 0..Len(Updates) /\ cursorFile \in 0..Len(Updates)
      /\ crashes \in Nat /\ errors \in Nat /\ submitted \in [U -> Nat]
      /\ U = 1..Len(Updates) /\ Len(Updates) \in Nat /\ next >= 1
      /\ BatchInv /\ SizeInv /\ run \in RunPc
  BY DEF Inv, TypeOK, U
<1>2. ASSUME UNCHANGED <<run, next, last, cursorFile, submitted>>,
             crashes' + errors' >= crashes + errors
      PROVE  Keeps
  BY <1>2 DEF Keeps, Missed, Covered
<1>3. ASSUME cursorFile' = 0, run' # "writing", crashes' + errors' >= crashes + errors
      PROVE  Keeps
  BY <1>3 DEF Keeps, Missed, Covered
<1>4. ASSUME UNCHANGED <<cursorFile, submitted>>, run # "writing", run' # "writing",
             run \notin {"handle", "await"}, crashes' + errors' >= crashes + errors
      PROVE  Keeps
  BY <1>4 DEF Keeps, Missed, Covered
<1>5. CASE Arrive \/ LoginForced
  BY <1>1, <1>2, <1>5 DEF Arrive, LoginForced
<1>6. CASE Start \/ EnsureLoggedIn \/ Fetch \/ FetchFails \/ Wake
  BY <1>1, <1>4, <1>6 DEF Start, EnsureLoggedIn, Fetch, FetchFails, Wake
<1>7. ASSUME NEW p \in Procs, LoginStep(p) \/ LoginTimesOut(p) PROVE Keeps
  <2>1. UNCHANGED <<next, last, cursorFile, submitted, crashes, errors>>
    BY <1>7 DEF LoginStep, TicketIssued, Confirmed, LoginFails, SaveAccountBegins,
                SaveAccountEnds, LoginTimesOut
  <2>2. UNCHANGED run \/ (p = "run" /\ login[p] # "idle" /\ run' \in {"off", "poll"})
    BY <1>7 DEF LoginStep, TicketIssued, Confirmed, LoginFails, SaveAccountBegins,
                SaveAccountEnds, LoginTimesOut, LoginError
  <2>3. p = "run" /\ login[p] # "idle" => run = "login"
    BY DEF Inv, LoginInv
  <2> QED
    BY <1>1, <1>2, <1>4, <2>1, <2>2, <2>3
<1>8. ASSUME NEW p \in Procs, Die(p) PROVE Keeps \/ Leaves
  <2>1. CASE p = "cli"
    BY <1>1, <1>2, <1>8, <2>1 DEF Die, LoginError
  <2>2. CASE p = "run" /\ run = "writing"
    BY <1>1, <1>3, <1>8, <2>2 DEF Die, LoginError, SizeInv
  <2>3. CASE p = "run" /\ run \in {"handle", "await"}
    <3>1. /\ run' = "off" /\ UNCHANGED <<cursorFile, submitted, errors>>
          /\ crashes' = crashes + 1
      BY <1>8, <2>3 DEF Die, LoginError
    <3> QED
      BY <1>1, <2>3, <3>1 DEF Leaves, Missed, Covered, SizeInv
  <2>4. CASE p = "run" /\ run \notin {"writing", "handle", "await"}
    BY <1>1, <1>4, <1>8, <2>4 DEF Die, LoginError
  <2> QED
    BY <1>8, <2>1, <2>2, <2>3, <2>4 DEF Procs
<1>9. CASE FetchBlank
  <2>1. /\ run = "poll" /\ run' \in {"handle", "fetched"} /\ next' = cursorFile + 1
        /\ UNCHANGED <<cursorFile, submitted, crashes, errors>>
    BY <1>9 DEF FetchBlank, NextBatch
  <2>2. Covered = cursorFile /\ Covered' = cursorFile
    BY <2>1 DEF Covered
  <2> QED
    BY <1>1, <2>1, <2>2 DEF Keeps, Missed
<1>10. CASE SaveCursorBegins
  <2>1. /\ run = "fetched" /\ run' = "writing" /\ next = cursorFile + 1
        /\ UNCHANGED <<next, last, submitted, crashes, errors>>
    BY <1>1, <1>10 DEF SaveCursorBegins, BatchInv
  <2>2. Covered = cursorFile /\ Covered' = cursorFile
    BY <1>1, <2>1 DEF Covered
  <2> QED
    BY <1>1, <2>1, <2>2 DEF Keeps, Missed
<1>11. CASE SaveCursorEnds
  <2>1. /\ run = "writing" /\ run' = "handle" /\ cursorFile' = IF fresh THEN last ELSE 0
        /\ UNCHANGED <<next, last, submitted, crashes, errors>>
    BY <1>11 DEF SaveCursorEnds
  <2>2. CASE ~fresh
    BY <1>1, <1>3, <2>1, <2>2
  <2>3. CASE fresh
    <3>1. Covered = next - 1 /\ Covered' = last
      BY <2>1, <2>3 DEF Covered
    <3> QED
      BY <1>1, <2>1, <2>3, <3>1 DEF Keeps, Missed
  <2> QED
    BY <2>2, <2>3
<1>12. CASE SaveCursorFails
  <2>1. CASE run = "fetched"
    BY <1>1, <1>4, <1>12, <2>1 DEF SaveCursorFails
  <2>2. CASE run = "writing"
    BY <1>1, <1>3, <1>12, <2>2 DEF SaveCursorFails, SizeInv
  <2> QED
    BY <1>12, <2>1, <2>2 DEF SaveCursorFails
<1>13. CASE Ignore
  BY <1>1, <1>13 DEF Ignore, Keeps, Missed, Covered
<1>14. CASE Submit
  BY <1>1, <1>14 DEF Submit, Deliver, Keeps, Missed, Covered
<1>15. CASE SubmitFails
  <2>1. /\ run = "handle" /\ run' = "sleep" /\ UNCHANGED <<cursorFile, crashes>>
        /\ errors' = errors + 1
    BY <1>15 DEF SubmitFails
  <2>2. \A u \in U : submitted'[u] = 0 => submitted[u] = 0
    BY <1>1, <1>15 DEF SubmitFails, Deliver
  <2> QED
    BY <1>1, <2>1, <2>2 DEF Leaves, Missed, Covered, SizeInv
<1>16. CASE Reply
  BY <1>1, <1>16 DEF Reply, Keeps, Missed, Covered, SizeInv
<1>17. CASE ReplyFails
  <2>1. /\ run = "await" /\ run' = "sleep" /\ UNCHANGED <<cursorFile, crashes, submitted>>
        /\ errors' = errors + 1
    BY <1>17 DEF ReplyFails
  <2> QED
    BY <1>1, <2>1 DEF Leaves, Missed, Covered, SizeInv
<1>18. CASE BatchDone
  BY <1>1, <1>18 DEF BatchDone, Keeps, Missed, Covered
<1>19. CASE UNCHANGED vars
  BY <1>1, <1>2, <1>19 DEF vars
<1> QED
  BY <1>5, <1>6, <1>7, <1>8, <1>9, <1>10, <1>11, <1>12, <1>13, <1>14, <1>15, <1>16,
     <1>17, <1>18, <1>19 DEF Next, PollStep

\* Arithmetic of the bound.
LEMMA Scaled ==
  ASSUME NEW b \in Nat, NEW n \in Nat, NEW m \in Nat
  PROVE  /\ b * n \in Nat
         /\ n <= m => b * n <= b * m
         /\ b * (n + 1) = b * n + b
<1>1. b * n \in Nat
  OBVIOUS
<1>2. b * (n + 1) = b * n + b
  OBVIOUS
<1>3. ASSUME n <= m PROVE b * n <= b * m
  <2>1. PICK k \in Nat : m = n + k
    BY <1>3
  <2>2. b * m = b * n + b * k /\ b * k \in Nat
    BY <2>1
  <2> QED
    BY <1>1, <2>2
<1> QED
  BY <1>1, <1>2, <1>3

\* An error or a death adds no more than a batch to what is lost.
LEMMA MissedStep ==
  ASSUME Inv, Inv', MissedInv, Keeps \/ Leaves
  PROVE  MissedInv'
<1>0. BatchLimit \in Nat
  BY WeixinAssumption
<1>1. /\ crashes + errors \in Nat /\ crashes' + errors' \in Nat /\ BatchLimit \in Nat
      /\ cursorFile \in Nat /\ next \in Nat /\ next >= 1 /\ last \in Nat
  <2>1. /\ cursorFile \in 0..Len(Updates) /\ next \in 1..Len(Updates) + 1
        /\ last \in 0..Len(Updates) /\ errors \in 0..MaxErrors /\ crashes \in 0..MaxCrashes
    BY DEF Inv, TypeOK
  <2>2. errors' \in 0..MaxErrors /\ crashes' \in 0..MaxCrashes
    BY DEF Inv, TypeOK
  <2>3. /\ Len(Updates) \in Nat /\ MaxErrors \in Nat /\ MaxCrashes \in Nat
    BY Parameters
  <2>4. cursorFile \in Nat /\ next \in Nat /\ next >= 1 /\ last \in Nat
    BY <2>1, <2>3
  <2>5. errors \in Nat /\ crashes \in Nat /\ errors' \in Nat /\ crashes' \in Nat
    BY <2>1, <2>2, <2>3
  <2>6. \A m, n \in Nat : m + n \in Nat
    OBVIOUS
  <2> QED
    BY <1>0, <2>4, <2>5, <2>6
<1>2. IsFiniteSet(Missed) /\ Cardinality(Missed) \in Nat
  <2>0. Covered \in Int
    <3>1. next - 1 \in Int /\ cursorFile \in Int
      BY <1>1
    <3> QED
      BY <3>1 DEF Covered
  <2>1. IsFiniteSet(1..Covered)
    BY <2>0, FS_Interval
  <2>2. Missed \subseteq 1..Covered
    BY DEF Missed
  <2> QED
    BY <2>1, <2>2, FS_Subset, FS_CardinalityType
<1>3. CASE Keeps
  <2>1. Cardinality(Missed') <= Cardinality(Missed)
    BY <1>2, <1>3, FS_Subset DEF Keeps
  <2>2. BatchLimit * (crashes + errors) <= BatchLimit * (crashes' + errors')
    BY <1>1, <1>3, Scaled DEF Keeps
  <2>3. IsFiniteSet(Missed') /\ Cardinality(Missed') \in Nat
    BY <1>2, <1>3, FS_Subset, FS_CardinalityType DEF Keeps
  <2>4. BatchLimit * (crashes + errors) \in Nat /\ BatchLimit * (crashes' + errors') \in Nat
    BY <1>1, Scaled
  <2> QED
    BY <1>2, <2>1, <2>2, <2>3, <2>4 DEF MissedInv
<1>4. CASE Leaves
  <2>1. IsFiniteSet(next..last) /\ Cardinality(next..last) <= BatchLimit
    <3>1. Cardinality(next..last) = IF next > last THEN 0 ELSE last - next + 1
      BY <1>1, FS_Interval
    <3>2. IsFiniteSet(next..last)
      BY <1>1, FS_Interval
    <3> QED
      BY <1>1, <1>4, <3>1, <3>2 DEF Leaves
  <2>2. /\ IsFiniteSet(Missed \cup next..last)
        /\ Cardinality(Missed \cup next..last) <= Cardinality(Missed) + BatchLimit
    <3>1. Cardinality(Missed \cup next..last) =
            Cardinality(Missed) + Cardinality(next..last)
              - Cardinality(Missed \cap next..last)
      BY <1>2, <2>1, FS_Union
    <3>2. IsFiniteSet(Missed \cap next..last)
      BY <1>2, FS_Subset
    <3>3. /\ Cardinality(Missed \cap next..last) \in Nat
          /\ Cardinality(next..last) \in Nat
      BY <2>1, <3>2, FS_CardinalityType
    <3>4. IsFiniteSet(Missed \cup next..last)
      BY <1>2, <2>1, FS_Union
    <3> QED
      BY <1>1, <1>2, <2>1, <3>1, <3>3, <3>4
  <2>3. /\ IsFiniteSet(Missed') /\ Cardinality(Missed') \in Nat
        /\ Cardinality(Missed') <= Cardinality(Missed \cup next..last)
    BY <1>4, <2>2, FS_Subset, FS_CardinalityType DEF Leaves
  <2>4. Cardinality(Missed \cup next..last) \in Nat
    BY <2>2, FS_CardinalityType
  <2>5. BatchLimit * (crashes' + errors') = BatchLimit * (crashes + errors) + BatchLimit
    BY <1>1, <1>4, Scaled DEF Leaves
  <2>6. BatchLimit * (crashes + errors) \in Nat
    BY <1>1, Scaled
  <2> QED
    BY <1>1, <1>2, <2>2, <2>3, <2>4, <2>5, <2>6 DEF MissedInv
<1> QED
  BY <1>3, <1>4

\* An error or a death of the connector loses no more than the rest of the batch it was
\* handling, and a lost cursor loses nothing (run_once, save_cursor).
THEOREM LossPerFault == Spec => []LossBounded
<1>1. Init => Inv /\ SizeInv /\ MissedInv
  <2> SUFFICES ASSUME Init PROVE Inv /\ SizeInv /\ MissedInv
    OBVIOUS
  <2>1. Inv
    BY InitInv
  <2>2. Missed = {}
    BY DEF Init, Missed, Covered
  <2>3. Cardinality(Missed) = 0
    BY <2>2, FS_EmptySet
  <2>4. BatchLimit * 0 = 0
    BY WeixinAssumption
  <2> QED
    BY <2>1, <2>3, <2>4 DEF Init, SizeInv, MissedInv
<1>2. (Inv /\ SizeInv /\ MissedInv) /\ [Next]_vars => (Inv /\ SizeInv /\ MissedInv)'
  BY StepInv, SizeStep, MissedKinds, MissedStep
<1>3. Inv /\ SizeInv /\ MissedInv => LossBounded
  <2> SUFFICES ASSUME Inv, SizeInv, MissedInv PROVE LossBounded
    OBVIOUS
  <2>1. CASE run = "writing"
    <3>1. Lost = {}
      BY <2>1 DEF Lost, SizeInv
    <3>2. BatchLimit * (crashes + errors) \in Nat
      BY Parameters, WeixinAssumption, Scaled DEF Inv, TypeOK
    <3> QED
      BY <3>1, <3>2, FS_EmptySet DEF LossBounded
  <2>2. CASE run # "writing"
    BY <2>2 DEF Lost, Missed, Covered, MissedInv, LossBounded
  <2> QED
    BY <2>1, <2>2
<1> QED
  BY <1>1, <1>2, <1>3, PTL DEF Spec

=============================================================================
