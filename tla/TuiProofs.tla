----------------------------- MODULE TuiProofs -----------------------------
(* What TLAPS proves of the terminal client. The invariant's parts are in     *)
(* Tui; here each has a lemma for the first state and one for a step. Steps   *)
(* on sequences are summed up first (an entry is put somewhere, events are    *)
(* taken out of the queue), so that the parts never look inside them.         *)
EXTENDS Tui, SequenceTheorems, FiniteSetTheorems, TLAPS

(* Sequences *)

\* What remains of a queue when events are taken out of it.
Remains(r, q) ==
  /\ r \in Seq(Events)
  /\ \A i \in DOMAIN r : \E k \in DOMAIN q : q[k] = r[i]
  /\ SingleEvents(q) => SingleEvents(r)

\* Append adds one element at the end.
LEMMA AppendFacts ==
  ASSUME NEW S, NEW q \in Seq(S), NEW x \in S
  PROVE  /\ Append(q, x) \in Seq(S) /\ Len(Append(q, x)) = Len(q) + 1
         /\ DOMAIN Append(q, x) = DOMAIN q \cup {Len(q) + 1}
         /\ Len(q) \in Nat /\ Len(q) + 1 \notin DOMAIN q
         /\ \A i \in DOMAIN q : Append(q, x)[i] = q[i]
         /\ Append(q, x)[Len(q) + 1] = x
  OBVIOUS

\* A prefix, a queue without one event, its tail, nothing, and the queue itself: all of
\* them remain of a queue.
LEMMA PrefixRemains ==
  ASSUME NEW q \in Seq(Events), NEW n \in 0..Len(q)
  PROVE  Remains(SubSeq(q, 1, n), q)
  <1> DEFINE r == SubSeq(q, 1, n)
  <1>1. r \in Seq(Events) /\ DOMAIN r = 1..n /\ \A i \in 1..n : r[i] = q[i]
    OBVIOUS
  <1>2. DOMAIN q = 1..Len(q) /\ Len(q) \in Nat
    OBVIOUS
  <1> HIDE DEF r
  <1> QED BY <1>1, <1>2 DEF Remains, SingleEvents, r

\* What SubSeq leaves when it drops the first elements.
LEMMA SuffixFacts ==
  ASSUME NEW S, NEW q \in Seq(S), NEW n \in 1..Len(q)
  PROVE  LET b == SubSeq(q, n + 1, Len(q))
         IN b \in Seq(S) /\ Len(b) = Len(q) - n /\ \A i \in 1..(Len(q) - n) : b[i] = q[i + n]
  <1> DEFINE m == n + 1
             l == Len(q)
             b == SubSeq(q, m, l)
  <1>1. m \in Int /\ l \in Int /\ (\A i \in m..l : q[i] \in S)
        /\ m = n + 1 /\ l = Len(q) /\ m <= l + 1 /\ l \in Nat /\ n \in Nat
    OBVIOUS
  <1> HIDE DEF m, l
  <1>2. b \in Seq(S)
    BY <1>1, SubSeqProperties
  <1>3. Len(b) = (IF m <= l THEN l - m + 1 ELSE 0)
    BY <1>1, SubSeqProperties
  <1>4. \A i \in 1..(l - m + 1) : b[i] = q[m + i - 1]
    BY <1>1, SubSeqProperties
  <1> HIDE DEF b
  <1>5. Len(b) = Len(q) - n
    BY <1>1, <1>3
  <1>6. ASSUME NEW i \in 1..(Len(q) - n) PROVE b[i] = q[i + n]
    <2>1. i \in 1..(l - m + 1) /\ m + i - 1 = i + n
      BY <1>1
    <2> QED BY <2>1, <1>4
  <1> QED BY <1>2, <1>5, <1>6 DEF b, m, l

\* RemoveAt takes one event out (a lagging stream loses the oldest that waits).
LEMMA RemoveRemains ==
  ASSUME NEW q \in Seq(Events), NEW n \in 1..Len(q)
  PROVE  Remains(RemoveAt(q, n), q)
  <1> DEFINE a == SubSeq(q, 1, n - 1)
             b == SubSeq(q, n + 1, Len(q))
             r == a \o b
  <1>1. Len(q) \in Nat /\ DOMAIN q = 1..Len(q) /\ n \in Nat
    OBVIOUS
  <1>2. \A i \in 1..Len(q) : q[i] \in Events
    OBVIOUS
  <1>3. a \in Seq(Events) /\ Len(a) = n - 1 /\ \A i \in 1..(n - 1) : a[i] = q[i]
    BY <1>1, <1>2
  <1>4. b \in Seq(Events) /\ Len(b) = Len(q) - n
        /\ \A i \in 1..(Len(q) - n) : b[i] = q[i + n]
    BY <1>1, SuffixFacts
  <1> HIDE DEF a, b
  <1>5. r \in Seq(Events)
    BY <1>3, <1>4, ConcatProperties
  <1>6. Len(r) = Len(a) + Len(b)
    BY <1>3, <1>4, ConcatProperties
  <1>7. Len(r) = Len(q) - 1 /\ DOMAIN r = 1..(Len(q) - 1)
    <2> HIDE DEF r
    <2>1. Len(r) = Len(q) - 1
      BY <1>1, <1>3, <1>4, <1>6
    <2>2. DOMAIN r = 1..Len(r)
      BY <1>5
    <2> QED BY <2>1, <2>2
  <1>8. ASSUME NEW i \in 1..(Len(q) - 1)
        PROVE  r[i] = q[IF i < n THEN i ELSE i + 1]
    <2>1. r[i] = IF i <= Len(a) THEN a[i] ELSE b[i - Len(a)]
      BY <1>1, <1>3, <1>4, <1>8, ConcatProperties
    <2>2. CASE i < n
      BY <2>1, <2>2, <1>1, <1>3, <1>8
    <2>3. CASE ~(i < n)
      <3>1. r[i] = b[i - (n - 1)]
        BY <2>1, <2>3, <1>1, <1>3, <1>8
      <3>2. i - (n - 1) \in 1..(Len(q) - n) /\ (i - (n - 1)) + n = i + 1
        BY <2>3, <1>1, <1>8
      <3> QED BY <3>1, <3>2, <1>4, <2>3
    <2> QED BY <2>2, <2>3
  <1> HIDE DEF r
  <1>9. RemoveAt(q, n) = r
    BY DEF RemoveAt, r, a, b
  <1>10. \A i \in DOMAIN r : (IF i < n THEN i ELSE i + 1) \in DOMAIN q
    BY <1>1, <1>7
  <1>11. \A i, j \in DOMAIN r :
           (IF i < n THEN i ELSE i + 1) = (IF j < n THEN j ELSE j + 1) => i = j
    BY <1>1, <1>7
  <1>12. \A i \in DOMAIN r : r[i] = q[IF i < n THEN i ELSE i + 1]
    BY <1>7, <1>8
  <1> DEFINE f(i) == IF i < n THEN i ELSE i + 1
  <1>13. /\ \A i \in DOMAIN r : f(i) \in DOMAIN q /\ r[i] = q[f(i)]
         /\ \A i, j \in DOMAIN r : f(i) = f(j) => i = j
    BY <1>10, <1>11, <1>12
  <1> HIDE DEF f
  <1> QED BY <1>5, <1>13, <1>9 DEF Remains, SingleEvents

\* The head is the event that is handled next; the tail has the others.
LEMMA TailRemains ==
  ASSUME NEW q \in Seq(Events), q # <<>>
  PROVE  /\ Remains(Tail(q), q) /\ Head(q) \in Events /\ 1 \in DOMAIN q /\ Head(q) = q[1]
         /\ \A i \in DOMAIN q : i = 1 \/ \E k \in DOMAIN Tail(q) : Tail(q)[k] = q[i]
         /\ SingleEvents(q) /\ Head(q).kind = "completed" =>
              \A k \in DOMAIN Tail(q) : Tail(q)[k].kind = "completed" => Tail(q)[k].of # Head(q).of
  <1> DEFINE r == Tail(q)
  <1>1. Len(q) \in Nat /\ DOMAIN q = 1..Len(q) /\ Len(q) >= 1 /\ Head(q) = q[1] /\ Head(q) \in Events
    OBVIOUS
  <1>2. r \in Seq(Events) /\ Len(r) = Len(q) - 1 /\ \A i \in 1..Len(r) : r[i] = q[i + 1]
    BY HeadTailProperties
  <1>3. DOMAIN r = 1..Len(r)
    BY <1>2
  <1> HIDE DEF r
  <1> DEFINE f(i) == i + 1
  <1>4. /\ \A i \in DOMAIN r : f(i) \in DOMAIN q /\ f(i) # 1 /\ r[i] = q[f(i)]
        /\ \A i, j \in DOMAIN r : f(i) = f(j) => i = j
        /\ 1 \in DOMAIN q
    BY <1>1, <1>2, <1>3
  <1>5. \A i \in DOMAIN q : i = 1 \/ (i - 1 \in DOMAIN r /\ r[i - 1] = q[i])
    BY <1>1, <1>2, <1>3
  <1> HIDE DEF f
  <1>6. Remains(r, q)
    BY <1>2, <1>4 DEF Remains, SingleEvents
  <1>7. SingleEvents(q) /\ Head(q).kind = "completed" =>
              \A k \in DOMAIN r : r[k].kind = "completed" => r[k].of # Head(q).of
    BY <1>1, <1>4 DEF SingleEvents
  <1> QED BY <1>1, <1>4, <1>5, <1>6, <1>7 DEF r

LEMMA EmptyRemains ==
  ASSUME NEW q \in Seq(Events)
  PROVE  Remains(<<>>, q)
  <1>1. <<>> \in Seq(Events) /\ DOMAIN <<>> = {}
    OBVIOUS
  <1> QED BY <1>1 DEF Remains, SingleEvents

LEMMA SelfRemains ==
  ASSUME NEW q \in Seq(Events)
  PROVE  Remains(q, q)
  BY DEF Remains

\* The completed event of u is in q: Announcements, as a quantifier over places.
Queued(q, u) == \E i \in DOMAIN q : q[i].kind = "completed" /\ q[i].of = u

LEMMA QueuedFacts ==
  ASSUME NEW q, NEW u
  PROVE  u \in Announcements(q) <=> Queued(q, u)
  BY DEF Announcements, Queued, ToSet

(* Script *)

\* The three scripts: a read, a turn with no tool, a turn with one.
LEMMA ScriptFacts ==
  ASSUME NEW t \in Turns
  PROVE  \/ /\ Kind[t].read /\ Len(Script[t]) = 3 /\ DOMAIN Script[t] = 1..3
            /\ Script[t][1] = "tool_completed" /\ Script[t][2] = "tool_kept"
            /\ Script[t][3] = "completed"
         \/ /\ ~Kind[t].read /\ Len(Script[t]) = 3 /\ DOMAIN Script[t] = 1..3
            /\ Script[t][1] = "chunk" /\ Script[t][2] = "completed"
            /\ Script[t][3] = "kept"
         \/ /\ ~Kind[t].read /\ Len(Script[t]) = 6 /\ DOMAIN Script[t] = 1..6
            /\ Script[t][1] = "call_kept"
            /\ Script[t][2] = "tool_completed" /\ Script[t][3] = "tool_kept"
            /\ Script[t][4] = "chunk" /\ Script[t][5] = "completed"
            /\ Script[t][6] = "kept"
  <1> DEFINE tool == <<"tool_completed", "tool_kept">>
             answer == <<"chunk", "completed", "kept">>
  <1>1. Script[t] = IF Kind[t].read THEN Append(tool, "completed")
                    ELSE IF Kind[t].tool = None THEN answer
                    ELSE <<"call_kept">> \o tool \o answer
    BY DEF Script
  <1> DEFINE Texts == {"call_kept", "tool_completed", "tool_kept", "chunk", "completed", "kept"}
  <1>2. /\ tool \in Seq(Texts) /\ Len(tool) = 2
        /\ tool[1] = "tool_completed" /\ tool[2] = "tool_kept"
    OBVIOUS
  <1>3. /\ answer \in Seq(Texts) /\ Len(answer) = 3 /\ DOMAIN answer = 1..3
        /\ answer[1] = "chunk" /\ answer[2] = "completed" /\ answer[3] = "kept"
    OBVIOUS
  <1>4. /\ <<"call_kept">> \in Seq(Texts) /\ Len(<<"call_kept">>) = 1
        /\ <<"call_kept">>[1] = "call_kept"
    OBVIOUS
  <1>5. "completed" \in Texts
    OBVIOUS
  <1> HIDE DEF tool, answer, Texts
  <1> DEFINE w == Append(tool, "completed")
  <1>6. /\ Len(w) = 3 /\ DOMAIN w = 1..3
        /\ w[1] = "tool_completed" /\ w[2] = "tool_kept" /\ w[3] = "completed"
    <2>1. \A q \in Seq(Texts) : \A x \in Texts : Len(q) = 2 =>
            LET a == Append(q, x)
            IN Len(a) = 3 /\ DOMAIN a = 1..3 /\ a[1] = q[1] /\ a[2] = q[2] /\ a[3] = x
      <3> SUFFICES ASSUME NEW q \in Seq(Texts), NEW x \in Texts, Len(q) = 2
                   PROVE  LET a == Append(q, x)
                          IN Len(a) = 3 /\ DOMAIN a = 1..3 /\ a[1] = q[1] /\ a[2] = q[2] /\ a[3] = x
        OBVIOUS
      <3>1. 1 \in DOMAIN q /\ 2 \in DOMAIN q /\ DOMAIN q = 1..2
        OBVIOUS
      <3>2. /\ DOMAIN Append(q, x) = DOMAIN q \cup {3} /\ Len(Append(q, x)) = 3
            /\ \A i \in DOMAIN q : Append(q, x)[i] = q[i]
            /\ Append(q, x)[3] = x
        <4>1. Len(q) + 1 = 3
          OBVIOUS
        <4> QED BY <4>1, AppendFacts
      <3>3. 1..2 \cup {3} = 1..3
        OBVIOUS
      <3> QED BY <3>1, <3>2, <3>3
    <2> QED BY <2>1, <1>2, <1>5
  <1> HIDE DEF w
  <1> DEFINE c == <<"call_kept">>
             u == c \o tool
             v == u \o answer
  <1> HIDE DEF c
  <1>7. u \in Seq(Texts)
    BY <1>2, <1>4, ConcatProperties DEF c
  <1>8. Len(u) = Len(c) + Len(tool)
    BY <1>2, <1>4, ConcatProperties DEF c
  <1>9. \A i \in 1..(Len(c) + Len(tool)) : u[i] = IF i <= Len(c) THEN c[i] ELSE tool[i - Len(c)]
    BY <1>2, <1>4, ConcatProperties DEF c
  <1> HIDE DEF u
  <1>10. Len(u) = 3 /\ u[1] = "call_kept" /\ u[2] = "tool_completed" /\ u[3] = "tool_kept"
    BY <1>2, <1>4, <1>8, <1>9 DEF c
  <1>11. v \in Seq(Texts)
    BY <1>3, <1>7, ConcatProperties
  <1>12. Len(v) = Len(u) + Len(answer)
    BY <1>3, <1>7, ConcatProperties
  <1>13. \A i \in 1..(Len(u) + Len(answer)) : v[i] = IF i <= Len(u) THEN u[i] ELSE answer[i - Len(u)]
    BY <1>3, <1>7, ConcatProperties
  <1>14. (<<"call_kept">> \o tool) \o answer = v
    BY DEF v, u, c
  <1> HIDE DEF v
  <1>15. /\ Len(v) = 6 /\ DOMAIN v = 1..6
         /\ v[1] = "call_kept" /\ v[2] = "tool_completed" /\ v[3] = "tool_kept"
         /\ v[4] = "chunk" /\ v[5] = "completed" /\ v[6] = "kept"
    BY <1>3, <1>10, <1>11, <1>12, <1>13
  <1>16. CASE Kind[t].read
    <2>1. Script[t] = w
      BY <1>1, <1>16 DEF w
    <2> QED BY <2>1, <1>6, <1>16
  <1>17. CASE ~Kind[t].read /\ Kind[t].tool = None
    <2>1. Script[t] = answer
      BY <1>1, <1>17
    <2> QED BY <2>1, <1>3, <1>17
  <1>18. CASE ~Kind[t].read /\ Kind[t].tool # None
    <2>1. Script[t] = v
      BY <1>1, <1>14, <1>18
    <2> QED BY <2>1, <1>15, <1>18
  <1> QED BY <1>16, <1>17, <1>18

\* What a script may hold.
Steps == {"call_kept", "tool_completed", "tool_kept", "chunk", "completed", "kept"}

\* Where a running turn is in its script: an answer is announced once, and kept last,
\* after it was announced.
LEMMA StepFacts ==
  ASSUME TypeInv, TurnInv, NEW t \in Turns, status[t] = "running"
  PROVE  /\ NextStep(t) \in Steps /\ stage[t] + 1 \in 1..6 /\ Len(Script[t]) \in {3, 6}
         /\ stage[t] + 1 <= Len(Script[t])
         /\ NextStep(t) = "completed" =>
              ~Announced(t) /\ (stage[t] + 1 = Len(Script[t]) <=> Kind[t].read)
         /\ NextStep(t) = "kept" => Announced(t) /\ stage[t] + 1 = Len(Script[t])
         /\ sentTo[t] \in Sessions
  <1>1. stage[t] \in 0..6 /\ stage[t] < Len(Script[t]) /\ sentTo[t] \in Sessions /\ sentTo[t] # None
    BY TuiAssumption DEF TypeInv, TypeOK, TurnInv, TuiAssumption
  <1> DEFINE n == stage[t]
             sc == Script[t]
  <1>2. n \in Nat /\ n < Len(sc)
    BY <1>1
  <1>3. NextStep(t) = sc[n + 1] /\ (Announced(t) <=> \E i \in 1..n : sc[i] = "completed")
    BY <1>1 DEF NextStep, Announced
  <1>4. \/ /\ Kind[t].read /\ Len(sc) = 3
            /\ sc[1] = "tool_completed" /\ sc[2] = "tool_kept"
            /\ sc[3] = "completed"
         \/ /\ ~Kind[t].read /\ Len(sc) = 3
            /\ sc[1] = "chunk" /\ sc[2] = "completed"
            /\ sc[3] = "kept"
         \/ /\ ~Kind[t].read /\ Len(sc) = 6
            /\ sc[1] = "call_kept"
            /\ sc[2] = "tool_completed" /\ sc[3] = "tool_kept"
            /\ sc[4] = "chunk" /\ sc[5] = "completed"
            /\ sc[6] = "kept"
    BY ScriptFacts
  <1> HIDE DEF sc, n
  <1>51. Len(sc) = 3 \/ Len(sc) = 6
    BY <1>4
  <1>5. n + 1 \in 1..Len(sc) /\ Len(sc) \in {3, 6}
    BY <1>2, <1>51
  <1>10. /\ sc[n + 1] \in Steps
         /\ sc[n + 1] = "completed" => (\A i \in 1..n : sc[i] # "completed")
         /\ sc[n + 1] = "completed" => (n + 1 = Len(sc) <=> Kind[t].read)
         /\ sc[n + 1] = "kept" => (\E i \in 1..n : sc[i] = "completed") /\ n + 1 = Len(sc)
    <2>1. CASE /\ Kind[t].read /\ Len(sc) = 3
               /\ sc[1] = "tool_completed" /\ sc[2] = "tool_kept"
               /\ sc[3] = "completed"
      <3>1. n = 0 \/ n = 1 \/ n = 2
        BY <1>2, <2>1
      <3> QED BY <2>1, <3>1 DEF Steps
    <2>2. CASE /\ ~Kind[t].read /\ Len(sc) = 3
               /\ sc[1] = "chunk" /\ sc[2] = "completed"
               /\ sc[3] = "kept"
      <3>1. n = 0 \/ n = 1 \/ n = 2
        BY <1>2, <2>2
      <3> QED BY <2>2, <3>1 DEF Steps
    <2>3. CASE /\ ~Kind[t].read /\ Len(sc) = 6
               /\ sc[1] = "call_kept"
               /\ sc[2] = "tool_completed" /\ sc[3] = "tool_kept"
               /\ sc[4] = "chunk" /\ sc[5] = "completed"
               /\ sc[6] = "kept"
      <3>1. n = 0 \/ n = 1 \/ n = 2 \/ n = 3 \/ n = 4 \/ n = 5
        BY <1>2, <2>3
      <3> QED BY <2>3, <3>1 DEF Steps
    <2> QED BY <2>1, <2>2, <2>3, <1>4
  <1> QED BY <1>1, <1>3, <1>5, <1>10 DEF n, sc

-----------------------------------------------------------------------------
(* Types *)

Roles == {"user", "error", "call", "tool", "assistant"}

\* The constructors of entries and events.
LEMMA EntryType ==
  ASSUME NEW role \in Roles, NEW t \in Turns, NEW p \in BOOLEAN
  PROVE  /\ Entry(role, t, p) \in Entries
         /\ Entry(role, t, p).role = role /\ Entry(role, t, p).pending = p
         /\ Entry(role, t, p).of = <<t>>
  <1>1. <<t>> \in Seq(Turns)
    OBVIOUS
  <1> QED BY <1>1 DEF Entry, Entries, Roles

LEMMA EventType ==
  ASSUME NEW kind \in {"tool_completed", "chunk", "completed", "error"}, NEW t \in Turns
  PROVE  /\ [kind |-> kind, of |-> t] \in Events
         /\ [kind |-> kind, of |-> t].kind = kind /\ [kind |-> kind, of |-> t].of = t
  BY DEF Events

\* An answer of the loaded session whose event leaves the queue unhandled is lost.
LEMMA LostFacts ==
  ASSUME NEW q \in Seq(Events), NEW r, NEW u, Queued(q, u), sentTo[u] = loaded
  PROVE  Queued(r, u) \/ u \in Lost(q, r)
  BY QueuedFacts DEF Lost

\* Emit adds the turn's event or nothing, drops at most what lagged, and an answer of
\* the loaded session is queued or missed after it.
LEMMA EmitFacts ==
  ASSUME TypeInv, NEW kind \in {"tool_completed", "chunk", "completed", "error"},
         NEW t \in Turns, Emit(kind, t)
  PROVE  /\ queue' \in Seq(Events)
         /\ \A i \in DOMAIN queue' :
              \/ queue'[i].kind = kind /\ queue'[i].of = t
              \/ \E k \in DOMAIN queue : queue[k] = queue'[i]
         /\ SingleEvents(queue) /\ (kind = "completed" => ~Queued(queue, t)) => SingleEvents(queue')
         /\ \A u : /\ Queued(queue, u) \/ (kind = "completed" /\ u = t)
                   /\ sentTo[u] = loaded
                   => Queued(queue', u) \/ u \in missed'
         /\ missed \subseteq missed'
  <1> DEFINE event == [kind |-> kind, of |-> t]
             oldest == Len(queue) - Capacity + 1
             all == Append(queue, event)
  <1>1. event \in Events /\ event.kind = kind /\ event.of = t
    BY EventType
  <1>2. queue \in Seq(Events) /\ Capacity \in Nat \ {0} /\ Len(queue) \in Nat
    BY TuiAssumption DEF TypeInv, TuiAssumption
  <1>3. /\ \/ queue' = queue
           \/ queue' = all
           \/ oldest > 0 /\ queue' = Append(RemoveAt(queue, oldest), event)
        /\ missed' = missed \cup Lost(all, queue')
    BY DEF Emit
  <1> HIDE DEF event
  <1>4. ASSUME NEW r \in Seq(Events), Remains(r, queue), queue' = Append(r, event)
        PROVE  /\ queue' \in Seq(Events)
               /\ \A i \in DOMAIN queue' :
                    \/ queue'[i].kind = kind /\ queue'[i].of = t
                    \/ \E k \in DOMAIN queue : queue[k] = queue'[i]
               /\ SingleEvents(queue) /\ (kind = "completed" => ~Queued(queue, t)) => SingleEvents(queue')
    <2>1. /\ Append(r, event) \in Seq(Events)
          /\ DOMAIN Append(r, event) = DOMAIN r \cup {Len(r) + 1}
          /\ Len(r) + 1 \notin DOMAIN r
          /\ \A i \in DOMAIN r : Append(r, event)[i] = r[i]
          /\ Append(r, event)[Len(r) + 1] = event
      BY <1>1, AppendFacts
    <2> DEFINE n == Len(r) + 1
    <2>2. /\ queue' \in Seq(Events)
          /\ DOMAIN queue' = DOMAIN r \cup {n} /\ n \notin DOMAIN r
          /\ \A i \in DOMAIN r : queue'[i] = r[i]
          /\ queue'[n] = event
      BY <1>4, <2>1
    <2> HIDE DEF n
    <2>3. \A i \in DOMAIN r : \E k \in DOMAIN queue : queue[k] = r[i]
      BY <1>4 DEF Remains
    <2>4. ASSUME SingleEvents(queue), kind = "completed" => ~Queued(queue, t) PROVE SingleEvents(queue')
      <3>1. SingleEvents(r)
        BY <1>4, <2>4 DEF Remains
      <3>2. \A i \in DOMAIN r : kind = "completed" => ~(r[i].kind = "completed" /\ r[i].of = t)
        BY <2>3, <2>4 DEF Queued
      <3> QED BY <1>1, <2>2, <3>1, <3>2 DEF SingleEvents
    <2> QED BY <1>1, <2>2, <2>3, <2>4
  <1>5. /\ queue' \in Seq(Events)
        /\ \A i \in DOMAIN queue' :
              \/ queue'[i].kind = kind /\ queue'[i].of = t
              \/ \E k \in DOMAIN queue : queue[k] = queue'[i]
        /\ SingleEvents(queue) /\ (kind = "completed" => ~Queued(queue, t)) => SingleEvents(queue')
    <2>1. CASE queue' = queue
      BY <1>2, <2>1
    <2>2. CASE queue' = all
      BY <1>2, <1>4, <2>2, SelfRemains
    <2>3. CASE oldest > 0 /\ queue' = Append(RemoveAt(queue, oldest), event)
      <3>1. oldest \in 1..Len(queue)
        BY <1>2, <2>3
      <3> HIDE DEF oldest
      <3>2. Remains(RemoveAt(queue, oldest), queue)
        BY <1>2, <3>1, RemoveRemains
      <3>3. RemoveAt(queue, oldest) \in Seq(Events)
        BY <3>2 DEF Remains
      <3> QED BY <1>4, <2>3, <3>2, <3>3
    <2> QED BY <1>3, <2>1, <2>2, <2>3
  <1>6. ASSUME NEW u, Queued(queue, u) \/ (kind = "completed" /\ u = t), sentTo[u] = loaded
        PROVE  Queued(queue', u) \/ u \in missed'
    <2>1. /\ all \in Seq(Events)
          /\ DOMAIN all = DOMAIN queue \cup {Len(queue) + 1}
          /\ \A i \in DOMAIN queue : all[i] = queue[i]
          /\ all[Len(queue) + 1] = event
      BY <1>1, <1>2, AppendFacts
    <2> HIDE DEF all
    <2>2. Queued(all, u)
      BY <1>1, <2>1, <1>6 DEF Queued
    <2>3. Queued(queue', u) \/ u \in Lost(all, queue')
      BY <2>1, <2>2, <1>6, LostFacts
    <2> QED BY <1>3, <2>3
  <1> QED BY <1>3, <1>5, <1>6

\* The same of a stream that ends.
LEMMA EndFacts ==
  ASSUME TypeInv, StreamEnds
  PROVE  /\ Remains(queue', queue)
         /\ \A u : Queued(queue, u) /\ sentTo[u] = loaded => Queued(queue', u) \/ u \in missed'
         /\ missed \subseteq missed'
  <1>1. queue \in Seq(Events)
    BY DEF TypeInv
  <1>2. Remains(queue', queue) /\ missed' = missed \cup Lost(queue, queue')
    BY <1>1, PrefixRemains DEF StreamEnds
  <1>3. \A u : Queued(queue, u) /\ sentTo[u] = loaded => Queued(queue', u) \/ u \in Lost(queue, queue')
    BY <1>1, LostFacts
  <1> QED BY <1>2, <1>3

\* Entry x takes the place n: a new one, or that of an answer that is still growing.
Puts(new, old, n, x) ==
  /\ new \in Seq(Entries) /\ x \in Entries
  /\ DOMAIN new = DOMAIN old \cup {n}
  /\ \A i \in DOMAIN old : i # n => new[i] = old[i]
  /\ new[n] = x
  /\ n \in DOMAIN old => old[n].pending /\ old[n].role = "assistant"

\* Append and a replacement of the last entry both put an entry.
LEMMA AppendPuts ==
  ASSUME NEW q \in Seq(Entries), NEW x \in Entries
  PROVE  Puts(Append(q, x), q, Len(q) + 1, x) /\ Len(q) + 1 \notin DOMAIN q
  <1>1. /\ Append(q, x) \in Seq(Entries)
        /\ DOMAIN Append(q, x) = DOMAIN q \cup {Len(q) + 1}
        /\ Len(q) + 1 \notin DOMAIN q
        /\ \A i \in DOMAIN q : Append(q, x)[i] = q[i]
        /\ Append(q, x)[Len(q) + 1] = x
    BY AppendFacts
  <1> QED BY <1>1 DEF Puts

LEMMA ReplacePuts ==
  ASSUME NEW q \in Seq(Entries), NEW x \in Entries, q # <<>>,
         Last(q).role = "assistant", Last(q).pending
  PROVE  Puts([q EXCEPT ![Len(q)] = x], q, Len(q), x) /\ Len(q) \in DOMAIN q
  <1> DEFINE n == Len(q)
             r == [q EXCEPT ![n] = x]
  <1>1. n \in Nat /\ n \in DOMAIN q /\ DOMAIN q = 1..n
    OBVIOUS
  <1>2. r \in Seq(Entries)
    OBVIOUS
  <1>3. DOMAIN r = DOMAIN q /\ r[n] = x /\ \A i \in DOMAIN q : i # n => r[i] = q[i]
    BY <1>1
  <1> HIDE DEF r
  <1>4. q[n].pending /\ q[n].role = "assistant"
    BY DEF Last
  <1> QED BY <1>1, <1>2, <1>3, <1>4 DEF Puts, r

\* What event e puts, and what it makes of the text to ignore.
Gives(e, x, n) ==
  /\ e.of \in ToSet(x.of)
  /\ \A u \in ToSet(x.of) : u = e.of \/ (n \in DOMAIN transcript /\ u \in ToSet(transcript[n].of))
  /\ \/ /\ e.kind = "tool_completed" /\ x = Entry("tool", e.of, FALSE)
        /\ n \notin DOMAIN transcript /\ ignore' = Kind[e.of].tool
     \/ e.kind = "chunk" /\ x.pending /\ x.role = "assistant" /\ ignore' = ignore
     \/ e.kind = "completed" /\ x = Entry("assistant", e.of, FALSE) /\ ignore' = ignore
     \/ e.kind = "error" /\ x = Entry("error", e.of, FALSE) /\ ignore' = ignore

\* Who an entry is of, when it is new and when a chunk is added.
LEMMA OneOf ==
  ASSUME NEW t PROVE ToSet(<<t>>) = {t}
  <1>1. DOMAIN <<t>> = {1} /\ <<t>>[1] = t
    OBVIOUS
  <1> QED BY <1>1 DEF ToSet

LEMMA GrownOf ==
  ASSUME NEW q \in Seq(Turns), NEW t \in Turns
  PROVE  /\ Append(q, t) \in Seq(Turns) /\ t \in ToSet(Append(q, t))
         /\ \A u \in ToSet(Append(q, t)) : u = t \/ u \in ToSet(q)
         /\ ToSet(q) \subseteq ToSet(Append(q, t))
  <1>1. /\ Append(q, t) \in Seq(Turns)
        /\ DOMAIN Append(q, t) = DOMAIN q \cup {Len(q) + 1}
        /\ \A i \in DOMAIN q : Append(q, t)[i] = q[i]
        /\ Append(q, t)[Len(q) + 1] = t
    BY AppendFacts
  <1> QED BY <1>1 DEF ToSet

\* Applying an event leaves an answer out that repeats a tool's output, or puts an entry.
LEMMA ApplyFacts ==
  ASSUME TypeInv, NEW e \in Events, ApplyHere(e)
  PROVE  \/ /\ e.kind = "completed" /\ ignore = Kind[e.of].text /\ ignore' = None
            /\ transcript' = transcript
         \/ \E n, x : Puts(transcript', transcript, n, x) /\ Gives(e, x, n)
  <1>1. transcript \in Seq(Entries) /\ e.of \in Turns
    BY DEF TypeInv, Events
  <1> DEFINE t == e.of
  <1>2. ASSUME NEW role \in Roles, NEW p \in BOOLEAN, Push(role, t, p)
        PROVE  LET n == Len(transcript) + 1
                   x == Entry(role, t, p)
               IN /\ Puts(transcript', transcript, n, x) /\ n \notin DOMAIN transcript
                  /\ ToSet(x.of) = {t} /\ x.role = role /\ x.pending = p
    BY <1>1, <1>2, EntryType, AppendPuts, OneOf DEF Push
  <1>3. ASSUME e.kind = "tool_completed", Push("tool", t, FALSE), ignore' = Kind[t].tool
        PROVE  \E n, x : Puts(transcript', transcript, n, x) /\ Gives(e, x, n)
    BY <1>2, <1>3 DEF Gives, Roles
  <1>4. ASSUME e.kind = "error", Push("error", t, FALSE), ignore' = ignore
        PROVE  \E n, x : Puts(transcript', transcript, n, x) /\ Gives(e, x, n)
    BY <1>2, <1>4 DEF Gives, Roles
  <1>5. ASSUME e.kind = "chunk", PushChunk(t), ignore' = ignore
        PROVE  \E n, x : Puts(transcript', transcript, n, x) /\ Gives(e, x, n)
    <2>1. CASE ~Growing
      BY <1>2, <1>5, <2>1 DEF Gives, Roles, PushChunk
    <2>2. CASE Growing
      <3> DEFINE n == Len(transcript)
                 old == transcript[n]
                 x == [old EXCEPT !.of = Append(@, t)]
      <3>1. n \in DOMAIN transcript /\ old \in Entries
        BY <1>1, <2>2 DEF Growing
      <3>2. old.of \in Seq(Turns)
        BY <3>1 DEF Entries
      <3>3. transcript' = [transcript EXCEPT ![n] = x]
        BY <1>5, <2>2 DEF PushChunk
      <3>4. x \in Entries /\ x.of = Append(old.of, t) /\ x.role = old.role /\ x.pending = old.pending
        <4> DEFINE grown == Append(old.of, t)
        <4>1. grown \in Seq(Turns)
          BY <1>1, <3>2, GrownOf
        <4>2. x = [old EXCEPT !.of = grown]
          OBVIOUS
        <4> HIDE DEF grown, x, old
        <4>3. x \in Entries /\ x.of = grown /\ x.role = old.role /\ x.pending = old.pending
          BY <3>1, <4>1, <4>2 DEF Entries
        <4> QED BY <4>3 DEF grown
      <3>5. old.role = "assistant" /\ old.pending
        BY <2>2 DEF Growing, Last
      <3> HIDE DEF x
      <3>6. Puts(transcript', transcript, n, x)
        BY <1>1, <2>2, <3>3, <3>4, ReplacePuts DEF Growing
      <3>7. Gives(e, x, n)
        BY <1>1, <1>5, <3>1, <3>2, <3>4, <3>5, GrownOf DEF Gives
      <3> QED BY <3>6, <3>7
    <2> QED BY <2>1, <2>2
  <1>6. ASSUME e.kind = "completed", ignore # Kind[t].text, Complete(t), ignore' = ignore
        PROVE  \E n, x : Puts(transcript', transcript, n, x) /\ Gives(e, x, n)
    <2>1. CASE ~Growing
      BY <1>2, <1>6, <2>1 DEF Gives, Roles, Complete
    <2>2. CASE Growing
      <3> DEFINE x == Entry("assistant", t, FALSE)
                 n == Len(transcript)
      <3>1. x \in Entries /\ ToSet(x.of) = {t}
        <4>1. "assistant" \in Roles /\ FALSE \in BOOLEAN
          BY DEF Roles
        <4>2. x \in Entries /\ x.of = <<t>>
          BY <1>1, <4>1, EntryType, Zenon
        <4> QED BY <4>2, OneOf
      <3>2. transcript' = [transcript EXCEPT ![n] = x]
        BY <1>6, <2>2 DEF Complete
      <3> HIDE DEF x
      <3>3. Puts(transcript', transcript, n, x)
        BY <1>1, <2>2, <3>1, <3>2, ReplacePuts DEF Growing
      <3>4. Gives(e, x, n)
        BY <1>6, <3>1 DEF Gives, x
      <3> QED BY <3>3, <3>4
    <2> QED BY <2>1, <2>2
  <1> QED BY <1>3, <1>4, <1>5, <1>6 DEF ApplyHere, ApplyCompleted

\* A history grows by one entry.
Records(role, t, s) ==
  /\ history' \in [Sessions -> Seq(Entries)]
  /\ \A r \in Sessions : r # s => history'[r] = history[r]
  /\ \E n : n \notin DOMAIN history[s] /\ Puts(history'[s], history[s], n, Entry(role, t, FALSE))

\* append_message.
LEMMA RecordsFacts ==
  ASSUME TypeInv, NEW role \in Roles, NEW t \in Turns, NEW s \in Sessions,
         history' = [history EXCEPT ![s] = Append(@, Entry(role, t, FALSE))]
  PROVE  Records(role, t, s)
  <1> DEFINE x == Entry(role, t, FALSE)
             new == Append(history[s], x)
  <1>1. x \in Entries
    <2>1. FALSE \in BOOLEAN
      OBVIOUS
    <2> QED BY <2>1, EntryType, Zenon
  <1>2. history \in [Sessions -> Seq(Entries)] /\ history[s] \in Seq(Entries)
    BY DEF TypeInv
  <1>3. Puts(new, history[s], Len(history[s]) + 1, x) /\ Len(history[s]) + 1 \notin DOMAIN history[s]
    BY <1>1, <1>2, AppendPuts
  <1>4. new \in Seq(Entries)
    BY <1>3 DEF Puts
  <1>5. history' = [history EXCEPT ![s] = new]
    OBVIOUS
  <1> HIDE DEF new, x
  <1>6. history' \in [Sessions -> Seq(Entries)] /\ history'[s] = new
        /\ \A r \in Sessions : r # s => history'[r] = history[r]
    BY <1>2, <1>4, <1>5
  <1> QED BY <1>3, <1>6 DEF Records, x

\* Only the last step of a turn keeps an answer.
LEMMA KeepFacts ==
  ASSUME TypeInv, TurnInv, NEW t \in Turns, status[t] = "running", NextStep(t) \in DOMAIN Appended,
         Keep(Appended[NextStep(t)], t)
  PROVE  /\ Appended[NextStep(t)] \in Roles
         /\ Records(Appended[NextStep(t)], t, sentTo[t])
         /\ Appended[NextStep(t)] = "assistant" <=> NextStep(t) = "kept"
  <1>1. sentTo[t] \in Sessions
    BY StepFacts
  <1>2. Appended[NextStep(t)] \in Roles /\ (Appended[NextStep(t)] = "assistant" <=> NextStep(t) = "kept")
    BY DEF Appended, Roles
  <1> QED BY <1>1, <1>2, RecordsFacts DEF Keep

\* A message is stored, or refused by a session that is gone.
LEMMA SubmitFacts ==
  ASSUME TypeInv, NEW t \in Turns, NEW s \in Sessions, Submit(t, s)
  PROVE  /\ status[t] = "none"
         /\ sentTo' = [sentTo EXCEPT ![t] = s] /\ sentTo' \in [Turns -> Sessions \cup {None}]
         /\ \/ /\ s \in known /\ status' = [status EXCEPT ![t] = "running"]
               /\ Records("user", t, s)
            \/ /\ s \notin known /\ status' = [status EXCEPT ![t] = "refused"]
               /\ UNCHANGED history
         /\ status' \in [Turns -> {"none", "running", "done", "failed", "dead", "refused"}]
  <1>1. sentTo \in [Turns -> Sessions \cup {None}]
        /\ status \in [Turns -> {"none", "running", "done", "failed", "dead", "refused"}]
    BY DEF TypeInv, TypeOK
  <1>2. "user" \in Roles
    BY DEF Roles
  <1>3. s \in known => Records("user", t, s)
    BY <1>2, RecordsFacts DEF Submit
  <1> QED BY <1>1, <1>3 DEF Submit

\* submit_input shows the message, and the error if there is one; nothing that was shown
\* changes.
LEMMA ShownFacts ==
  ASSUME TypeInv, NEW t \in Turns, SubmitInput(t)
  PROVE  /\ transcript' \in Seq(Entries) /\ DOMAIN transcript \subseteq DOMAIN transcript'
         /\ \A i \in DOMAIN transcript : transcript'[i] = transcript[i]
         /\ \A i \in DOMAIN transcript' \ DOMAIN transcript :
              transcript'[i].of = <<t>> /\ transcript'[i].role \in {"user", "error"}
  <1>0. \A p \in BOOLEAN : \A role \in Roles : Entry(role, t, p) \in Entries
                              /\ Entry(role, t, p).role = role /\ Entry(role, t, p).of = <<t>>
    BY EntryType
  <1> DEFINE a == Entry("user", t, FALSE)
             b == Entry("error", t, FALSE)
  <1>1. a \in Entries /\ a.role = "user" /\ a.of = <<t>> /\ b \in Entries /\ b.role = "error" /\ b.of = <<t>>
    <2>1. FALSE \in BOOLEAN /\ "user" \in Roles /\ "error" \in Roles
      BY DEF Roles
    <2> QED BY <1>0, <2>1, Zenon
  <1>2. transcript' = transcript \o <<a>> \/ transcript' = transcript \o <<a, b>>
    BY DEF SubmitInput
  <1>3. transcript \in Seq(Entries)
    BY DEF TypeInv
  <1> HIDE DEF a, b
  <1>4. ASSUME NEW z \in Seq(Entries), transcript' = transcript \o z,
               \A i \in 1..Len(z) : z[i].of = <<t>> /\ z[i].role \in {"user", "error"}
        PROVE  /\ transcript' \in Seq(Entries) /\ DOMAIN transcript \subseteq DOMAIN transcript'
               /\ \A i \in DOMAIN transcript : transcript'[i] = transcript[i]
               /\ \A i \in DOMAIN transcript' \ DOMAIN transcript :
                    transcript'[i].of = <<t>> /\ transcript'[i].role \in {"user", "error"}
    <2> DEFINE n == Len(transcript)
               r == transcript \o z
    <2>1. r \in Seq(Entries)
      BY <1>3, <1>4, ConcatProperties
    <2>2. Len(r) = n + Len(z)
      BY <1>3, <1>4, ConcatProperties
    <2>3. \A i \in 1..(n + Len(z)) : r[i] = IF i <= n THEN transcript[i] ELSE z[i - n]
      BY <1>3, <1>4, ConcatProperties
    <2>4. transcript' = r
      BY <1>4
    <2> HIDE DEF r
    <2>5. DOMAIN r = 1..(n + Len(z)) /\ DOMAIN transcript = 1..n /\ n \in Nat /\ Len(z) \in Nat
      BY <1>3, <1>4, <2>1, <2>2
    <2> HIDE DEF n
    <2>6. \A i \in DOMAIN transcript : r[i] = transcript[i] /\ i \in DOMAIN r
      BY <2>3, <2>5
    <2>7. ASSUME NEW i \in DOMAIN r \ DOMAIN transcript
          PROVE  r[i].of = <<t>> /\ r[i].role \in {"user", "error"}
      <3>1. i - n \in 1..Len(z) /\ r[i] = z[i - n]
        BY <2>3, <2>5, <2>7
      <3> QED BY <1>4, <3>1
    <2> QED BY <2>1, <2>4, <2>6, <2>7
  <1>5. CASE transcript' = transcript \o <<a>>
    <2>1. <<a>> \in Seq(Entries) /\ Len(<<a>>) = 1 /\ <<a>>[1] = a
      BY <1>1
    <2> DEFINE z == <<a>>
    <2> HIDE DEF z
    <2>2. \A i \in 1..Len(z) : z[i] = a
      BY <2>1 DEF z
    <2> QED BY <1>1, <1>4, <1>5, <2>1, <2>2 DEF z
  <1>6. CASE transcript' = transcript \o <<a, b>>
    <2>1. <<a, b>> \in Seq(Entries) /\ Len(<<a, b>>) = 2 /\ <<a, b>>[1] = a /\ <<a, b>>[2] = b
      BY <1>1
    <2> DEFINE z == <<a, b>>
    <2>2. z \in Seq(Entries) /\ Len(z) = 2 /\ z[1] = a /\ z[2] = b /\ transcript' = transcript \o z
      BY <2>1, <1>6
    <2> HIDE DEF z
    <2>3. \A i \in 1..Len(z) : z[i] = a \/ z[i] = b
      <3>1. \A i \in 1..2 : i = 1 \/ i = 2
        OBVIOUS
      <3> QED BY <2>2, <3>1
    <2> QED BY <1>1, <1>4, <2>2, <2>3
  <1> QED BY <1>2, <1>5, <1>6

\* What the run loop may wait for.
Calls == [session : Sessions \cup {None}, draft : Turns \cup {None}, fatal : BOOLEAN,
          fetched : Seq(Entries)]

\* Calls, when they start and when they end.
LEMMA IdleType == Idle \in Calls
  <1> DEFINE no == FALSE
             nothing == <<>>
  <1>1. no \in BOOLEAN /\ nothing \in Seq(Entries)
    OBVIOUS
  <1>2. Idle = [session |-> None, draft |-> None, fatal |-> no, fetched |-> nothing]
    BY DEF Idle
  <1> HIDE DEF no, nothing
  <1> QED BY <1>1, <1>2 DEF Calls

LEMMA LoadType ==
  ASSUME NEW s \in Sessions, NEW draft \in Turns \cup {None}, NEW fatal \in BOOLEAN,
         Load(s, draft, fatal)
  PROVE  call' \in Calls /\ tui' = "fetch" /\ call'.session = s
  <1> DEFINE c1 == [Idle EXCEPT !.session = s]
             c2 == [c1 EXCEPT !.draft = draft]
             c3 == [c2 EXCEPT !.fatal = fatal]
  <1>1. call' = c3 /\ tui' = "fetch"
    BY DEF Load
  <1>2. c1 \in Calls /\ c1.session = s
    BY IdleType DEF Calls
  <1> HIDE DEF c1
  <1>3. c2 \in Calls /\ c2.session = s
    BY <1>2 DEF Calls
  <1> HIDE DEF c2
  <1>4. c3 \in Calls /\ c3.session = s
    BY <1>3 DEF Calls
  <1> QED BY <1>1, <1>4

\* The types hold at first and after every step.
LEMMA InitType == Init => TypeInv
  <1> SUFFICES ASSUME Init PROVE TypeInv
    OBVIOUS
  <1>1. [session |-> None, open |-> FALSE] \in [session : Sessions \cup {None}, open : BOOLEAN]
    OBVIOUS
  <1>2. TypeOK
    BY <1>1 DEF Init, TypeOK
  <1>3. history \in [Sessions -> Seq(Entries)] /\ transcript \in Seq(Entries) /\ queue \in Seq(Events)
    BY DEF Init
  <1>4. call \in Calls
    BY IdleType DEF Init
  <1> QED BY <1>2, <1>3, <1>4 DEF TypeInv, Calls

LEMMA TypeStep ==
  ASSUME TypeInv, TurnInv, SelectInv, [Next]_vars
  PROVE  TypeInv'
  <1> USE TuiAssumption DEF TuiAssumption, runtime, app, network, ghosts, bounds
  <1>0. /\ known \subseteq Sessions
        /\ sentTo \in [Turns -> Sessions \cup {None}]
        /\ status \in [Turns -> {"none", "running", "done", "failed", "dead", "refused"}]
        /\ stage \in [Turns -> 0..6]
        /\ list \subseteq Sessions /\ selected \in list \cup {None}
        /\ ignore \in Contents \cup {None}
        /\ stream \in [session : Sessions \cup {None}, open : BOOLEAN]
        /\ tui \in {"boot", "idle", "fetch", "show", "send", "quit"}
        /\ loaded \in Sessions \cup {None}
        /\ history \in [Sessions -> Seq(Entries)] /\ transcript \in Seq(Entries)
        /\ queue \in Seq(Events) /\ call \in Calls
    BY DEF TypeInv, TypeOK, Calls
  <1>1. ASSUME NEW t \in Turns, TurnStep(t) PROVE TypeInv'
    <2>1. stage[t] + 1 \in 0..6 /\ NextStep(t) \in Steps
      BY <1>1, StepFacts DEF TurnStep
    <2>2. history' \in [Sessions -> Seq(Entries)] /\ queue' \in Seq(Events)
      <3>1. CASE NextStep(t) \in DOMAIN Appended
        BY <1>0, <1>1, <3>1, KeepFacts DEF TurnStep, Records
      <3>2. CASE NextStep(t) \notin DOMAIN Appended
        <4>1. NextStep(t) \in {"tool_completed", "chunk", "completed", "error"}
          BY <2>1, <3>2 DEF Steps, Appended
        <4> QED BY <1>0, <1>1, <3>2, <4>1, EmitFacts DEF TurnStep
      <3> QED BY <3>1, <3>2
    <2>3. stage' \in [Turns -> 0..6]
      BY <1>0, <1>1, <2>1 DEF TurnStep
    <2>4. status' \in [Turns -> {"none", "running", "done", "failed", "dead", "refused"}]
      BY <1>0, <1>1 DEF TurnStep
    <2> QED BY <1>0, <1>1, <2>2, <2>3, <2>4 DEF TurnStep, TypeInv, TypeOK, Calls
  <1>2. ASSUME NEW t \in Turns, TurnFails(t) PROVE TypeInv'
    <2>2. history' \in [Sessions -> Seq(Entries)]
      BY <1>0, <1>2, KeepFacts DEF TurnFails, Records
    <2>3. queue' \in Seq(Events)
      BY <1>0, <1>2, EmitFacts DEF TurnFails
    <2>4. status' \in [Turns -> {"none", "running", "done", "failed", "dead", "refused"}]
      BY <1>0, <1>2 DEF TurnFails
    <2> QED BY <1>0, <1>2, <2>2, <2>3, <2>4 DEF TurnFails, TypeInv, TypeOK, Calls
  <1>3. ASSUME NEW t \in Turns, OtherClientSubmits(t) PROVE TypeInv'
    <2>1. PICK s \in known : Submit(t, s)
      BY <1>3 DEF OtherClientSubmits
    <2>2. history' \in [Sessions -> Seq(Entries)] /\ sentTo' \in [Turns -> Sessions \cup {None}]
          /\ status' \in [Turns -> {"none", "running", "done", "failed", "dead", "refused"}]
      BY <1>0, <2>1, SubmitFacts DEF Records
    <2> QED BY <1>0, <1>3, <2>2 DEF OtherClientSubmits, TypeInv, TypeOK, Calls
  <1>4. ASSUME NEW t \in Turns, SubmitInput(t) PROVE TypeInv'
    <2>1. selected \in Sessions
      BY <1>0, <1>4 DEF SubmitInput, SelectInv
    <2>2. history' \in [Sessions -> Seq(Entries)] /\ sentTo' \in [Turns -> Sessions \cup {None}]
          /\ status' \in [Turns -> {"none", "running", "done", "failed", "dead", "refused"}]
      BY <1>0, <1>4, <2>1, SubmitFacts DEF SubmitInput, Records
    <2>3. transcript' \in Seq(Entries) /\ call' \in Calls /\ tui' = "idle"
      BY <1>4, ShownFacts, IdleType DEF SubmitInput
    <2> QED BY <1>0, <1>4, <2>2, <2>3 DEF SubmitInput, TypeInv, TypeOK, Calls
  <1>5. ASSUME NEW s \in Sessions, OtherClientCreates(s) PROVE TypeInv'
    BY <1>0, <1>5 DEF OtherClientCreates, TypeInv, TypeOK, Calls
  <1>6. ASSUME NEW s \in Sessions, MoveSelection(s) PROVE TypeInv'
    <2>1. call' \in Calls /\ tui' = "fetch"
      <3>1. TRUE \in BOOLEAN /\ None \in Turns \cup {None}
        OBVIOUS
      <3> QED BY <1>6, <3>1, LoadType, Zenon DEF MoveSelection
    <2> QED BY <1>0, <1>6, <2>1 DEF MoveSelection, TypeInv, TypeOK, Calls
  <1>7. ASSUME NEW s \in Sessions, NEW draft \in Turns \cup {None}, CreateSession(s, draft)
        PROVE  TypeInv'
    <2>1. call' \in Calls /\ tui' = "fetch"
      <3>1. TRUE \in BOOLEAN
        OBVIOUS
      <3> QED BY <1>7, <3>1, LoadType, Zenon DEF CreateSession
    <2> QED BY <1>0, <1>7, <2>1 DEF CreateSession, TypeInv, TypeOK, Calls
  <1>8. ASSUME GatewayRestarts PROVE TypeInv'
    <2>1. queue' \in Seq(Events)
      BY <1>8, EndFacts DEF GatewayRestarts, Remains
    <2>2. status' \in [Turns -> {"none", "running", "done", "failed", "dead", "refused"}]
      BY <1>0, <1>8 DEF GatewayRestarts
    <2>3. stream' \in [session : Sessions \cup {None}, open : BOOLEAN]
      BY <1>0, <1>8 DEF GatewayRestarts
    <2> QED BY <1>0, <1>8, <2>1, <2>2, <2>3 DEF GatewayRestarts, TypeInv, TypeOK, Calls
  <1>9. ASSUME StreamOpens PROVE TypeInv'
    <2>1. stream' \in [session : Sessions \cup {None}, open : BOOLEAN]
      BY <1>0, <1>9 DEF StreamOpens
    <2> QED BY <1>0, <1>9, <2>1 DEF StreamOpens, TypeInv, TypeOK, Calls
  <1>10. ASSUME StreamBreaks PROVE TypeInv'
    <2>1. queue' \in Seq(Events)
      BY <1>10, EndFacts DEF StreamBreaks, Remains
    <2>2. stream' \in [session : Sessions \cup {None}, open : BOOLEAN]
      BY <1>0, <1>10 DEF StreamBreaks
    <2> QED BY <1>0, <1>10, <2>1, <2>2 DEF StreamBreaks, TypeInv, TypeOK, Calls
  <1>11. ASSUME Fetch PROVE TypeInv'
    <2> DEFINE h == history[call.session]
    <2>1. h \in Seq(Entries)
      BY <1>0, <1>11 DEF Fetch
    <2>2. call' = [call EXCEPT !.fetched = h]
      BY <1>11 DEF Fetch
    <2> HIDE DEF h
    <2>3. call' \in Calls
      BY <1>0, <2>1, <2>2 DEF Calls
    <2> QED BY <1>0, <1>11, <2>3 DEF Fetch, TypeInv, TypeOK, Calls
  <1>12. ASSUME Exit, UNCHANGED <<runtime, loads>> PROVE TypeInv'
    <2>1. call' \in Calls /\ queue' \in Seq(Events) /\ transcript' \in Seq(Entries)
      BY <1>12, IdleType DEF Exit
    <2>2. stream' \in [session : Sessions \cup {None}, open : BOOLEAN]
      BY <1>12 DEF Exit
    <2>3. list' = {} /\ selected' = None /\ ignore' = None /\ tui' = "quit" /\ loaded' = None
      BY <1>12 DEF Exit
    <2> QED BY <1>0, <1>12, <2>1, <2>2, <2>3 DEF TypeInv, TypeOK, Calls
  <1>13. ASSUME FetchFails PROVE TypeInv'
    <2>1. CASE Exit
      BY <1>12, <1>13, <2>1 DEF FetchFails
    <2>2. CASE tui' = "idle" /\ call' = Idle /\ UNCHANGED <<app, network, ghosts>>
      <3>1. call' \in Calls
        BY <2>2, IdleType
      <3> QED BY <1>0, <1>13, <2>2, <3>1 DEF FetchFails, TypeInv, TypeOK, Calls
    <2> QED BY <1>13, <2>1, <2>2 DEF FetchFails
  <1>14. ASSUME Quit PROVE TypeInv'
    BY <1>12, <1>14 DEF Quit
  <1>15. ASSUME Show PROVE TypeInv'
    <2>1. call.session \in Sessions
      BY <1>0, <1>15 DEF Show, SelectInv
    <2>2. call.fetched \in Seq(Entries) /\ call.draft \in Turns \cup {None}
      BY <1>0 DEF Calls
    <2>3. queue' \in Seq(Events)
      BY <1>0, <1>15, PrefixRemains DEF Show, ShowLoaded, Remains
    <2>4. call' \in Calls
      <3> DEFINE d == call.draft
      <3>1. call' = [Idle EXCEPT !.draft = d]
        BY <1>15 DEF Show, ShowLoaded
      <3>2. d \in Turns \cup {None}
        BY <2>2
      <3> HIDE DEF d
      <3> QED BY <3>1, <3>2, IdleType DEF Calls
    <2>5. stream' \in [session : Sessions \cup {None}, open : BOOLEAN]
      <3> DEFINE no == FALSE
                 ss == call.session
      <3>1. stream' = [session |-> ss, open |-> no] /\ no \in BOOLEAN /\ ss \in Sessions
        BY <1>15, <2>1 DEF Show, ShowLoaded
      <3> HIDE DEF no, ss
      <3> QED BY <3>1
    <2>6. /\ transcript' = call.fetched /\ selected' = call.session
          /\ list' = list \cup {call.session} /\ loaded' = call.session
          /\ tui' \in {"idle", "send"} /\ ignore' = None
          /\ UNCHANGED <<known, sentTo, status, stage, history>>
      BY <1>15 DEF Show, ShowLoaded
    <2> HIDE DEF Show
    <2> QED BY <1>0, <2>1, <2>2, <2>3, <2>4, <2>5, <2>6 DEF TypeInv, TypeOK, Calls
  <1>16. ASSUME SyncSelection, list' = known
         PROVE  /\ list' \subseteq Sessions /\ selected' \in list' \cup {None}
                /\ transcript' \in Seq(Entries) /\ loaded' \in Sessions \cup {None}
    <2>1. <<>> \in Seq(Entries) /\ list' \subseteq Sessions
      BY <1>0, <1>16
    <2>2. CASE selected' = None /\ transcript' = <<>> /\ loaded' = None
      BY <2>1, <2>2
    <2>3. CASE selected \in list' /\ UNCHANGED <<selected, transcript, loaded>>
      BY <1>0, <2>1, <2>3
    <2>4. CASE selected' \in list' /\ UNCHANGED <<transcript, loaded>>
      BY <1>0, <2>1, <2>4
    <2> QED BY <1>16, <2>2, <2>3, <2>4 DEF SyncSelection
  <1>17. ASSUME Bootstrap PROVE TypeInv'
    <2>1. CASE /\ list' = known /\ SyncSelection /\ selected' = None /\ tui' = "idle"
               /\ UNCHANGED <<call, loads>>
      BY <1>0, <1>16, <1>17, <2>1 DEF Bootstrap, TypeInv, TypeOK, Calls
    <2>2. CASE list' = known /\ SyncSelection /\ selected' # None /\ Load(selected', None, FALSE)
      <3>1. call' \in Calls /\ tui' = "fetch"
        <4>1. selected' \in Sessions /\ None \in Turns \cup {None} /\ FALSE \in BOOLEAN
          BY <1>16, <2>2
        <4> QED BY <2>2, <4>1, LoadType, Zenon
      <3> QED BY <1>0, <1>16, <1>17, <2>2, <3>1 DEF Bootstrap, TypeInv, TypeOK, Calls
    <2>3. CASE tui' = "idle" /\ UNCHANGED <<list, selected, transcript, loaded, call, loads>>
      BY <1>0, <1>17, <2>3 DEF Bootstrap, TypeInv, TypeOK, Calls
    <2> QED BY <1>17, <2>1, <2>2, <2>3 DEF Bootstrap
  <1>18. ASSUME RefreshOverview PROVE TypeInv'
    BY <1>0, <1>16, <1>18 DEF RefreshOverview, TypeInv, TypeOK, Calls
  <1>19. ASSUME Reload PROVE TypeInv'
    <2>1. call' \in Calls /\ tui' = "fetch"
      <3>1. FALSE \in BOOLEAN /\ None \in Turns \cup {None} /\ selected \in Sessions
        BY <1>0, <1>19 DEF Reload
      <3> QED BY <1>19, <3>1, LoadType, Zenon DEF Reload
    <2> QED BY <1>0, <1>19, <2>1 DEF Reload, TypeInv, TypeOK, Calls
  <1>20. ASSUME HandleEvent PROVE TypeInv'
    <2>1. queue' \in Seq(Events) /\ Head(queue) \in Events
      BY <1>0, <1>20, TailRemains DEF HandleEvent, Remains
    <2>2. transcript' \in Seq(Entries) /\ ignore' \in Contents \cup {None}
      <3> DEFINE e == Head(queue)
      <3>1. CASE ApplyHere(e)
        <4>0. e \in Events /\ Kind[e.of].tool \in Contents \cup {None}
          BY <2>1 DEF Events
        <4> HIDE DEF e
        <4>1. CASE ignore' = None /\ transcript' = transcript
          BY <1>0, <4>1
        <4>2. CASE \E n, x : Puts(transcript', transcript, n, x) /\ Gives(e, x, n)
          BY <1>0, <4>0, <4>2 DEF Puts, Gives
        <4> QED BY <3>1, <4>0, <4>1, <4>2, ApplyFacts
      <3>2. CASE UNCHANGED <<transcript, ignore>>
        BY <1>0, <3>2
      <3> QED BY <1>20, <3>1, <3>2 DEF HandleEvent, Apply
    <2> QED BY <1>0, <1>20, <2>1, <2>2 DEF HandleEvent, TypeInv, TypeOK, Calls
  <1>21. CASE UNCHANGED vars
    BY <1>0, <1>21 DEF vars, TypeInv, TypeOK, Calls
  <1> QED
    BY <1>1, <1>2, <1>3, <1>4, <1>5, <1>6, <1>7, <1>8, <1>9, <1>10, <1>11, <1>13,
       <1>14, <1>15, <1>17, <1>18, <1>19, <1>20, <1>21
       DEF Next

-----------------------------------------------------------------------------
(* Turns and the selection *)

\* So does what relates a turn's session, status and stage.
LEMMA TurnInit == Init => TurnInv
  BY TuiAssumption DEF Init, TurnInv, TuiAssumption

LEMMA TurnStepInv ==
  ASSUME TypeInv, TurnInv, SelectInv, [Next]_vars
  PROVE  TurnInv'
  <1> USE TuiAssumption DEF TuiAssumption, runtime, app, network, ghosts, bounds
  <1>0. /\ sentTo \in [Turns -> Sessions \cup {None}]
        /\ status \in [Turns -> {"none", "running", "done", "failed", "dead", "refused"}]
        /\ stage \in [Turns -> 0..6]
        /\ known \subseteq Sessions /\ list \subseteq Sessions /\ selected \in list \cup {None}
    BY DEF TypeInv, TypeOK
  <1>1. ASSUME NEW t \in Turns, TurnStep(t) PROVE TurnInv'
    <2>1. stage[t] + 1 \in 1..6 /\ stage[t] + 1 <= Len(Script[t]) /\ Len(Script[t]) \in {3, 6}
      BY <1>1, StepFacts DEF TurnStep
    <2>2. stage' = [stage EXCEPT ![t] = @ + 1] /\ UNCHANGED sentTo /\ status[t] = "running"
          /\ status' = [status EXCEPT ![t] = IF stage[t] + 1 = Len(Script[t]) THEN "done" ELSE @]
      BY <1>1 DEF TurnStep
    <2>3. \A u \in Turns : u # t => stage'[u] = stage[u] /\ status'[u] = status[u]
      BY <1>0, <2>2
    <2>4. stage'[t] = stage[t] + 1
          /\ (stage[t] + 1 = Len(Script[t]) => status'[t] = "done")
          /\ (stage[t] + 1 # Len(Script[t]) => status'[t] = "running")
      BY <1>0, <2>2
    <2>5. stage[t] + 1 # Len(Script[t]) => stage[t] + 1 < Len(Script[t])
      BY <1>0, <2>1
    <2> QED BY <1>0, <2>2, <2>3, <2>4, <2>5 DEF TurnInv
  <1>2. ASSUME NEW t \in Turns, TurnFails(t) PROVE TurnInv'
    BY <1>0, <1>2 DEF TurnFails, TurnInv
  <1>3. ASSUME NEW t \in Turns, NEW s \in Sessions, Submit(t, s), UNCHANGED stage PROVE TurnInv'
    <2>1. /\ status[t] = "none" /\ sentTo' = [sentTo EXCEPT ![t] = s]
          /\ \/ status' = [status EXCEPT ![t] = "running"]
             \/ status' = [status EXCEPT ![t] = "refused"]
      BY <1>3, SubmitFacts
    <2>2. s # None /\ stage[t] = 0
      BY <2>1 DEF TurnInv
    <2>3. 0 < Len(Script[t])
      BY ScriptFacts
    <2>4. \A u \in Turns : u # t => sentTo'[u] = sentTo[u] /\ status'[u] = status[u]
      BY <1>0, <2>1
    <2>5. sentTo'[t] = s /\ status'[t] \in {"running", "refused"} /\ stage'[t] = 0
      BY <1>0, <1>3, <2>1, <2>2
    <2> QED BY <1>0, <1>3, <2>2, <2>3, <2>4, <2>5 DEF TurnInv
  <1>4. ASSUME NEW t \in Turns, OtherClientSubmits(t) PROVE TurnInv'
    BY <1>0, <1>3, <1>4 DEF OtherClientSubmits
  <1>5. ASSUME NEW t \in Turns, SubmitInput(t) PROVE TurnInv'
    <2>1. selected \in Sessions
      BY <1>0, <1>5 DEF SubmitInput, SelectInv
    <2> QED BY <1>3, <1>5, <2>1 DEF SubmitInput
  <1>6. ASSUME GatewayRestarts PROVE TurnInv'
    BY <1>0, <1>6 DEF GatewayRestarts, TurnInv
  <1>7. ASSUME UNCHANGED <<sentTo, status, stage>> PROVE TurnInv'
    BY <1>7 DEF TurnInv
  <1>8. CASE Next
    <2>1. \/ \E t \in Turns : TurnStep(t) \/ TurnFails(t) \/ OtherClientSubmits(t) \/ SubmitInput(t)
          \/ GatewayRestarts
          \/ UNCHANGED <<sentTo, status, stage>>
      BY <1>8
         DEF Next, OtherClientCreates, MoveSelection, CreateSession, StreamOpens, StreamBreaks,
             Fetch, FetchFails, Show, ShowLoaded, Bootstrap, RefreshOverview, Reload, Quit,
             HandleEvent
    <2> QED BY <1>1, <1>2, <1>4, <1>5, <1>6, <1>7, <2>1
  <1> QED BY <1>7, <1>8 DEF vars

\* And what relates the list, the selection and the loaded session.
LEMMA SelectInit == Init => SelectInv
  BY TuiAssumption DEF Init, SelectInv, TuiAssumption

LEMMA SelectStep ==
  ASSUME TypeInv, SelectInv, OwnInv, [Next]_vars
  PROVE  SelectInv'
  <1> USE TuiAssumption DEF TuiAssumption, runtime, app, network, ghosts, bounds
  <1>0. /\ known \subseteq Sessions /\ list \subseteq Sessions /\ selected \in list \cup {None}
        /\ loaded \in Sessions \cup {None} /\ Unstored \subseteq Sessions
        /\ stream \in [session : Sessions \cup {None}, open : BOOLEAN]
        /\ call \in Calls
    BY DEF TypeInv, TypeOK, Calls
  <1>1. ASSUME UNCHANGED <<known, list, selected, loaded, tui, call, stream, transcript>> PROVE SelectInv'
    BY <1>1 DEF SelectInv
  <1>2. ASSUME NEW t \in Turns, SubmitInput(t) PROVE SelectInv'
    BY <1>0, <1>2 DEF SubmitInput, SelectInv
  <1>3. ASSUME NEW s \in Sessions, OtherClientCreates(s) PROVE SelectInv'
    BY <1>0, <1>3 DEF OtherClientCreates, SelectInv
  <1>4. ASSUME NEW s \in Sessions, MoveSelection(s) PROVE SelectInv'
    <2>1. tui' = "fetch" /\ call'.session = s
      <3>1. TRUE \in BOOLEAN /\ None \in Turns \cup {None}
        OBVIOUS
      <3> QED BY <1>4, <3>1, LoadType, Zenon DEF MoveSelection
    <2> QED BY <1>0, <1>4, <2>1 DEF MoveSelection, SelectInv
  <1>5. ASSUME NEW s \in Sessions, NEW draft \in Turns \cup {None}, CreateSession(s, draft)
        PROVE  SelectInv'
    <2>1. tui' = "fetch" /\ call'.session = s
      <3>1. TRUE \in BOOLEAN
        OBVIOUS
      <3> QED BY <1>5, <3>1, LoadType, Zenon DEF CreateSession
    <2> QED BY <1>0, <1>5, <2>1 DEF CreateSession, SelectInv
  <1>6. ASSUME stream' = [stream EXCEPT !.open = FALSE] \/ stream' = [stream EXCEPT !.open = TRUE]
        PROVE  stream'.session = stream.session
    BY <1>0, <1>6
  <1>7. ASSUME GatewayRestarts PROVE SelectInv'
    BY <1>0, <1>6, <1>7 DEF GatewayRestarts, SelectInv
  <1>8. ASSUME StreamOpens PROVE SelectInv'
    BY <1>0, <1>6, <1>8 DEF StreamOpens, SelectInv
  <1>9. ASSUME StreamBreaks PROVE SelectInv'
    BY <1>0, <1>6, <1>9 DEF StreamBreaks, SelectInv
  <1>10. ASSUME Fetch PROVE SelectInv'
    <2>1. call'.session = call.session
      BY <1>0, <1>10 DEF Fetch, Calls
    <2> QED BY <1>0, <1>10, <2>1 DEF Fetch, SelectInv
  <1>11. ASSUME Exit PROVE SelectInv'
    BY <1>11 DEF Exit, SelectInv
  <1>12. ASSUME FetchFails PROVE SelectInv'
    <2>1. CASE Exit
      BY <1>11, <2>1
    <2>2. CASE tui' = "idle" /\ call' = Idle /\ UNCHANGED <<app, network, ghosts>>
      BY <1>0, <1>12, <2>2 DEF FetchFails, SelectInv
    <2> QED BY <1>12, <2>1, <2>2 DEF FetchFails
  <1>13. ASSUME Show PROVE SelectInv'
    <2>1. /\ transcript' = call.fetched /\ selected' = call.session
          /\ list' = list \cup {call.session} /\ loaded' = call.session
          /\ tui' \in {"idle", "send"} /\ UNCHANGED known
          /\ stream'.session = call.session
      BY <1>13 DEF Show, ShowLoaded
    <2>2. call.session \in known \cup Unstored
      BY <1>13 DEF Show, SelectInv
    <2> QED BY <1>0, <2>1, <2>2 DEF SelectInv
  <1>14. ASSUME SyncSelection, list' = known, UNCHANGED <<known, stream>>
         PROVE  /\ list' \cup ({loaded'} \ {None}) \subseteq known' \cup Unstored
                /\ loaded' \in {None, stream'.session}
                /\ selected' = None => loaded' = None /\ transcript' = <<>>
                /\ loaded' \notin {None, selected'} => loaded' \notin list' \cup known'
                /\ selected' \in list' \cup {None}
    BY <1>0, <1>14 DEF SyncSelection, SelectInv
  <1>15. ASSUME Bootstrap PROVE SelectInv'
    <2>1. CASE /\ list' = known /\ SyncSelection /\ selected' = None /\ tui' = "idle"
               /\ UNCHANGED <<call, loads>>
      BY <1>0, <1>14, <1>15, <2>1 DEF Bootstrap, SelectInv
    <2>2. CASE list' = known /\ SyncSelection /\ selected' # None /\ Load(selected', None, FALSE)
      <3>1. selected' \in known
        BY <1>14, <1>15, <2>2 DEF Bootstrap
      <3>2. call'.session = selected' /\ tui' = "fetch"
        <4>1. selected' \in Sessions /\ None \in Turns \cup {None} /\ FALSE \in BOOLEAN
          BY <1>0, <3>1
        <4> QED BY <2>2, <4>1, LoadType, Zenon
      <3> QED BY <1>0, <1>14, <1>15, <2>2, <3>1, <3>2 DEF Bootstrap, SelectInv
    <2>3. CASE tui' = "idle" /\ UNCHANGED <<list, selected, transcript, loaded, call, loads>>
      BY <1>0, <1>15, <2>3 DEF Bootstrap, SelectInv
    <2> QED BY <1>15, <2>1, <2>2, <2>3 DEF Bootstrap
  <1>16. ASSUME RefreshOverview PROVE SelectInv'
    BY <1>0, <1>14, <1>16 DEF RefreshOverview, SelectInv
  <1>17. ASSUME Reload PROVE SelectInv'
    <2>1. call'.session = selected /\ tui' = "fetch"
      <3>1. FALSE \in BOOLEAN /\ None \in Turns \cup {None} /\ selected \in Sessions
        BY <1>0, <1>17 DEF Reload
      <3> QED BY <1>17, <3>1, LoadType, Zenon DEF Reload
    <2> QED BY <1>0, <1>17, <2>1 DEF Reload, SelectInv
  <1>18. ASSUME HandleEvent PROVE SelectInv'
    <2>1. 1 \in DOMAIN queue /\ Head(queue) = queue[1]
      BY <1>18, TailRemains DEF HandleEvent, TypeInv
    <2>2. sentTo[Head(queue).of] # None
      BY <2>1 DEF OwnInv
    <2>3. UNCHANGED <<known, list, selected, stream, tui, call, loaded>>
          /\ (selected = None => UNCHANGED transcript)
      BY <1>18, <2>2 DEF HandleEvent, Apply
    <2> QED BY <1>0, <2>3 DEF SelectInv
  <1>19. CASE Next
    <2>1. \/ UNCHANGED <<known, list, selected, loaded, tui, call, stream, transcript>>
          \/ \E t \in Turns : SubmitInput(t)
          \/ \E s \in Sessions :
               \/ OtherClientCreates(s) \/ MoveSelection(s)
               \/ \E draft \in Turns \cup {None} : CreateSession(s, draft)
          \/ GatewayRestarts \/ StreamOpens \/ StreamBreaks
          \/ Fetch \/ FetchFails \/ Show
          \/ Bootstrap \/ RefreshOverview \/ Reload \/ Exit
          \/ HandleEvent
      BY <1>19 DEF Next, TurnStep, TurnFails, OtherClientSubmits, Quit
    <2> QED
      BY <1>1, <1>2, <1>3, <1>4, <1>5, <1>7, <1>8, <1>9, <1>10, <1>11, <1>12, <1>13,
         <1>15, <1>16, <1>17, <1>18, <2>1
  <1> QED BY <1>1, <1>19 DEF vars

-----------------------------------------------------------------------------
(* Entries belong to sessions *)

\* At first nothing is shown, kept or queued.
LEMMA OwnInit == Init => OwnInv
  <1> SUFFICES ASSUME Init PROVE OwnInv
    OBVIOUS
  <1>1. DOMAIN <<>> = {}
    OBVIOUS
  <1>2. /\ \A s \in Sessions : history[s] = <<>>
        /\ queue = <<>> /\ transcript = <<>> /\ tui = "boot"
    BY DEF Init
  <1> QED BY <1>1, <1>2 DEF OwnInv, Own, TranscriptOwn

\* A sequence of one session's entries stays so when one of that session is put in it.
LEMMA OwnPuts ==
  ASSUME NEW old, NEW new, NEW n, NEW x, NEW s, Own(old, s), Puts(new, old, n, x),
         \A u \in ToSet(x.of) : sentTo[u] = s \/ (n \in DOMAIN old /\ u \in ToSet(old[n].of))
  PROVE  Own(new, s)
  BY DEF Own, Puts

\* So do the histories.
LEMMA OwnRecords ==
  ASSUME NEW role \in Roles, NEW t \in Turns, NEW s \in Sessions, sentTo[t] = s,
         \A r \in Sessions : Own(history[r], r), Records(role, t, s)
  PROVE  \A r \in Sessions : Own(history'[r], r)
  <1>1. PICK n : Puts(history'[s], history[s], n, Entry(role, t, FALSE))
    BY DEF Records
  <1>2. ToSet(Entry(role, t, FALSE).of) = {t}
    BY OneOf DEF Entry
  <1>3. Own(history'[s], s)
    <2> DEFINE old == history[s]
               new == history'[s]
               x == Entry(role, t, FALSE)
    <2>1. Own(old, s) /\ Puts(new, old, n, x) /\ \A u \in ToSet(x.of) : sentTo[u] = s
      BY <1>1, <1>2
    <2> HIDE DEF old, new, x
    <2>2. Own(new, s)
      BY <2>1, OwnPuts
    <2> QED BY <2>2 DEF new
  <1> QED BY <1>3 DEF Records

\* Two sessions meet in the transcript only if an event of one is applied to the other's,
\* or a selection moves without a load; neither leaves both in a loaded session.
LEMMA OwnStep ==
  ASSUME TypeInv, TurnInv, SelectInv, OwnInv, [Next]_vars
  PROVE  OwnInv'
  <1> USE TuiAssumption DEF TuiAssumption, runtime, app, network, ghosts, bounds
  <1>0. /\ known \subseteq Sessions /\ list \subseteq Sessions /\ selected \in list \cup {None}
        /\ loaded \in Sessions \cup {None} /\ Unstored \subseteq Sessions
        /\ sentTo \in [Turns -> Sessions \cup {None}]
        /\ queue \in Seq(Events) /\ transcript \in Seq(Entries)
        /\ call \in Calls
    BY DEF TypeInv, TypeOK, Calls
  <1>01. /\ \A s \in Sessions : Own(history[s], s)
         /\ tui = "show" => Own(call.fetched, call.session)
         /\ \A i \in DOMAIN queue : sentTo[queue[i].of] # None
         /\ selected = loaded => Own(transcript, selected)
    BY DEF OwnInv, TranscriptOwn, Own
  \* how a step may leave each part
  <1> DEFINE HistoryOwn == \A s \in Sessions : Own(history[s], s)
             FetchedOwn == tui = "show" => Own(call.fetched, call.session)
             QueueOwn   == \A i \in DOMAIN queue : sentTo[queue[i].of] # None
             ShownOwn   == selected = loaded => Own(transcript, selected)
  <1>02. HistoryOwn' /\ FetchedOwn' /\ QueueOwn' /\ ShownOwn' => OwnInv'
    BY DEF OwnInv, TranscriptOwn, Own
  <1> HIDE DEF HistoryOwn, FetchedOwn, QueueOwn, ShownOwn
  <1>03. UNCHANGED <<sentTo, history>> => HistoryOwn'
    BY <1>01 DEF HistoryOwn, Own
  <1>04. UNCHANGED sentTo /\ (UNCHANGED <<tui, call>> \/ tui' # "show") => FetchedOwn'
    BY <1>01 DEF FetchedOwn, Own
  <1>05. UNCHANGED <<sentTo, queue>> => QueueOwn'
    BY <1>01 DEF QueueOwn
  <1>06. UNCHANGED <<sentTo, selected, loaded, transcript>> => ShownOwn'
    BY <1>01 DEF ShownOwn, Own
  <1>07. UNCHANGED sentTo /\ Remains(queue', queue) => QueueOwn'
    BY <1>01 DEF QueueOwn, Remains
  <1>08. ASSUME NEW t \in Turns, NEW kind \in {"tool_completed", "chunk", "completed", "error"},
                Emit(kind, t), sentTo[t] # None, UNCHANGED sentTo
         PROVE  QueueOwn'
    <2>1. \A i \in DOMAIN queue' :
              \/ queue'[i].kind = kind /\ queue'[i].of = t
              \/ \E k \in DOMAIN queue : queue[k] = queue'[i]
      BY <1>08, EmitFacts
    <2> QED BY <1>01, <1>08, <2>1 DEF QueueOwn
  <1>09. ASSUME NEW t \in Turns, NextStep(t) \in DOMAIN Appended, status[t] = "running",
                Keep(Appended[NextStep(t)], t), UNCHANGED sentTo
         PROVE  HistoryOwn'
    <2>1. \A r \in Sessions : Own(history'[r], r)
      BY <1>01, <1>09, KeepFacts, StepFacts, OwnRecords
    <2> QED BY <1>09, <2>1 DEF HistoryOwn, Own
  <1>1. ASSUME NEW t \in Turns, TurnStep(t) PROVE OwnInv'
    <2>1. NextStep(t) \in Steps /\ sentTo[t] \in Sessions
      BY <1>1, StepFacts DEF TurnStep
    <2>2. CASE NextStep(t) \in DOMAIN Appended
      BY <1>1, <1>02, <1>04, <1>05, <1>06, <1>09, <2>2 DEF TurnStep
    <2>3. CASE NextStep(t) \notin DOMAIN Appended
      <3>1. NextStep(t) \in {"tool_completed", "chunk", "completed", "error"}
        BY <2>1, <2>3 DEF Steps, Appended
      <3> QED BY <1>1, <1>02, <1>03, <1>04, <1>06, <1>08, <2>1, <2>3, <3>1 DEF TurnStep
    <2> QED BY <2>2, <2>3
  <1>2. ASSUME NEW t \in Turns, TurnFails(t) PROVE OwnInv'
    <2>1. sentTo[t] \in Sessions
      BY <1>2, StepFacts DEF TurnFails
    <2>2. HistoryOwn'
      BY <1>2, <1>03, <1>09 DEF TurnFails
    <2>3. QueueOwn'
      BY <1>2, <1>08, <2>1 DEF TurnFails
    <2> QED BY <1>2, <1>02, <1>04, <1>06, <2>2, <2>3 DEF TurnFails
  <1>3. ASSUME NEW t \in Turns, NEW s \in Sessions, Submit(t, s), UNCHANGED queue,
               tui' # "show" \/ UNCHANGED <<tui, call>>
        PROVE  /\ HistoryOwn' /\ FetchedOwn' /\ QueueOwn'
               /\ \A u \in Turns : sentTo[u] # None => sentTo'[u] = sentTo[u]
               /\ sentTo'[t] = s
               /\ \A entries, r : r # None /\ Own(entries, r) =>
                    \A i \in DOMAIN entries : \A u \in ToSet(entries[i].of) : sentTo'[u] = r
    <2>1. /\ status[t] = "none" /\ sentTo' = [sentTo EXCEPT ![t] = s]
          /\ Records("user", t, s) \/ UNCHANGED history
      BY <1>3, SubmitFacts
    <2>2. sentTo[t] = None
      BY <2>1 DEF TurnInv
    <2>3. \A u : sentTo'[u] = IF u = t THEN s ELSE sentTo[u]
      BY <1>0, <2>1
    <2>4. \A u, r : r # None /\ sentTo[u] = r => sentTo'[u] = r
      BY <2>2, <2>3
    <2>5. \A entries, r : r # None /\ Own(entries, r) =>
            \A i \in DOMAIN entries : \A u \in ToSet(entries[i].of) : sentTo'[u] = r
      BY <2>4 DEF Own
    <2>6. HistoryOwn'
      <3>1. ASSUME NEW r \in Sessions, NEW i \in DOMAIN history'[r], NEW u \in ToSet(history'[r][i].of)
            PROVE  sentTo'[u] = r
        <4>1. CASE history'[r] = history[r]
          <5>1. r # None /\ Own(history[r], r)
            BY <1>01
          <5> QED BY <2>5, <3>1, <4>1, <5>1
        <4>2. CASE Records("user", t, s) /\ r = s
          <5>1. PICK n : Puts(history'[s], history[s], n, Entry("user", t, FALSE)) /\ n \notin DOMAIN history[s]
            BY <4>2 DEF Records
          <5>2. ToSet(Entry("user", t, FALSE).of) = {t}
            BY OneOf DEF Entry
          <5>3. CASE i = n
            BY <2>3, <3>1, <4>2, <5>1, <5>2, <5>3 DEF Puts
          <5>4. CASE i # n
            <6>1. i \in DOMAIN history[r] /\ history'[r][i] = history[r][i]
              BY <3>1, <4>2, <5>1, <5>4 DEF Puts
            <6>2. r # None /\ Own(history[r], r)
              BY <1>01
            <6> QED BY <2>5, <3>1, <6>1, <6>2
          <5> QED BY <5>3, <5>4
        <4> QED BY <2>1, <4>1, <4>2 DEF Records
      <3> QED BY <3>1 DEF HistoryOwn, Own
    <2>7. FetchedOwn'
      <3>1. CASE tui' # "show"
        BY <3>1 DEF FetchedOwn
      <3>2. CASE tui' = "show"
        <4>1. Own(call.fetched, call.session) /\ UNCHANGED <<call, tui>>
          BY <1>3, <1>01, <3>2
        <4>2. call.session # None
          BY <1>0, <3>2, <4>1 DEF SelectInv
        <4>3. \A i \in DOMAIN call.fetched : \A u \in ToSet(call.fetched[i].of) :
                sentTo'[u] = call.session
          BY <2>5, <4>1, <4>2
        <4> QED BY <4>1, <4>3 DEF FetchedOwn, Own
      <3> QED BY <3>1, <3>2
    <2>8. QueueOwn'
      <3>1. \A u : sentTo[u] # None => sentTo'[u] # None
        BY <2>4
      <3> QED BY <1>01, <1>3, <3>1 DEF QueueOwn
    <2> QED BY <2>3, <2>4, <2>5, <2>6, <2>7, <2>8
  <1>4. ASSUME NEW t \in Turns, OtherClientSubmits(t) PROVE OwnInv'
    <2>1. PICK s \in known : Submit(t, s)
      BY <1>4 DEF OtherClientSubmits
    <2>2. s \in Sessions /\ UNCHANGED <<queue, tui, call, transcript, selected, loaded>>
      BY <1>0, <1>4 DEF OtherClientSubmits
    <2>3. ShownOwn'
      <3>1. CASE selected = None
        <4>1. transcript' = <<>> /\ DOMAIN <<>> = {}
          BY <2>2, <3>1 DEF SelectInv
        <4> QED BY <4>1 DEF ShownOwn, Own
      <3>2. CASE selected # None
        <4>1. \A entries, r : r # None /\ Own(entries, r) =>
                \A i \in DOMAIN entries : \A u \in ToSet(entries[i].of) : sentTo'[u] = r
          BY <1>3, <2>1, <2>2
        <4>2. SUFFICES ASSUME selected = loaded
                       PROVE  \A i \in DOMAIN transcript : \A u \in ToSet(transcript[i].of) :
                                 sentTo'[u] = selected
          BY <2>2 DEF ShownOwn, Own
        <4>3. Own(transcript, selected)
          BY <1>01, <4>2
        <4> QED BY <3>2, <4>1, <4>3
      <3> QED BY <3>1, <3>2
    <2> QED BY <1>02, <1>3, <2>1, <2>2, <2>3
  <1>5. ASSUME NEW t \in Turns, SubmitInput(t) PROVE OwnInv'
    <2>1. /\ selected \in Sessions /\ Submit(t, selected) /\ UNCHANGED <<queue, selected, loaded>>
          /\ tui' = "idle"
      BY <1>0, <1>5 DEF SubmitInput, SelectInv
    <2>2. ShownOwn'
      <3>1. SUFFICES ASSUME selected = loaded, NEW i \in DOMAIN transcript',
                            NEW u \in ToSet(transcript'[i].of)
                     PROVE  sentTo'[u] = selected
        BY <2>1 DEF ShownOwn, Own
      <3>2. CASE i \in DOMAIN transcript
        <4>1. transcript'[i] = transcript[i] /\ Own(transcript, selected) /\ selected # None
          BY <1>0, <1>01, <1>5, <2>1, <3>1, <3>2, ShownFacts
        <4> QED BY <1>3, <2>1, <3>1, <3>2, <4>1
      <3>3. CASE i \notin DOMAIN transcript
        <4>1. transcript'[i].of = <<t>>
          BY <1>5, <3>1, <3>3, ShownFacts
        <4>2. u = t
          BY <3>1, <4>1, OneOf
        <4> QED BY <1>3, <2>1, <4>2
      <3> QED BY <3>2, <3>3
    <2> QED BY <1>02, <1>3, <2>1, <2>2
  <1>6. ASSUME UNCHANGED <<sentTo, history, queue, transcript, selected, loaded>>,
               tui' # "show" \/ UNCHANGED <<tui, call>>
        PROVE  OwnInv'
    BY <1>6, <1>02, <1>03, <1>04, <1>05, <1>06
  <1>7. ASSUME NEW s \in Sessions, MoveSelection(s) PROVE OwnInv'
    BY <1>6, <1>7 DEF MoveSelection, Load
  <1>8. ASSUME NEW s \in Sessions, NEW draft \in Turns \cup {None}, CreateSession(s, draft)
        PROVE  OwnInv'
    BY <1>6, <1>8 DEF CreateSession, Load
  <1>9. ASSUME GatewayRestarts PROVE OwnInv'
    <2>1. Remains(queue', queue)
      BY <1>9, EndFacts DEF GatewayRestarts
    <2> QED BY <1>9, <2>1, <1>02, <1>03, <1>04, <1>06, <1>07 DEF GatewayRestarts
  <1>10. ASSUME StreamBreaks PROVE OwnInv'
    <2>1. Remains(queue', queue)
      BY <1>10, EndFacts DEF StreamBreaks
    <2> QED BY <1>10, <2>1, <1>02, <1>03, <1>04, <1>06, <1>07 DEF StreamBreaks
  <1>11. ASSUME Fetch PROVE OwnInv'
    <2>1. call'.session = call.session /\ call'.fetched = history[call.session] /\ call.session \in Sessions
      BY <1>0, <1>11 DEF Fetch, Calls
    <2>2. FetchedOwn'
      BY <1>01, <1>11, <2>1 DEF Fetch, FetchedOwn, Own
    <2> QED BY <1>11, <2>2, <1>02, <1>03, <1>05, <1>06 DEF Fetch
  <1>12. ASSUME Exit, UNCHANGED <<sentTo, history>> PROVE OwnInv'
    <2>1. /\ queue' = <<>> /\ transcript' = <<>> /\ DOMAIN <<>> = {} /\ tui' = "quit"
      BY <1>12 DEF Exit
    <2> QED BY <1>12, <2>1, <1>02, <1>03, <1>04 DEF QueueOwn, ShownOwn, Own
  <1>13. ASSUME FetchFails PROVE OwnInv'
    <2>1. CASE Exit
      BY <1>12, <1>13, <2>1 DEF FetchFails
    <2>2. CASE tui' = "idle" /\ call' = Idle /\ UNCHANGED <<app, network, ghosts>>
      BY <1>6, <1>13, <2>2 DEF FetchFails
    <2> QED BY <1>13, <2>1, <2>2 DEF FetchFails
  <1>14. ASSUME Show PROVE OwnInv'
    <2>1. /\ transcript' = call.fetched /\ selected' = call.session
          /\ tui' \in {"idle", "send"} /\ UNCHANGED <<sentTo, history>> /\ tui = "show"
          /\ \E n \in 0..Len(queue) : queue' = SubSeq(queue, 1, n)
      BY <1>14 DEF Show, ShowLoaded
    <2>2. Remains(queue', queue)
      BY <1>0, <2>1, PrefixRemains
    <2>3. ShownOwn'
      BY <1>01, <2>1 DEF ShownOwn, Own
    <2> QED BY <2>1, <2>2, <2>3, <1>02, <1>03, <1>04, <1>07
  <1>15. ASSUME SyncSelection, list' = known, UNCHANGED sentTo PROVE ShownOwn'
    <2>1. CASE transcript' = <<>>
      <3>1. DOMAIN <<>> = {}
        OBVIOUS
      <3> QED BY <2>1, <3>1 DEF ShownOwn, Own
    <2>2. CASE UNCHANGED <<selected, transcript, loaded>>
      BY <1>06, <1>15, <2>2
    <2>3. CASE selected \notin list' /\ selected' \in list' /\ UNCHANGED <<transcript, loaded>>
      <3>1. selected' # loaded'
        BY <1>0, <1>15, <2>3 DEF SelectInv
      <3> QED BY <3>1 DEF ShownOwn
    <2> QED BY <1>15, <2>1, <2>2, <2>3 DEF SyncSelection
  <1>16. ASSUME Bootstrap PROVE OwnInv'
    <2>1. UNCHANGED <<sentTo, history, queue>> /\ tui' # "show"
      BY <1>16 DEF Bootstrap, Load
    <2>2. ShownOwn'
      BY <1>06, <1>15, <1>16 DEF Bootstrap
    <2> QED BY <2>1, <2>2, <1>02, <1>03, <1>04, <1>05
  <1>17. ASSUME RefreshOverview PROVE OwnInv'
    <2>1. UNCHANGED <<sentTo, history, queue>> /\ tui' # "show"
      BY <1>17 DEF RefreshOverview
    <2>2. ShownOwn'
      BY <1>15, <1>17 DEF RefreshOverview
    <2> QED BY <2>1, <2>2, <1>02, <1>03, <1>04, <1>05
  <1>18. ASSUME Reload PROVE OwnInv'
    BY <1>6, <1>18 DEF Reload, Load
  <1>19. ASSUME HandleEvent PROVE OwnInv'
    <2>1. UNCHANGED <<sentTo, history, selected, loaded, tui, call>> /\ tui' # "show"
          /\ queue' = Tail(queue) /\ queue # <<>>
      BY <1>19 DEF HandleEvent
    <2>2. Remains(queue', queue) /\ Head(queue) \in Events
      BY <1>0, <2>1, TailRemains
    <2>3. ShownOwn'
      <3>1. CASE UNCHANGED transcript
        BY <1>06, <2>1, <3>1
      <3>2. CASE transcript' # transcript
        <4>1. sentTo[Head(queue).of] = selected /\ ApplyHere(Head(queue))
          BY <1>19, <3>2 DEF HandleEvent, Apply
        <4>2. PICK n, x : Puts(transcript', transcript, n, x) /\ Gives(Head(queue), x, n)
          BY <2>2, <3>2, <4>1, ApplyFacts
        <4>3. SUFFICES ASSUME selected = loaded PROVE Own(transcript', selected)
          BY <2>1 DEF ShownOwn, Own
        <4>4. Own(transcript, selected)
          BY <1>01, <4>3
        <4>5. \A u \in ToSet(x.of) : sentTo[u] = selected \/ (n \in DOMAIN transcript /\ u \in ToSet(transcript[n].of))
          BY <4>1, <4>2 DEF Gives
        <4> DEFINE new == transcript'
        <4>6. Puts(new, transcript, n, x)
          BY <4>2
        <4> HIDE DEF new
        <4>7. Own(new, selected)
          BY <4>4, <4>5, <4>6, OwnPuts
        <4> QED BY <4>7 DEF new
      <3> QED BY <3>1, <3>2
    <2> QED BY <2>1, <2>2, <2>3, <1>02, <1>03, <1>04, <1>07
  <1>20. CASE Next
    <2>1. \/ /\ UNCHANGED <<sentTo, history, queue, transcript, selected, loaded>>
             /\ UNCHANGED <<tui, call>>
          \/ \E t \in Turns :
               TurnStep(t) \/ TurnFails(t) \/ OtherClientSubmits(t) \/ SubmitInput(t)
          \/ \E s \in Sessions :
               \/ MoveSelection(s)
               \/ \E draft \in Turns \cup {None} : CreateSession(s, draft)
          \/ GatewayRestarts \/ StreamBreaks
          \/ Fetch \/ FetchFails \/ Show
          \/ Bootstrap \/ RefreshOverview \/ Reload
          \/ Exit /\ UNCHANGED <<sentTo, history>>
          \/ HandleEvent
      BY <1>20 DEF Next, StreamOpens, OtherClientCreates, Quit
    <2> QED
      BY <1>1, <1>2, <1>4, <1>5, <1>6, <1>7, <1>8, <1>9, <1>10, <1>11, <1>12, <1>13,
         <1>14, <1>16, <1>17, <1>18, <1>19, <2>1
  <1> QED BY <1>6, <1>20 DEF vars

-----------------------------------------------------------------------------
(* Answers *)

\* Turn t announces its answer.
Completes(t) == TurnStep(t) /\ NextStep(t) = "completed"

\* A turn keeps its session, and an answer once announced stays announced.
LEMMA TurnsMove ==
  ASSUME TypeInv, TurnInv, SelectInv, [Next]_vars, NEW t \in Turns
  PROVE  /\ sentTo[t] # None => sentTo'[t] = sentTo[t]
         /\ Announced(t) => Announced(t)'
         /\ Announced(t)' => Announced(t) \/ Completes(t)
         /\ Completes(t) => ~Announced(t) /\ sentTo[t] # None /\ Announced(t)'
         /\ status[t] \notin {"none", "running"} => status'[t] = status[t]
         /\ Announced(t) => status[t] # "none"
  <1> USE TuiAssumption DEF TuiAssumption, runtime, app, network, ghosts, bounds
  <1>0. /\ sentTo \in [Turns -> Sessions \cup {None}]
        /\ status \in [Turns -> {"none", "running", "done", "failed", "dead", "refused"}]
        /\ stage \in [Turns -> 0..6]
        /\ known \subseteq Sessions /\ list \subseteq Sessions /\ selected \in list \cup {None}
    BY DEF TypeInv, TypeOK
  <1>01. /\ status[t] = "none" => sentTo[t] = None
         /\ Announced(t) => status[t] # "none"
    BY DEF TurnInv, Announced
  <1>1. ASSUME NEW u \in Turns, TurnStep(u)
        PROVE  /\ sentTo' = sentTo /\ status[u] = "running"
               /\ t # u => stage'[t] = stage[t] /\ status'[t] = status[t]
               /\ t = u => stage'[t] = stage[t] + 1
    BY <1>0, <1>1 DEF TurnStep
  <1>2. ASSUME NEW u \in Turns, NEW s \in Sessions, Submit(u, s), UNCHANGED stage
        PROVE  /\ stage'[t] = stage[t]
               /\ t # u => sentTo'[t] = sentTo[t] /\ status'[t] = status[t]
               /\ status[u] = "none" /\ sentTo[u] = None /\ stage[u] = 0
    BY <1>0, <1>2, SubmitFacts DEF TurnInv
  <1>3. ASSUME NEW u \in Turns, TurnFails(u)
        PROVE  /\ sentTo' = sentTo /\ stage' = stage /\ status[u] = "running"
               /\ t # u => status'[t] = status[t]
    BY <1>0, <1>3 DEF TurnFails
  <1>4. CASE Next
    <2>1. \/ \E u \in Turns : TurnStep(u) \/ TurnFails(u) \/ OtherClientSubmits(u) \/ SubmitInput(u)
          \/ GatewayRestarts
          \/ UNCHANGED <<sentTo, status, stage>>
      BY <1>4
         DEF Next, OtherClientCreates, MoveSelection, CreateSession, StreamOpens, StreamBreaks,
             Fetch, FetchFails, Show, ShowLoaded, Bootstrap, RefreshOverview, Reload, Quit,
             HandleEvent
    <2>2. \/ \E u \in Turns : TurnStep(u) \/ TurnFails(u)
          \/ \E u \in Turns, s \in Sessions : Submit(u, s) /\ UNCHANGED stage
          \/ UNCHANGED <<sentTo, stage>> /\ \A v \in Turns : status[v] # "running" => status'[v] = status[v]
      BY <1>0, <2>1 DEF OtherClientSubmits, SubmitInput, SelectInv, GatewayRestarts
    <2>3. CASE UNCHANGED <<sentTo, stage>> /\ \A v \in Turns : status[v] # "running" => status'[v] = status[v]
      <3>1. ~Completes(t)
        BY <1>0, <1>1, <2>3 DEF Completes
      <3> QED BY <1>0, <1>01, <2>3, <3>1 DEF Announced
    <2>4. CASE \E u \in Turns, s \in Sessions : Submit(u, s) /\ UNCHANGED stage
      <3>1. PICK u \in Turns, s \in Sessions : Submit(u, s) /\ UNCHANGED stage
        BY <2>4
      <3>2. ~Completes(t)
        BY <1>0, <1>1, <3>1 DEF Completes
      <3>3. Announced(t) => t # u
        BY <1>2, <3>1 DEF Announced
      <3>4. Announced(t)' => t # u
        BY <1>0, <1>2, <3>1 DEF Announced
      <3> QED BY <1>01, <1>2, <3>1, <3>2, <3>3, <3>4 DEF Announced
    <2>5. CASE \E u \in Turns : TurnStep(u) \/ TurnFails(u)
      <3>1. PICK u \in Turns : TurnStep(u) \/ TurnFails(u)
        BY <2>5
      <3>2. CASE TurnFails(u)
        <4>1. ~Completes(t)
          BY <1>0, <1>1, <1>3, <3>2 DEF Completes
        <4> QED BY <1>01, <1>3, <3>2, <4>1 DEF Announced
      <3>3. CASE TurnStep(u) /\ t # u
        <4>1. ~Completes(t)
          BY <1>0, <1>1, <3>3 DEF Completes
        <4> QED BY <1>01, <1>1, <3>3, <4>1 DEF Announced
      <3>4. CASE TurnStep(t) /\ t = u
        <4>1. /\ NextStep(t) = Script[t][stage[t] + 1] /\ stage[t] \in Nat /\ sentTo[t] # None
              /\ NextStep(t) = "completed" => ~Announced(t)
          BY <1>0, <1>1, <3>4, StepFacts DEF NextStep
        <4>2. stage'[t] = stage[t] + 1 /\ sentTo' = sentTo /\ status[t] = "running"
          BY <1>1, <3>4
        <4>3. Announced(t)' <=> Announced(t) \/ NextStep(t) = "completed"
          <5>1. Announced(t)' <=> \E i \in 1..(stage[t] + 1) : Script[t][i] = "completed"
            BY <4>1, <4>2 DEF Announced
          <5>2. Announced(t) <=> \E i \in 1..stage[t] : Script[t][i] = "completed"
            BY <4>1 DEF Announced
          <5>3. \A i : i \in 1..(stage[t] + 1) <=> i \in 1..stage[t] \/ i = stage[t] + 1
            BY <4>1
          <5> QED BY <4>1, <5>1, <5>2, <5>3
        <4> QED BY <1>01, <3>4, <4>1, <4>2, <4>3 DEF Completes
      <3> QED BY <3>1, <3>2, <3>3, <3>4
    <2> QED BY <2>2, <2>3, <2>4, <2>5
  <1>5. CASE UNCHANGED vars
    <2>1. ~Completes(t)
      BY <1>0, <1>1, <1>5 DEF Completes, vars
    <2> QED BY <1>01, <1>5, <2>1 DEF vars, Announced
  <1> QED BY <1>4, <1>5

\* A step adds one entry to one history at most; an answer only when its turn ends.
LEMMA HistoryMoves ==
  ASSUME TypeInv, TurnInv, SelectInv, [Next]_vars
  PROVE  \/ UNCHANGED history
         \/ \E role \in Roles, t \in Turns, s \in Sessions :
              /\ Records(role, t, s)
              /\ role = "assistant" => /\ Announced(t) /\ ~Completes(t)
                                       /\ status[t] = "running" /\ status'[t] # "running"
  <1> USE TuiAssumption DEF TuiAssumption, runtime, app, network, ghosts, bounds
  <1>0. /\ status \in [Turns -> {"none", "running", "done", "failed", "dead", "refused"}]
        /\ known \subseteq Sessions /\ list \subseteq Sessions /\ selected \in list \cup {None}
    BY DEF TypeInv, TypeOK
  <1>1. ASSUME NEW t \in Turns, status[t] = "running", NextStep(t) \in DOMAIN Appended,
               Keep(Appended[NextStep(t)], t), status' = [status EXCEPT ![t] = "failed"]
                 \/ status' = [status EXCEPT ![t] = IF stage[t] + 1 = Len(Script[t]) THEN "done" ELSE @]
        PROVE  \E role \in Roles, s \in Sessions :
              /\ Records(role, t, s)
              /\ role = "assistant" => /\ Announced(t) /\ ~Completes(t)
                                       /\ status[t] = "running" /\ status'[t] # "running"
    <2>1. /\ NextStep(t) = "kept" => Announced(t) /\ stage[t] + 1 = Len(Script[t])
          /\ sentTo[t] \in Sessions
      BY <1>1, StepFacts
    <2>2. /\ Appended[NextStep(t)] \in Roles /\ Records(Appended[NextStep(t)], t, sentTo[t])
          /\ Appended[NextStep(t)] = "assistant" => NextStep(t) = "kept"
      BY <1>1, KeepFacts
    <2>3. NextStep(t) = "kept" => ~Completes(t) /\ status'[t] # "running"
      BY <1>0, <1>1, <2>1 DEF Completes
    <2> QED BY <1>1, <2>1, <2>2, <2>3
  <1>2. ASSUME NEW t \in Turns, NEW s \in Sessions, Submit(t, s)
        PROVE  UNCHANGED history \/ (Records("user", t, s) /\ "user" \in Roles /\ "user" # "assistant")
    BY <1>2, SubmitFacts DEF Roles
  <1>3. CASE Next
    <2>1. \/ \E t \in Turns : TurnStep(t) \/ TurnFails(t) \/ OtherClientSubmits(t) \/ SubmitInput(t)
          \/ UNCHANGED history
      BY <1>3
         DEF Next, OtherClientCreates, MoveSelection, CreateSession, StreamOpens, StreamBreaks,
             Fetch, FetchFails, Show, ShowLoaded, Bootstrap, RefreshOverview, Reload, Quit,
             HandleEvent, GatewayRestarts
    <2>2. \/ \E t \in Turns : \/ TurnStep(t) /\ ~UNCHANGED history
                              \/ TurnFails(t) /\ ~UNCHANGED history
          \/ \E t \in Turns, s \in Sessions : Submit(t, s)
          \/ UNCHANGED history
      BY <1>0, <2>1 DEF OtherClientSubmits, SubmitInput, SelectInv
    <2>3. ASSUME NEW t \in Turns, TurnStep(t), ~UNCHANGED history
          PROVE  \E role \in Roles, s \in Sessions :
              /\ Records(role, t, s)
              /\ role = "assistant" => /\ Announced(t) /\ ~Completes(t)
                                       /\ status[t] = "running" /\ status'[t] # "running"
      BY <1>1, <2>3 DEF TurnStep
    <2>4. ASSUME NEW t \in Turns, TurnFails(t), ~UNCHANGED history
          PROVE  \E role \in Roles, s \in Sessions :
              /\ Records(role, t, s)
              /\ role = "assistant" => /\ Announced(t) /\ ~Completes(t)
                                       /\ status[t] = "running" /\ status'[t] # "running"
      BY <1>1, <2>4 DEF TurnFails
    <2> QED BY <1>2, <2>2, <2>3, <2>4
  <1> QED BY <1>3 DEF vars

\* A step queues an answer only when its turn announces it, hence never twice.
LEMMA QueueMoves ==
  ASSUME TypeInv, TurnInv, SelectInv, [Next]_vars
  PROVE  /\ queue' \in Seq(Events)
         /\ \A u : Queued(queue', u) => Queued(queue, u) \/ (u \in Turns /\ Completes(u))
         /\ SingleEvents(queue) /\ (\A u \in Turns : Queued(queue, u) => Announced(u)) => SingleEvents(queue')
  <1> USE DEF runtime, app, network, ghosts, bounds
  <1>0. queue \in Seq(Events)
    BY DEF TypeInv
  <1>1. ASSUME Remains(queue', queue)
        PROVE  /\ queue' \in Seq(Events)
               /\ \A u : Queued(queue', u) => Queued(queue, u)
               /\ SingleEvents(queue) => SingleEvents(queue')
    BY <1>1 DEF Remains, Queued
  <1>2. ASSUME NEW t \in Turns, Emit("error", t)
        PROVE  /\ queue' \in Seq(Events)
               /\ \A u : Queued(queue', u) => Queued(queue, u)
               /\ SingleEvents(queue) => SingleEvents(queue')
    <2>1. /\ queue' \in Seq(Events)
          /\ \A i \in DOMAIN queue' :
              \/ queue'[i].kind = "error" /\ queue'[i].of = t
              \/ \E k \in DOMAIN queue : queue[k] = queue'[i]
          /\ SingleEvents(queue) => SingleEvents(queue')
      BY <1>2, EmitFacts
    <2> QED BY <2>1 DEF Queued
  <1>3. ASSUME NEW t \in Turns, TurnStep(t), ~UNCHANGED queue
        PROVE  /\ queue' \in Seq(Events)
               /\ \A u : Queued(queue', u) => Queued(queue, u) \/ (u \in Turns /\ Completes(u))
               /\ SingleEvents(queue) /\ (\A u \in Turns : Queued(queue, u) => Announced(u)) => SingleEvents(queue')
    <2> DEFINE kind == NextStep(t)
    <2>1. kind \in {"tool_completed", "chunk", "completed", "error"} /\ Emit(kind, t)
          /\ (kind = "completed" => ~Announced(t))
      <3>1. kind \in Steps /\ (kind = "completed" => ~Announced(t))
        BY <1>3, StepFacts DEF TurnStep
      <3>2. kind \notin DOMAIN Appended /\ Emit(kind, t)
        BY <1>3 DEF TurnStep
      <3> QED BY <3>1, <3>2 DEF Steps, Appended
    <2>2. kind = "completed" => Completes(t)
      BY <1>3 DEF Completes
    <2> HIDE DEF kind
    <2>3. /\ queue' \in Seq(Events)
          /\ \A i \in DOMAIN queue' :
              \/ queue'[i].kind = kind /\ queue'[i].of = t
              \/ \E k \in DOMAIN queue : queue[k] = queue'[i]
          /\ SingleEvents(queue) /\ (kind = "completed" => ~Queued(queue, t)) => SingleEvents(queue')
      BY <2>1, EmitFacts
    <2>4. \A u : Queued(queue', u) => Queued(queue, u) \/ (u \in Turns /\ Completes(u))
      BY <2>2, <2>3 DEF Queued
    <2> QED BY <2>1, <2>3, <2>4
  <1>4. CASE UNCHANGED queue
    BY <1>0, <1>1, <1>4, SelfRemains
  <1>5. CASE Next
    <2>1. \/ \E t \in Turns : TurnStep(t) /\ ~UNCHANGED queue
          \/ \E t \in Turns : Emit("error", t)
          \/ StreamEnds \/ Exit \/ Show \/ HandleEvent
          \/ UNCHANGED queue
      BY <1>5
         DEF Next, OtherClientCreates, MoveSelection, CreateSession, StreamOpens, StreamBreaks,
             Fetch, FetchFails, Bootstrap, RefreshOverview, Reload, Quit,
             GatewayRestarts, TurnFails, OtherClientSubmits, SubmitInput
    <2>2. StreamEnds \/ Exit \/ Show \/ HandleEvent => Remains(queue', queue)
      BY <1>0, EndFacts, EmptyRemains, PrefixRemains, TailRemains
         DEF Exit, Show, ShowLoaded, HandleEvent
    <2> QED BY <1>1, <1>2, <1>3, <1>4, <2>1, <2>2
  <1> QED BY <1>4, <1>5 DEF vars

\* An answer's entry tells whose it is.
LEMMA AnswerFacts ==
  ASSUME NEW t
  PROVE  /\ Answer(t).role = "assistant" /\ ~Answer(t).pending /\ Answer(t).of = <<t>>
         /\ \A u : Answer(t) = Answer(u) => t = u
         /\ \A role, u : Entry(role, u, FALSE) = Answer(t) => role = "assistant" /\ u = t
  <1>1. Answer(t).role = "assistant" /\ Answer(t).of = <<t>> /\ Answer(t).pending = FALSE
    BY DEF Answer, Entry
  <1>2. ASSUME NEW role, NEW u, Entry(role, u, FALSE) = Answer(t)
        PROVE  role = "assistant" /\ u = t
    <2>1. Entry(role, u, FALSE).role = role /\ Entry(role, u, FALSE).of = <<u>>
      BY DEF Entry
    <2>2. <<u>> = <<t>> /\ role = "assistant"
      BY <1>1, <1>2, <2>1
    <2>3. <<u>>[1] = u /\ <<t>>[1] = t
      OBVIOUS
    <2> QED BY <2>2, <2>3
  <1>3. \A u : Answer(t) = Answer(u) => t = u
    BY <1>2 DEF Answer
  <1> QED BY <1>1, <1>2, <1>3

\* The invariant about announced and kept answers holds at first.
LEMMA AnswerInit == Init => AnswerInv
  <1> SUFFICES ASSUME Init PROVE AnswerInv
    OBVIOUS
  <1>1. DOMAIN <<>> = {}
    OBVIOUS
  <1>2. /\ \A s \in Sessions : history[s] = <<>>
        /\ queue = <<>> /\ tui = "boot"
    BY DEF Init
  <1> QED BY <1>1, <1>2 DEF AnswerInv, SingleEvents, Single, Finished, ToSet, Announcements

\* The history of session s
HistoryInv(s) ==
  /\ Single(history[s]) /\ Finished(history[s])
  /\ \A t \in Turns : Answer(t) \in ToSet(history[s]) => Announced(t) /\ status[t] # "running"

\* No history gets an answer twice: the turn ends with the one it keeps.
LEMMA HistoryStep ==
  ASSUME TypeInv, TurnInv, SelectInv, [Next]_vars, \A s \in Sessions : HistoryInv(s),
         NEW s \in Sessions
  PROVE  HistoryInv(s)'
  <1>1. \A t \in Turns : Announced(t) /\ status[t] # "running" => Announced(t)' /\ status'[t] # "running"
    <2>1. \A t \in Turns : status[t] \in {"none", "running", "done", "failed", "dead", "refused"}
      BY DEF TypeInv, TypeOK
    <2> QED BY <2>1, TurnsMove
  <1>2. CASE history'[s] = history[s]
    BY <1>1, <1>2 DEF HistoryInv, Single, Finished
  <1>3. ASSUME NEW role \in Roles, NEW t \in Turns, Records(role, t, s),
               role = "assistant" => /\ Announced(t) /\ ~Completes(t)
                                     /\ status[t] = "running" /\ status'[t] # "running"
        PROVE  HistoryInv(s)'
    <2> DEFINE old == history[s]
               new == history'[s]
               x == Entry(role, t, FALSE)
    <2>1. PICK n : n \notin DOMAIN old /\ Puts(new, old, n, x)
      BY <1>3 DEF Records
    <2>2. /\ DOMAIN new = DOMAIN old \cup {n} /\ n \notin DOMAIN old
          /\ \A i \in DOMAIN old : new[i] = old[i]
          /\ new[n] = x
      BY <2>1 DEF Puts
    <2>3. ~x.pending
      BY DEF Entry
    <2>4. \A u \in Turns : x = Answer(u) => role = "assistant" /\ u = t
      BY AnswerFacts
    <2>5. Single(old) /\ Finished(old)
          /\ \A u \in Turns : \A i \in DOMAIN old : old[i] = Answer(u) => Announced(u) /\ status[u] # "running"
      BY DEF HistoryInv, ToSet
    <2> HIDE DEF old, x
    <2>6. Finished(new)
      BY <2>2, <2>3, <2>5 DEF Finished
    <2>7. ASSUME NEW u \in Turns, NEW i \in DOMAIN new, new[i] = Answer(u)
          PROVE  Announced(u)' /\ status'[u] # "running"
      <3>1. CASE i \in DOMAIN old
        BY <1>1, <2>2, <2>5, <2>7, <3>1
      <3>2. CASE i = n
        <4>1. role = "assistant" /\ u = t
          BY <2>2, <2>4, <2>7, <3>2
        <4> QED BY <1>3, <4>1, TurnsMove
      <3> QED BY <2>2, <2>7, <3>1, <3>2
    <2>8. ASSUME NEW i \in DOMAIN new, NEW j \in DOMAIN new, NEW u \in Turns,
                 new[i] = Answer(u), new[j] = Answer(u)
          PROVE  i = j
      <3>1. CASE i \in DOMAIN old /\ j \in DOMAIN old
        BY <2>2, <2>5, <2>8, <3>1 DEF Single
      <3>2. CASE i = n /\ j = n
        BY <3>2
      <3>3. ASSUME NEW k \in DOMAIN old, new[n] = Answer(u), new[k] = Answer(u) PROVE FALSE
        <4>1. role = "assistant" /\ u = t
          BY <2>2, <2>4, <3>3
        <4> QED BY <1>3, <2>2, <2>5, <3>3, <4>1
      <3> QED BY <2>2, <2>8, <3>1, <3>2, <3>3
    <2>9. Single(new)
      BY <2>8 DEF Single
    <2>10. \A u \in Turns : Answer(u) \in ToSet(new) => Announced(u)' /\ status'[u] # "running"
      BY <2>7 DEF ToSet
    <2> HIDE DEF new
    <2>11. (Single(history[s]) /\ Finished(history[s]))'
      BY <2>6, <2>9 DEF new, Single, Finished
    <2> QED BY <2>10, <2>11 DEF HistoryInv, new
  <1> QED BY <1>2, <1>3, HistoryMoves DEF Records

\* And it holds after every step; a fetched history is a copy of one of those.
LEMMA AnswerStep ==
  ASSUME TypeInv, TurnInv, SelectInv, AnswerInv, [Next]_vars
  PROVE  AnswerInv'
  <1> USE DEF runtime, app, network, ghosts, bounds
  <1>1. \A s \in Sessions : HistoryInv(s)
    BY DEF AnswerInv, HistoryInv
  <1>2. \A s \in Sessions : HistoryInv(s)'
    BY <1>1, HistoryStep
  <1>3. \A t \in Turns : Announced(t) => Announced(t)'
    BY TurnsMove
  <1>4. SingleEvents(queue) /\ \A u \in Turns : Queued(queue, u) => Announced(u)
    BY QueuedFacts DEF AnswerInv, SingleEvents
  <1>5. /\ queue' \in Seq(Events)
        /\ \A u : Queued(queue', u) => Queued(queue, u) \/ (u \in Turns /\ Completes(u))
        /\ SingleEvents(queue')
    BY <1>4, QueueMoves
  <1>6. SingleEvents(queue)'
    BY <1>5 DEF SingleEvents
  <1>7. ASSUME NEW u \in Turns, u \in Announcements(queue') PROVE Announced(u)'
    <2>1. Queued(queue', u)
      BY <1>7, QueuedFacts
    <2> QED BY <1>4, <1>5, <2>1, TurnsMove
  <1>8. ASSUME tui' = "show"
        PROVE  /\ Single(call'.fetched) /\ Finished(call'.fetched)
               /\ \A t \in Turns : Answer(t) \in ToSet(call'.fetched) => Announced(t)'
    <2>1. CASE UNCHANGED <<tui, call>>
      BY <1>3, <1>8, <2>1 DEF AnswerInv
    <2>2. CASE Fetch
      <3>1. call'.fetched = history[call.session] /\ call.session \in Sessions
        BY <2>2 DEF Fetch, TypeInv, TypeOK
      <3> QED BY <1>1, <1>3, <3>1 DEF HistoryInv
    <2>3. CASE Next
      <3>1. UNCHANGED <<tui, call>> \/ Fetch
        BY <1>8, <2>3
           DEF Next, TurnStep, TurnFails, OtherClientSubmits, SubmitInput, OtherClientCreates,
               MoveSelection, CreateSession, Load, GatewayRestarts, StreamOpens, StreamBreaks,
               FetchFails, Exit, Show, ShowLoaded, Bootstrap, RefreshOverview, Reload, Quit,
               HandleEvent
      <3> QED BY <2>1, <2>2, <3>1
    <2> QED BY <2>1, <2>3 DEF vars
  <1>9. (\A s \in Sessions :
          /\ Single(history[s]) /\ Finished(history[s])
          /\ \A t \in Turns : Answer(t) \in ToSet(history[s]) => Announced(t) /\ status[t] # "running")'
    BY <1>2 DEF HistoryInv
  <1> QED BY <1>6, <1>7, <1>8, <1>9 DEF AnswerInv

-----------------------------------------------------------------------------
(* What is shown *)

\* At first nothing is shown.
LEMMA ShownInit == Init => ShownInv
  <1>1. DOMAIN <<>> = {}
    OBVIOUS
  <1> QED BY <1>1 DEF Init, ShownInv, ToSet

\* A transcript in which no answer is new.
LEMMA ShownSame ==
  ASSUME TypeInv, TurnInv, SelectInv, ShownInv, [Next]_vars, doubled' = doubled,
         DOMAIN transcript \subseteq DOMAIN transcript',
         \A i \in DOMAIN transcript : transcript'[i] = transcript[i],
         \A i \in DOMAIN transcript' \ DOMAIN transcript : \A t \in Turns : transcript'[i] # Answer(t)
  PROVE  ShownInv'
  <1>1. \A t \in Turns : \A i \in DOMAIN transcript' :
          transcript'[i] = Answer(t) => i \in DOMAIN transcript /\ transcript[i] = Answer(t)
    OBVIOUS
  <1>2. \A t \in Turns : Answer(t) \in ToSet(transcript') => Answer(t) \in ToSet(transcript)
    BY <1>1 DEF ToSet
  <1>3. ASSUME NEW t \in Turns, Answer(t) \in ToSet(transcript), t \notin doubled, t \in Announcements(queue')
        PROVE  FALSE
    <2>1. Queued(queue', t) /\ ~Queued(queue, t) /\ Announced(t)
      BY <1>3, QueuedFacts DEF ShownInv
    <2> QED BY <2>1, QueueMoves, TurnsMove
  <1>4. \A t \in Turns : Announced(t) => Announced(t)'
    BY TurnsMove
  <1> QED BY <1>1, <1>2, <1>3, <1>4 DEF ShownInv

\* An empty transcript shows no answer twice.
LEMMA ShownNothing ==
  ASSUME transcript' = <<>>
  PROVE  ShownInv'
  <1>1. DOMAIN <<>> = {}
    OBVIOUS
  <1> QED BY <1>1 DEF ShownInv, ToSet

\* An answer's entry is one that the answer can be read from.
LEMMA InAnswers ==
  ASSUME NEW t \in Turns, NEW entries, Answer(t) \in ToSet(entries)
  PROVE  t \in AnswersIn(entries)
  <1>1. PICK i \in DOMAIN entries : entries[i] = Answer(t)
    BY DEF ToSet
  <1>2. Contains(<<t>>, t)
    <2>1. Len(<<t>>) = 1 /\ <<t>>[1] = t
      OBVIOUS
    <2> QED BY <2>1 DEF Contains
  <1> QED BY <1>1, <1>2, AnswerFacts DEF AnswersIn

\* A loaded transcript shows an answer once; those still queued are in doubled.
LEMMA ShownLoaded ==
  ASSUME TypeInv, TurnInv, SelectInv, AnswerInv, Show
  PROVE  ShownInv'
  <1>1. /\ transcript' = call.fetched /\ tui = "show"
        /\ doubled' = AnswersIn(call.fetched) \cap Announcements(queue')
        /\ UNCHANGED <<sentTo, stage>>
    BY DEF Show, ShowLoaded, runtime
  <1>2. /\ Single(call.fetched)
        /\ \A t \in Turns : Answer(t) \in ToSet(call.fetched) => Announced(t)
    BY <1>1 DEF AnswerInv
  <1>3. \A t \in Turns : Announced(t) => Announced(t)'
    BY <1>1 DEF Announced
  <1>4. \A t \in Turns : Answer(t) \in ToSet(call.fetched) => t \in AnswersIn(call.fetched)
    BY InAnswers
  <1> QED BY <1>1, <1>2, <1>3, <1>4 DEF ShownInv, Single

\* An event is applied: if it shows an answer, that was neither shown nor queued again.
LEMMA ShownApplied ==
  ASSUME TypeInv, TurnInv, SelectInv, OwnInv, AnswerInv, ShownInv, HandleEvent,
         NEW n, NEW x, Puts(transcript', transcript, n, x), Gives(Head(queue), x, n)
  PROVE  ShownInv'
  <1> DEFINE e == Head(queue)
             u == e.of
  <1>1. /\ queue \in Seq(Events) /\ queue # <<>> /\ queue' = Tail(queue) /\ doubled' = doubled
        /\ UNCHANGED <<sentTo, stage>>
    BY DEF HandleEvent, TypeInv, runtime
  <1>2. /\ Remains(queue', queue) /\ e \in Events /\ 1 \in DOMAIN queue /\ e = queue[1]
        /\ e.kind = "completed" => ~Queued(queue', u)
    BY <1>1, TailRemains DEF AnswerInv, SingleEvents, Queued
  <1>3. u \in Turns /\ (e.kind = "completed" => Queued(queue, u))
    BY <1>2 DEF Events, Queued
  <1>4. \A t \in Turns : Queued(queue', t) => Queued(queue, t)
    BY <1>2 DEF Queued, Remains
  <1>5. \A t \in Turns : Announced(t) => Announced(t)'
    BY <1>1 DEF Announced
  <1>6. \A t \in Turns : x = Answer(t) => e.kind = "completed" /\ t = u
    <2> SUFFICES ASSUME NEW t \in Turns, x = Answer(t) PROVE e.kind = "completed" /\ t = u
      OBVIOUS
    <2>1. \/ \E role \in {"tool", "error"} : x = Entry(role, u, FALSE)
          \/ x.pending
          \/ e.kind = "completed" /\ x = Entry("assistant", u, FALSE)
      BY DEF Gives
    <2>2. ~x.pending /\ \A role, v : Entry(role, v, FALSE) = x => role = "assistant" /\ v = t
      BY AnswerFacts
    <2> HIDE DEF u, e
    <2> QED BY <2>1, <2>2
  <1> DEFINE new == transcript'
             old == transcript
  <1>7. /\ DOMAIN new = DOMAIN old \cup {n}
        /\ \A i \in DOMAIN old : i # n => new[i] = old[i]
        /\ new[n] = x
    BY DEF Puts
  <1>8. \A t \in Turns :
          t \notin doubled =>
               /\ \A i \in DOMAIN old : old[i] = Answer(t) => ~Queued(queue, t)
               /\ \A i, j \in DOMAIN old : old[i] = Answer(t) /\ old[j] = Answer(t) => i = j
    BY QueuedFacts DEF ShownInv, ToSet
  <1>9. \A t \in Turns : \A i \in DOMAIN old : old[i] = Answer(t) => Announced(t)
    BY DEF ShownInv, ToSet
  <1>10. Queued(queue, u) => Announced(u)
    BY <1>3, QueuedFacts DEF AnswerInv
  <1> HIDE DEF e, new, old
  <1>11. ASSUME NEW t \in Turns, NEW i \in DOMAIN new, new[i] = Answer(t)
         PROVE  /\ Announced(t)
                /\ t \notin doubled => ~Queued(queue', t)
                /\ t \notin doubled => \A j \in DOMAIN new : new[j] = Answer(t) => i = j
    <2>1. CASE x = Answer(t)
      <3>1. t = u /\ e.kind = "completed" /\ Queued(queue, t)
        BY <1>3, <1>6, <2>1
      <3>2. Announced(t) /\ ~Queued(queue', t)
        BY <1>2, <1>10, <3>1
      <3>3. t \notin doubled => \A j \in DOMAIN old : old[j] # Answer(t)
        BY <1>8, <3>1
      <3> QED BY <1>7, <1>11, <3>2, <3>3
    <2>2. CASE x # Answer(t)
      <3>1. \A j \in DOMAIN new : new[j] = Answer(t) => j \in DOMAIN old /\ old[j] = Answer(t)
        BY <1>7, <2>2
      <3> QED BY <1>4, <1>8, <1>9, <1>11, <3>1
    <2> QED BY <2>1, <2>2
  <1>12. \A t \in Turns : Answer(t) \in ToSet(new) => \E i \in DOMAIN new : new[i] = Answer(t)
    BY DEF ToSet
  <1>13. \A t \in Turns : t \in Announcements(queue') => Queued(queue', t)
    BY QueuedFacts
  <1>14. \A t \in Turns :
            /\ Answer(t) \in ToSet(new) => Announced(t)'
            /\ t \notin doubled' =>
                 /\ Answer(t) \in ToSet(new) => t \notin Announcements(queue')
                 /\ \A i, j \in DOMAIN new : new[i] = Answer(t) /\ new[j] = Answer(t) => i = j
    BY <1>1, <1>5, <1>11, <1>12, <1>13
  <1> QED BY <1>14 DEF ShownInv, new

\* No step shows an answer twice.
LEMMA ShownStep ==
  ASSUME TypeInv, TurnInv, SelectInv, OwnInv, AnswerInv, ShownInv, [Next]_vars
  PROVE  ShownInv'
  <1> USE DEF runtime, app, network, ghosts, bounds
  <1>1. ASSUME UNCHANGED <<transcript, doubled>> PROVE ShownInv'
    BY <1>1, ShownSame
  <1>2. ASSUME NEW t \in Turns, SubmitInput(t) PROVE ShownInv'
    <2>1. \A i \in DOMAIN transcript' \ DOMAIN transcript : \A u \in Turns : transcript'[i] # Answer(u)
      BY <1>2, ShownFacts, AnswerFacts
    <2>2. doubled' = doubled
      BY <1>2 DEF SubmitInput
    <2> QED BY <1>2, <2>1, <2>2, ShownFacts, ShownSame
  <1>3. ASSUME HandleEvent PROVE ShownInv'
    <2>1. CASE UNCHANGED transcript
      BY <1>1, <1>3, <2>1 DEF HandleEvent
    <2>2. CASE transcript' # transcript
      <3>1. ApplyHere(Head(queue)) /\ Head(queue) \in Events
        BY <1>3, <2>2, TailRemains DEF HandleEvent, Apply, TypeInv
      <3>2. PICK n, x : Puts(transcript', transcript, n, x) /\ Gives(Head(queue), x, n)
        BY <2>2, <3>1, ApplyFacts
      <3> QED BY <1>3, <3>2, ShownApplied
    <2> QED BY <2>1, <2>2
  <1>4. CASE Next
    <2>1. \/ UNCHANGED <<transcript, doubled>>
          \/ transcript' = <<>>
          \/ \E t \in Turns : SubmitInput(t)
          \/ Show \/ HandleEvent
      BY <1>4
         DEF Next, TurnStep, TurnFails, OtherClientSubmits, OtherClientCreates,
             MoveSelection, CreateSession, GatewayRestarts, StreamOpens, StreamBreaks,
             Fetch, FetchFails, Exit, Bootstrap, RefreshOverview, SyncSelection, Reload, Quit
    <2> QED BY <1>1, <1>2, <1>3, <2>1, ShownNothing, ShownLoaded
  <1> QED BY <1>1, <1>4 DEF vars

-----------------------------------------------------------------------------
(* Every answer is accounted for *)

\* At first no answer is announced.
LEMMA AccountInit == Init => AccountInv
  BY DEF Init, AccountInv, Announced

\* A tool's entry says c.
ToolSays(entries, c) ==
  \E i \in DOMAIN entries :
    /\ entries[i].role = "tool" /\ ~entries[i].pending
    /\ Kind[Head(entries[i].of)].tool = c

\* A transcript that keeps all entries but one that is still growing.
Keeps(new, old) ==
  /\ DOMAIN old \subseteq DOMAIN new
  /\ \A i \in DOMAIN old :
       \/ new[i] = old[i]
       \/ old[i].pending /\ old[i].role = "assistant"

\* Such a transcript keeps the answers that are settled and what tools said.
LEMMA KeepsFacts ==
  ASSUME NEW new, NEW old, Keeps(new, old)
  PROVE  /\ Settled(old) \subseteq Settled(new)
         /\ \A c : ToolSays(old, c) => ToolSays(new, c)
         /\ \A t : (\E i \in DOMAIN old : old[i].role = "tool" /\ Kind[Head(old[i].of)].tool = Kind[t].text)
                => (\E i \in DOMAIN new : new[i].role = "tool" /\ Kind[Head(new[i].of)].tool = Kind[t].text)
  <1>1. \A i \in DOMAIN old : i \in DOMAIN new
    BY DEF Keeps
  <1>2. \A i \in DOMAIN old : ~old[i].pending => new[i] = old[i]
    BY DEF Keeps
  <1>3. \A i \in DOMAIN old : old[i].role = "tool" => new[i] = old[i]
    BY DEF Keeps
  <1>4. Settled(old) \subseteq Settled(new)
    BY <1>1, <1>2 DEF Settled
  <1> QED BY <1>1, <1>3, <1>4 DEF ToolSays

\* How the answer of u may be accounted for.
OnItsWay(u) == Queued(queue, u) \/ u \in missed
Accounted(u) == u \in Settled(transcript) \/ OnItsWay(u) \/ SaidByTool(u)

\* The invariant, and the same of the next state, in these terms.
LEMMA AccountDef ==
  AccountInv <=>
    (selected = loaded =>
       /\ \A t \in Turns : Announced(t) /\ sentTo[t] = selected => Accounted(t)
       /\ ignore # None /\ selected # None => ToolSays(transcript, ignore))
  BY QueuedFacts DEF AccountInv, Accounted, OnItsWay, ToolSays

LEMMA AccountNext ==
  (selected' = loaded' =>
       /\ \A t \in Turns : Announced(t)' /\ sentTo'[t] = selected' => Accounted(t)'
       /\ ignore' # None /\ selected' # None => ToolSays(transcript', ignore'))
  => AccountInv'
  <1>1. \A t \in Turns : t \in Announcements(queue') <=> Queued(queue', t)
    BY QueuedFacts
  <1> QED BY <1>1 DEF AccountInv, Accounted, OnItsWay, ToolSays

\* Steps of the runtime and of the stream: an answer announced in the loaded session
\* is queued, or missed.
LEMMA OnItsWayStep ==
  ASSUME TypeInv, TurnInv, SelectInv, [Next]_vars, ~Show, ~HandleEvent, ~Exit,
         NEW u \in Turns, OnItsWay(u) \/ Completes(u), sentTo[u] = loaded
  PROVE  OnItsWay(u)'
  <1> USE DEF runtime, app, network, ghosts, bounds
  <1>1. ASSUME NEW t \in Turns, NEW kind \in {"tool_completed", "chunk", "completed", "error"},
               Emit(kind, t), OnItsWay(u) \/ (kind = "completed" /\ u = t)
        PROVE  OnItsWay(u)'
    BY <1>1, EmitFacts DEF OnItsWay, Queued
  <1>2. ASSUME NEW t \in Turns, TurnStep(t), NextStep(t) \notin DOMAIN Appended
        PROVE  NextStep(t) \in {"tool_completed", "chunk", "completed", "error"} /\ Emit(NextStep(t), t)
    <2>1. NextStep(t) \in Steps
      BY <1>2, StepFacts DEF TurnStep
    <2> QED BY <1>2, <2>1 DEF TurnStep, Steps, Appended
  <1>3. CASE Completes(u)
    <2>1. TurnStep(u) /\ NextStep(u) = "completed" /\ NextStep(u) \notin DOMAIN Appended
      BY <1>3 DEF Completes, Appended
    <2> QED BY <1>1, <1>2, <2>1
  <1>4. CASE OnItsWay(u)
    <2>1. CASE UNCHANGED <<queue, missed>>
      BY <1>4, <2>1 DEF OnItsWay, Queued
    <2>2. CASE StreamEnds
      BY <1>4, <2>2, EndFacts DEF OnItsWay, Queued
    <2>3. ASSUME NEW t \in Turns, TurnStep(t) PROVE OnItsWay(u)'
      <3>1. CASE NextStep(t) \in DOMAIN Appended
        BY <2>1, <2>3, <3>1 DEF TurnStep
      <3>2. CASE NextStep(t) \notin DOMAIN Appended
        BY <1>1, <1>2, <1>4, <2>3, <3>2
      <3> QED BY <3>1, <3>2
    <2>4. ASSUME NEW t \in Turns, TurnFails(t) PROVE OnItsWay(u)'
      BY <1>1, <1>4, <2>4 DEF TurnFails
    <2>5. CASE Next
      <3>1. \/ UNCHANGED <<queue, missed>> \/ StreamEnds
            \/ \E t \in Turns : TurnStep(t) \/ TurnFails(t)
        BY <2>5
           DEF Next, OtherClientSubmits, SubmitInput, OtherClientCreates, MoveSelection,
               CreateSession, GatewayRestarts, StreamOpens, StreamBreaks, Fetch, FetchFails,
               Bootstrap, RefreshOverview, Reload, Quit
      <3> QED BY <2>1, <2>2, <2>3, <2>4, <3>1
    <2> QED BY <2>1, <2>5 DEF vars
  <1> QED BY <1>3, <1>4

\* A step that leaves the loaded session selected and what it shows in place.
LEMMA AccountKept ==
  ASSUME TypeInv, TurnInv, SelectInv, AccountInv, [Next]_vars, ~Show, ~HandleEvent, ~Exit,
         UNCHANGED <<selected, loaded, ignore>>, Keeps(transcript', transcript)
  PROVE  AccountInv'
  <1> DEFINE new == transcript'
  <1>1. /\ Settled(transcript) \subseteq Settled(new)
        /\ \A c : ToolSays(transcript, c) => ToolSays(new, c)
        /\ \A t : (\E i \in DOMAIN transcript :
                     transcript[i].role = "tool" /\ Kind[Head(transcript[i].of)].tool = Kind[t].text)
               => (\E i \in DOMAIN new :
                     new[i].role = "tool" /\ Kind[Head(new[i].of)].tool = Kind[t].text)
    <2>1. Keeps(new, transcript)
      OBVIOUS
    <2> HIDE DEF new
    <2> QED BY <2>1, KeepsFacts
  <1>2. ASSUME NEW t \in Turns, Announced(t)', sentTo'[t] = selected', selected' = loaded'
        PROVE  Accounted(t)'
    <2>1. /\ Announced(t) \/ Completes(t)
          /\ sentTo[t] # None
      BY <1>2, TurnsMove DEF Announced
    <2>2. sentTo[t] = selected /\ selected = loaded
      BY <1>2, <2>1, TurnsMove
    <2>3. CASE OnItsWay(t) \/ Completes(t)
      BY <2>2, <2>3, OnItsWayStep DEF Accounted
    <2>4. CASE Announced(t) /\ ~OnItsWay(t)
      <3>1. t \in Settled(transcript) \/ SaidByTool(t)
        BY <2>2, <2>4, AccountDef DEF Accounted
      <3>2. t \in Settled(new) \/ SaidByTool(t)'
        BY <1>1, <3>1 DEF SaidByTool
      <3> QED BY <3>2 DEF Accounted, Settled
    <2> QED BY <2>1, <2>3, <2>4
  <1>3. ASSUME selected' = loaded', ignore' # None, selected' # None
        PROVE  ToolSays(new, ignore')
    BY <1>1, <1>3, AccountDef
  <1> QED BY <1>2, <1>3, AccountNext

\* Nothing is claimed when no session is selected, or one that was not loaded.
LEMMA AccountUnselected ==
  ASSUME selected' = None \/ selected' # loaded'
  PROVE  AccountInv'
  BY AccountNext DEF Announced

\* A load accounts for what it fetched, for what is still queued, and misses the rest.
LEMMA AccountLoaded ==
  ASSUME AnswerInv, Show
  PROVE  AccountInv'
  <1>1. /\ transcript' = call.fetched /\ tui = "show" /\ ignore' = None
        /\ selected' = call.session
        /\ missed' = {t \in Turns : /\ Announced(t) /\ sentTo[t] = call.session
                                    /\ t \notin AnswersIn(call.fetched) \cup Announcements(queue')}
        /\ UNCHANGED <<sentTo, stage>>
    BY DEF Show, ShowLoaded, runtime
  <1>2. AnswersIn(call.fetched) \subseteq Settled(call.fetched)
    BY <1>1 DEF AnswerInv, Finished, AnswersIn, Settled
  <1>3. ASSUME NEW t \in Turns, Announced(t)', sentTo'[t] = selected'
        PROVE  Accounted(t)'
    <2>1. Announced(t) /\ sentTo[t] = call.session
      BY <1>1, <1>3 DEF Announced
    <2>2. t \in Settled(call.fetched) \/ t \in Announcements(queue') \/ t \in missed'
      BY <1>1, <1>2, <2>1
    <2>3. t \in Announcements(queue') => Queued(queue', t)
      BY QueuedFacts
    <2> QED BY <1>1, <2>2, <2>3 DEF Accounted, OnItsWay, Settled, Queued
  <1> QED BY <1>1, <1>3, AccountNext

\* An event is handled. One of another session is dropped; a completed answer is shown,
\* or left out when a tool said it.
LEMMA AccountHandled ==
  ASSUME TypeInv, TurnInv, SelectInv, OwnInv, AccountInv, HandleEvent
  PROVE  AccountInv'
  <1> DEFINE e == Head(queue)
             new == transcript'
  <1>0. TuiAssumption
    BY TuiAssumption
  <1>1. /\ UNCHANGED <<sentTo, stage, selected, loaded>> /\ queue' = Tail(queue)
        /\ queue \in Seq(Events) /\ queue # <<>> /\ Apply(e)
    BY DEF HandleEvent, TypeInv, runtime
  <1>2. /\ e \in Events /\ 1 \in DOMAIN queue /\ e = queue[1]
        /\ \A i \in DOMAIN queue : i = 1 \/ \E k \in DOMAIN queue' : queue'[k] = queue[i]
    BY <1>1, TailRemains
  <1>3. sentTo[e.of] # None /\ e.of \in Turns
    BY <1>2 DEF OwnInv, Events
  <1> HIDE DEF e
  <1>4. \A t : Queued(queue, t) => Queued(queue', t) \/ (e.kind = "completed" /\ e.of = t)
    BY <1>2 DEF Queued
  <1>5. ASSUME NEW t \in Turns PROVE Announced(t)' => Announced(t)
    BY <1>1 DEF Announced
  <1>6. missed \subseteq missed'
    BY <1>1 DEF Apply
  \* what is left to show: the transcript keeps what it had, and the event itself
  <1>7. ASSUME Keeps(new, transcript),
               selected = loaded /\ ignore' # None /\ selected # None => ToolSays(new, ignore'),
               selected = loaded /\ e.kind = "completed" /\ sentTo[e.of] = selected
                 => e.of \in Settled(new) \/ ToolSays(new, Kind[e.of].text)
        PROVE  AccountInv'
    <2>1. /\ Settled(transcript) \subseteq Settled(new)
          /\ \A t : (\E i \in DOMAIN transcript :
                     transcript[i].role = "tool" /\ Kind[Head(transcript[i].of)].tool = Kind[t].text)
               => (\E i \in DOMAIN new :
                     new[i].role = "tool" /\ Kind[Head(new[i].of)].tool = Kind[t].text)
      <3> HIDE DEF new
      <3> QED BY <1>7, KeepsFacts
    <2>2. ASSUME NEW t \in Turns, Announced(t), sentTo[t] = selected, selected = loaded
          PROVE  Accounted(t)'
      <3>1. t \in Settled(transcript) \/ Queued(queue, t) \/ t \in missed \/ SaidByTool(t)
        BY <2>2, AccountDef DEF Accounted, OnItsWay
      <3>2. SaidByTool(t) => SaidByTool(t)'
        BY <2>1 DEF SaidByTool
      <3>3. ToolSays(new, Kind[t].text) => SaidByTool(t)'
        BY DEF ToolSays, SaidByTool
      <3>4. t \in Settled(new) \/ Queued(queue', t) \/ t \in missed' \/ SaidByTool(t)'
        <4> HIDE DEF new
        <4>1. CASE Queued(queue', t)
          BY <4>1
        <4>2. CASE Queued(queue, t) /\ ~Queued(queue', t)
          <5>1. e.kind = "completed" /\ e.of = t
            BY <1>4, <4>2
          <5> QED BY <1>7, <2>2, <3>3, <5>1
        <4> QED BY <1>6, <2>1, <3>1, <3>2, <4>1, <4>2
      <3> QED BY <3>4 DEF Accounted, OnItsWay, Settled, Queued
    <2>3. ASSUME NEW t \in Turns, Announced(t)', sentTo'[t] = selected', selected' = loaded'
          PROVE  Accounted(t)'
      BY <1>1, <1>5, <2>2, <2>3
    <2> QED BY <1>1, <1>7, <2>3, AccountNext
  <1>8. CASE sentTo[e.of] # selected
    <2>1. UNCHANGED <<transcript, ignore>>
      BY <1>1, <1>8 DEF Apply
    <2>2. Keeps(new, transcript)
      BY <2>1 DEF Keeps
    <2> QED BY <1>7, <1>8, <2>1, <2>2, AccountDef
  <1>9. CASE sentTo[e.of] = selected
    <2>1. ApplyHere(e)
      BY <1>1, <1>9 DEF Apply
    <2>2. CASE /\ e.kind = "completed" /\ ignore = Kind[e.of].text /\ ignore' = None
               /\ transcript' = transcript
      <3>1. Keeps(new, transcript)
        BY <2>2 DEF Keeps
      <3>2. ignore # None
        BY <1>0, <1>3, <2>2 DEF TuiAssumption
      <3>3. selected = loaded => ToolSays(transcript, Kind[e.of].text)
        BY <1>3, <1>9, <2>2, <3>2, AccountDef
      <3>4. selected = loaded => ToolSays(new, Kind[e.of].text)
        BY <2>2, <3>3
      <3> QED BY <1>7, <2>2, <3>1, <3>4
    <2>3. ASSUME NEW n, NEW x, Puts(new, transcript, n, x), Gives(e, x, n) PROVE AccountInv'
      <3>1. /\ DOMAIN new = DOMAIN transcript \cup {n}
            /\ \A i \in DOMAIN transcript : i # n => new[i] = transcript[i]
            /\ new[n] = x
            /\ n \in DOMAIN transcript => transcript[n].pending /\ transcript[n].role = "assistant"
        BY <2>3 DEF Puts
      <3>2. Keeps(new, transcript)
        BY <3>1 DEF Keeps
      <3>3. selected = loaded /\ ignore' # None /\ selected # None => ToolSays(new, ignore')
        <4>1. CASE ignore' = ignore
          <5>1. ToolSays(transcript, ignore) => ToolSays(new, ignore)
            <6> HIDE DEF new
            <6> QED BY <3>2, KeepsFacts
          <5> QED BY <4>1, <5>1, AccountDef
        <4>2. CASE x = Entry("tool", e.of, FALSE) /\ ignore' = Kind[e.of].tool
          <5>1. x.role = "tool" /\ x.of = <<e.of>> /\ x.pending = FALSE /\ Head(<<e.of>>) = e.of
            BY <4>2 DEF Entry
          <5> QED BY <3>1, <4>2, <5>1 DEF ToolSays
        <4> QED BY <2>3, <4>1, <4>2 DEF Gives
      <3>4. e.kind = "completed" => e.of \in Settled(new)
        <4>1. SUFFICES ASSUME e.kind = "completed" PROVE e.of \in Settled(new)
          OBVIOUS
        <4>2. x = Answer(e.of)
          BY <2>3, <4>1 DEF Gives, Answer
        <4>3. x.role = "assistant" /\ ~x.pending /\ x.of = <<e.of>>
          BY <4>2, AnswerFacts
        <4>4. Contains(<<e.of>>, e.of)
          <5>1. Len(<<e.of>>) = 1 /\ <<e.of>>[1] = e.of
            OBVIOUS
          <5> QED BY <5>1 DEF Contains
        <4> HIDE DEF new
        <4>5. n \in DOMAIN new /\ ~new[n].pending /\ Contains(new[n].of, e.of) /\ new[n].role = "assistant"
          BY <3>1, <4>3, <4>4
        <4> QED BY <1>3, <4>5 DEF Settled
      <3> QED BY <1>7, <3>2, <3>3, <3>4
    <2> QED BY <1>2, <2>1, <2>2, <2>3, ApplyFacts
  <1> QED BY <1>8, <1>9

\* No step loses an answer of the loaded session without a reason.
LEMMA AccountStep ==
  ASSUME TypeInv, TurnInv, SelectInv, OwnInv, AnswerInv, AccountInv, [Next]_vars
  PROVE  AccountInv'
  <1> USE DEF runtime, app, network, ghosts, bounds
  <1>1. CASE Show
    BY <1>1, AccountLoaded
  <1>2. CASE HandleEvent
    BY <1>2, AccountHandled
  <1>3. CASE Exit
    BY <1>3, AccountUnselected DEF Exit
  <1>4. ASSUME ~Show, ~HandleEvent, ~Exit, UNCHANGED <<selected, loaded, ignore, transcript>>
        PROVE  AccountInv'
    <2>1. Keeps(transcript', transcript)
      BY <1>4 DEF Keeps
    <2> QED BY <1>4, <2>1, AccountKept
  <1>5. ASSUME ~Show, ~HandleEvent, ~Exit, NEW t \in Turns, SubmitInput(t) PROVE AccountInv'
    <2>1. Keeps(transcript', transcript)
      BY <1>5, ShownFacts DEF Keeps
    <2>2. UNCHANGED <<selected, loaded, ignore>>
      BY <1>5 DEF SubmitInput
    <2> QED BY <1>5, <2>1, <2>2, AccountKept
  <1>6. ASSUME ~Show, ~HandleEvent, ~Exit, SyncSelection, list' = known, UNCHANGED ignore
        PROVE  AccountInv'
    <2>1. CASE selected' = None
      BY <2>1, AccountUnselected
    <2>2. CASE UNCHANGED <<selected, transcript, loaded>>
      BY <1>4, <1>6, <2>2
    <2>3. CASE selected \notin list' /\ selected' \in list' /\ UNCHANGED <<transcript, loaded>>
      <3>1. None \notin known
        BY TuiAssumption DEF TypeInv, TypeOK, TuiAssumption
      <3>2. selected' # loaded'
        BY <1>6, <2>3, <3>1 DEF SelectInv
      <3> QED BY <3>2, AccountUnselected
    <2> QED BY <1>6, <2>1, <2>2, <2>3 DEF SyncSelection
  <1>7. CASE ~Show /\ ~HandleEvent /\ ~Exit
    <2>1. CASE Next
      <3>1. \/ UNCHANGED <<selected, loaded, ignore, transcript>>
            \/ SyncSelection /\ list' = known /\ UNCHANGED ignore
            \/ \E t \in Turns : SubmitInput(t)
        BY <1>7, <2>1
           DEF Next, TurnStep, TurnFails, OtherClientSubmits, OtherClientCreates, MoveSelection,
               CreateSession, GatewayRestarts, StreamOpens, StreamBreaks, Fetch, FetchFails,
               Bootstrap, RefreshOverview, Reload, Quit
      <3> QED BY <1>4, <1>5, <1>6, <1>7, <3>1
    <2>2. CASE UNCHANGED vars
      BY <1>4, <1>7, <2>2 DEF vars
    <2> QED BY <2>1, <2>2
  <1> QED BY <1>1, <1>2, <1>3, <1>7

-----------------------------------------------------------------------------
(* Theorems *)

\* The inductive invariant.
IndInv == TypeInv /\ TurnInv /\ SelectInv /\ OwnInv /\ AnswerInv /\ ShownInv /\ AccountInv

\* Every state of every run has all parts of the invariant.
THEOREM TuiInvariance == Spec => []IndInv
  <1>1. Init => IndInv
    BY InitType, TurnInit, SelectInit, OwnInit, AnswerInit, ShownInit, AccountInit DEF IndInv
  <1>2. IndInv /\ [Next]_vars => IndInv'
    BY TypeStep, TurnStepInv, SelectStep, OwnStep, AnswerStep, ShownStep, AccountStep DEF IndInv
  <1> QED BY <1>1, <1>2, PTL DEF Spec

\* The variables have their types, and the selected session is one of the list
\* (sync_selection, replace_or_insert_session).
THEOREM TuiTypes == Spec => []TypeOK
  <1>1. IndInv => TypeOK
    BY DEF IndInv, TypeInv
  <1> QED BY <1>1, TuiInvariance, PTL

\* The transcript of a session that was loaded holds nothing of another session
\* (apply_assistant_event), whatever events were queued when the selection changed.
THEOREM ShownIsOwn == Spec => []TranscriptOwn
  <1>1. IndInv => TranscriptOwn
    BY DEF IndInv, OwnInv
  <1> QED BY <1>1, TuiInvariance, PTL

\* An answer is shown once (complete_assistant_message), unless the history that was loaded
\* held it while its event was still queued.
THEOREM ShownAtMostOnce == Spec => []ShownOnce
  <1>1. IndInv => ShownOnce
    <2> SUFFICES ASSUME ShownInv, NEW t \in Turns \ doubled
                 PROVE  Cardinality({i \in DOMAIN transcript : transcript[i] = Answer(t)}) <= 1
      BY DEF IndInv, ShownOnce, Answer
    <2> DEFINE Places == {i \in DOMAIN transcript : transcript[i] = Answer(t)}
    <2>1. \A i, j \in Places : i = j
      BY DEF ShownInv
    <2> HIDE DEF Places
    <2>2. CASE Places = {}
      BY <2>2, FS_EmptySet DEF Places
    <2>3. CASE Places # {}
      <3>1. PICK i \in Places : TRUE
        BY <2>3
      <3>2. Places = {i}
        BY <2>1
      <3>3. Cardinality({i}) = 1
        BY FS_Singleton
      <3> QED BY <3>2, <3>3 DEF Places
    <2> QED BY <2>2, <2>3
  <1> QED BY <1>1, TuiInvariance, PTL

\* Every answer announced in the loaded session is shown, queued, missed for a reason, or
\* said by a tool before (ignore_completed_content).
THEOREM AnswersAccounted == Spec => []AnswerAccounted
  <1>1. IndInv => AnswerAccounted
    <2>1. Settled(transcript) \subseteq AnswersIn(transcript)
      BY DEF Settled, AnswersIn
    <2> QED BY <2>1 DEF IndInv, AccountInv, AnswerAccounted
  <1> QED BY <1>1, TuiInvariance, PTL

=============================================================================
