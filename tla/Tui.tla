-------------------------------- MODULE Tui --------------------------------
(* The terminal client (apps/goldclaw-tui): the session list, the selected   *)
(* session's transcript, and the event stream that a task of its own reads   *)
(* into a queue. The run loop handles one event or one key at a time; while  *)
(* it waits for a call the stream goes on. Of the runtime there is the       *)
(* history of each session, the order in which a turn emits its events and   *)
(* appends its messages, and the bounded channel behind the stream.          *)
EXTENDS Integers, FiniteSets, SequencesExt

CONSTANTS
  Sessions,     \* sessions that may come to exist
  Unstored,     \* those whose row the store does not take (create_session's persist fails)
  Turns,        \* messages, of this client or another, and what comes of them
  Contents,     \* what answers and tool outputs say
  Kind,         \* a turn's answer, the output of the tool it runs first, and is it a /read
  Capacity,     \* the broadcast channel's capacity
  MaxRunning,   \* bound: turns that run at a time
  MaxLoads,     \* bound: sessions loaded
  MaxFaults,    \* bound: calls and turns that fail, streams that break, restarts
  None

ASSUME TuiAssumption ==
  /\ Capacity \in Nat \ {0} /\ {MaxRunning, MaxLoads, MaxFaults} \subseteq Nat
  /\ Unstored \subseteq Sessions
  /\ None \notin Sessions \cup Turns \cup Contents
  /\ Kind \in [Turns -> [text : Contents, tool : Contents \cup {None}, read : BOOLEAN]]
  /\ \A t \in Turns : Kind[t].read => Kind[t].tool = Kind[t].text

VARIABLES
  known,               \* the runtime: its sessions
  history,             \* messages of each session
  sentTo, status, stage,   \* a turn's session, what became of it, its steps done
  list, selected, transcript, ignore,  \* App: the last is ignore_completed_content
  stream, queue,       \* App: the stream's session and state; its events on their way:
                       \* the received ones (event_rx), then those still in the socket
  tui, call,           \* what the run loop is doing, and the call it waits for
  loaded,              \* ghost: the session that the transcript was loaded from
  missed, doubled,     \* ghost: answers whose event was lost; queued when they were loaded
  loads, faults

runtime == <<known, history, sentTo, status, stage>>
app     == <<list, selected, transcript, ignore>>
network == <<stream, queue>>
ghosts  == <<loaded, missed, doubled>>
bounds  == <<loads, faults>>
vars    == <<runtime, app, network, tui, call, ghosts, bounds>>

\* What a turn does, in order: it emits an event, or appends a message ("kept"). Events
\* that only change a status line or announce a tool's start are left out.
Script ==
  LET tool == <<"tool_completed", "tool_kept">>
      answer == <<"chunk", "completed", "kept">>
  IN [t \in Turns |->
        IF Kind[t].read THEN Append(tool, "completed")
        ELSE IF Kind[t].tool = None THEN answer ELSE <<"call_kept">> \o tool \o answer]

Entry(role, t, pending) == [role |-> role, of |-> <<t>>, pending |-> pending]

Idle == [session |-> None, draft |-> None, fatal |-> FALSE, fetched |-> <<>>]

Init ==
  /\ known = {}
  /\ history = [s \in Sessions |-> <<>>]
  /\ sentTo = [t \in Turns |-> None] /\ status = [t \in Turns |-> "none"]
  /\ stage = [t \in Turns |-> 0]
  /\ list = {} /\ selected = None /\ transcript = <<>> /\ ignore = None
  /\ stream = [session |-> None, open |-> FALSE] /\ queue = <<>>
  /\ tui = "boot" /\ call = Idle
  /\ loaded = None /\ missed = {} /\ doubled = {}
  /\ loads = 0 /\ faults = 0

-----------------------------------------------------------------------------
(* The runtime *)

Announcements(events) == {e.of : e \in {f \in ToSet(events) : f.kind = "completed"}}

\* Answers of the loaded session whose event is lost.
Lost(before, after) ==
  {t \in Announcements(before) \ Announcements(after) : sentTo[t] = loaded}

\* An event goes to the stream of its session. A client that does not keep up
\* loses the oldest of the Capacity events that wait for it (BroadcastStream's
\* Lagged is dropped by session_events).
Emit(kind, t) ==
  LET event == [kind |-> kind, of |-> t]
      oldest == Len(queue) - Capacity + 1
  IN /\ \/ /\ stream.open /\ stream.session = sentTo[t]
           /\ \/ queue' = Append(queue, event)
              \/ oldest > 0 /\ queue' = Append(RemoveAt(queue, oldest), event)
        \/ /\ ~stream.open \/ stream.session # sentTo[t]
           /\ UNCHANGED queue
     /\ missed' = missed \cup Lost(Append(queue, event), queue')

\* A stream ends: what has not been received of it is lost.
StreamEnds ==
  /\ \E n \in 0..Len(queue) : queue' = SubSeq(queue, 1, n)
  /\ missed' = missed \cup Lost(queue, queue')

Keep(role, t) ==
  history' = [history EXCEPT ![sentTo[t]] = Append(@, Entry(role, t, FALSE))]

NextStep(t) == Script[t][stage[t] + 1]

\* The steps that append, and the role of what they append; a call has no text to show.
Appended == [call_kept |-> "call", tool_kept |-> "tool", kept |-> "assistant"]

TurnStep(t) ==
  /\ status[t] = "running"
  /\ IF NextStep(t) \in DOMAIN Appended
     THEN Keep(Appended[NextStep(t)], t) /\ UNCHANGED <<queue, missed>>
     ELSE Emit(NextStep(t), t) /\ UNCHANGED history
  /\ stage' = [stage EXCEPT ![t] = @ + 1]
  /\ status' = [status EXCEPT ![t] = IF stage[t] + 1 = Len(Script[t]) THEN "done" ELSE @]
  /\ UNCHANGED <<known, sentTo, app, stream, tui, call, loaded, doubled, bounds>>

\* The provider or a tool fails, or the store does; what is appended is in memory even so.
TurnFails(t) ==
  /\ status[t] = "running" /\ faults < MaxFaults
  /\ NextStep(t) # "completed"
  /\ Emit("error", t)
  /\ IF NextStep(t) \in DOMAIN Appended
     THEN Keep(Appended[NextStep(t)], t) ELSE UNCHANGED history
  /\ status' = [status EXCEPT ![t] = "failed"]
  /\ faults' = faults + 1
  /\ UNCHANGED <<known, sentTo, stage, app, stream, tui, call,
                 loaded, doubled, loads>>

\* A message arrives in session s: from this client (send) or another one.
Submit(t, s) ==
  /\ status[t] = "none"
  /\ Cardinality({u \in Turns : status[u] = "running"}) < MaxRunning
  /\ sentTo' = [sentTo EXCEPT ![t] = s]
  /\ IF s \in known
     THEN /\ status' = [status EXCEPT ![t] = "running"]
          /\ history' = [history EXCEPT ![s] = Append(@, Entry("user", t, FALSE))]
     ELSE status' = [status EXCEPT ![t] = "refused"] /\ UNCHANGED history

OtherClientSubmits(t) ==
  /\ \E s \in known : Submit(t, s)
  /\ UNCHANGED <<known, stage, app, network, tui, call, ghosts, bounds>>

\* A session whose row cannot be stored is listed until the gateway restarts, although
\* the call that made it fails. Its id is one that nobody uses.
OtherClientCreates(s) ==
  /\ s \notin known \cup list \cup {stream.session} /\ history[s] = <<>>
  /\ known' = known \cup {s}
  /\ UNCHANGED <<history, sentTo, status, stage, app, network, tui, call, ghosts, bounds>>

\* The gateway dies and comes back: turns end unheard, streams break, and what has no
\* row is gone.
GatewayRestarts ==
  /\ faults < MaxFaults /\ faults' = faults + 1
  /\ known' = known \ Unstored
  /\ status' = [t \in Turns |-> IF status[t] = "running" THEN "dead" ELSE status[t]]
  /\ stream' = [stream EXCEPT !.open = FALSE]
  /\ StreamEnds
  /\ UNCHANGED <<history, sentTo, stage, app, tui, call, loaded, doubled, loads>>

-----------------------------------------------------------------------------
(* The stream's task (start_stream, stream_session_events) *)

StreamOpens ==
  /\ stream.session # None /\ ~stream.open
  /\ stream' = [stream EXCEPT !.open = TRUE]
  /\ UNCHANGED <<runtime, app, queue, tui, call, ghosts, bounds>>

\* The connection breaks: it is opened again a second later, and the transcript is not
\* loaded again.
StreamBreaks ==
  /\ stream.open /\ faults < MaxFaults
  /\ faults' = faults + 1
  /\ stream' = [stream EXCEPT !.open = FALSE]
  /\ StreamEnds
  /\ UNCHANGED <<runtime, app, tui, call, loaded, doubled, loads>>

-----------------------------------------------------------------------------
(* Loading a session: GET /sessions/{id}, then start_stream *)

Load(s, draft, fatal) ==
  /\ loads < MaxLoads /\ loads' = loads + 1
  /\ tui' = "fetch"
  /\ call' = [Idle EXCEPT !.session = s, !.draft = draft, !.fatal = fatal]

\* The answer is made from the history as it is now ...
Fetch ==
  /\ tui = "fetch" /\ call.session \in known
  /\ tui' = "show"
  /\ call' = [call EXCEPT !.fetched = history[call.session]]
  /\ UNCHANGED <<runtime, app, network, ghosts, bounds>>

\* The client ends, and all that it holds.
Exit ==
  /\ tui' = "quit" /\ call' = Idle
  /\ list' = {} /\ selected' = None /\ transcript' = <<>> /\ ignore' = None
  /\ stream' = [session |-> None, open |-> FALSE] /\ queue' = <<>>
  /\ loaded' = None /\ missed' = {} /\ doubled' = {}

\* ... or the call fails. Only bootstrap and the reload key take that; the error of
\* any other key ends the client (handle_key's `?` in run).
FetchFails ==
  /\ tui = "fetch"
  /\ \/ call.session \notin known /\ UNCHANGED faults
     \/ faults < MaxFaults /\ faults' = faults + 1
  /\ \/ call.fatal /\ Exit
     \/ ~call.fatal /\ tui' = "idle" /\ call' = Idle /\ UNCHANGED <<app, network, ghosts>>
  /\ UNCHANGED <<runtime, loads>>

Announced(t) ==
  /\ sentTo[t] # None
  /\ \E i \in 1..stage[t] : Script[t][i] = "completed"

\* Entries that a turn's answer can be read from.
AnswersIn(entries) ==
  {t \in Turns : \E i \in DOMAIN entries :
     /\ Contains(entries[i].of, t)
     /\ \/ entries[i].role = "assistant"
        \/ entries[i].role = "tool" /\ Kind[t].tool = Kind[t].text}

\* The transcript is the fetched history, and a new stream takes the place of the
\* old one, whose received events stay in the queue.
ShowLoaded ==
  /\ transcript' = call.fetched
  /\ stream' = [session |-> call.session, open |-> FALSE]
  /\ \E n \in 0..Len(queue) : queue' = SubSeq(queue, 1, n)
  /\ selected' = call.session
  /\ list' = list \cup {call.session}
  /\ loaded' = call.session
  /\ missed' = {t \in Turns : /\ Announced(t) /\ sentTo[t] = call.session
                              /\ t \notin AnswersIn(call.fetched) \cup Announcements(queue')}
  /\ doubled' = AnswersIn(call.fetched) \cap Announcements(queue')
  /\ tui' = IF call.draft = None THEN "idle" ELSE "send"
  /\ call' = [Idle EXCEPT !.draft = call.draft]
  /\ UNCHANGED <<runtime, bounds>>

\* Mutant: what is to be ignored outlives the transcript it was in.
Show_StillIgnores == tui = "show" /\ ShowLoaded /\ UNCHANGED ignore

\* Mutant: the history is added to what is shown.
Show_Appends ==
  /\ tui = "show" /\ ignore' = None
  /\ transcript' = transcript \o call.fetched
  /\ stream' = [session |-> call.session, open |-> FALSE]
  /\ selected' = call.session /\ list' = list \cup {call.session} /\ loaded' = call.session
  /\ tui' = IF call.draft = None THEN "idle" ELSE "send"
  /\ call' = [Idle EXCEPT !.draft = call.draft]
  /\ UNCHANGED <<runtime, queue, missed, doubled, bounds>>

Show == tui = "show" /\ ShowLoaded /\ ignore' = None

-----------------------------------------------------------------------------
(* Keys and refreshes *)

\* Mutant: an empty list leaves the selection.
SyncSelection_Keeps ==
  IF list' = {} \/ selected \in list'
  THEN UNCHANGED <<selected, transcript, loaded>>
  ELSE selected' \in list' /\ UNCHANGED <<transcript, loaded>>

\* The selection follows the list. A session selected here is not loaded: transcript
\* and stream stay those of the session before.
SyncSelection ==
  \/ list' = {} /\ selected' = None /\ transcript' = <<>> /\ loaded' = None
  \/ list' # {} /\ selected \in list' /\ UNCHANGED <<selected, transcript, loaded>>
  \/ list' # {} /\ selected \notin list' /\ selected' \in list' /\ UNCHANGED <<transcript, loaded>>

\* bootstrap loads what it selects; if it finds no gateway the client starts without.
Bootstrap ==
  /\ tui = "boot"
  /\ \/ /\ list' = known
        /\ SyncSelection
        /\ IF selected' = None
           THEN tui' = "idle" /\ UNCHANGED <<call, loads>>
           ELSE Load(selected', None, FALSE)
        /\ UNCHANGED faults
     \/ /\ faults < MaxFaults /\ faults' = faults + 1
        /\ tui' = "idle"
        /\ UNCHANGED <<list, selected, transcript, loaded, call, loads>>
  /\ UNCHANGED <<runtime, ignore, network, missed, doubled>>

\* Every five seconds, and when it is asked for.
RefreshOverview ==
  /\ tui = "idle" /\ list # known
  /\ list' = known
  /\ SyncSelection
  /\ UNCHANGED <<runtime, ignore, network, tui, call, missed, doubled, bounds>>

\* The keys up, down and r.
MoveSelection(s) ==
  /\ tui = "idle" /\ s \in list \ {selected}
  /\ Load(s, None, TRUE)
  /\ UNCHANGED <<runtime, app, network, ghosts, faults>>

Reload ==
  /\ tui = "idle" /\ selected # None
  /\ Load(selected, None, FALSE)
  /\ UNCHANGED <<runtime, app, network, ghosts, faults>>

\* The key n, and Enter when no session is selected: POST /sessions, then load it.
CreateSession(s, draft) ==
  /\ tui = "idle" /\ s \notin known /\ s \notin Unstored
  /\ draft # None => selected = None /\ status[draft] = "none"
  /\ known' = known \cup {s} /\ list' = list \cup {s}
  /\ Load(s, draft, TRUE)
  /\ UNCHANGED <<history, sentTo, status, stage, selected, transcript, ignore,
                 network, ghosts, faults>>

\* A failing call of these, or the key q, ends the client; the stream's task is aborted.
Quit ==
  /\ tui = "idle"
  /\ Exit
  /\ UNCHANGED <<runtime, bounds>>

\* Enter: the message is shown, then sent; an error is shown after it.
SubmitInput(t) ==
  /\ \/ tui = "idle" /\ selected # None
     \/ tui = "send" /\ t = call.draft
  /\ Submit(t, selected)
  /\ transcript' = transcript \o
       (IF status'[t] = "running" THEN <<Entry("user", t, FALSE)>>
        ELSE <<Entry("user", t, FALSE), Entry("error", t, FALSE)>>)
  /\ tui' = "idle" /\ call' = Idle
  /\ UNCHANGED <<known, stage, list, selected, ignore, network, ghosts, bounds>>

-----------------------------------------------------------------------------
(* Events (handle_network_event, apply_assistant_event) *)

Push(role, t, pending) == transcript' = Append(transcript, Entry(role, t, pending))

\* An assistant entry that is still growing: it takes the next chunk or answer.
Growing ==
  transcript # <<>> /\ Last(transcript).role = "assistant" /\ Last(transcript).pending

PushChunk(t) ==
  IF Growing
  THEN transcript' = [transcript EXCEPT ![Len(transcript)].of = Append(@, t)]
  ELSE Push("assistant", t, TRUE)

Complete(t) ==
  IF Growing
  THEN transcript' = [transcript EXCEPT ![Len(transcript)] = Entry("assistant", t, FALSE)]
  ELSE Push("assistant", t, FALSE)

\* An answer that repeats the last tool output is not shown again; the mark stays until
\* such an answer comes, or a session is loaded.
ApplyCompleted(t) ==
  IF ignore = Kind[t].text
  THEN ignore' = None /\ UNCHANGED transcript
  ELSE Complete(t) /\ UNCHANGED ignore

ApplyHere(e) ==
  \/ e.kind = "tool_completed" /\ Push("tool", e.of, FALSE)  /\ ignore' = Kind[e.of].tool
  \/ e.kind = "chunk"          /\ PushChunk(e.of)            /\ UNCHANGED ignore
  \/ e.kind = "completed"      /\ ApplyCompleted(e.of)
  \/ e.kind = "error"          /\ Push("error", e.of, FALSE) /\ UNCHANGED ignore

\* Mutant: an event is applied whatever session it is of.
Apply_AnySession(e) == ApplyHere(e) /\ UNCHANGED missed

\* Events of a session that is not selected any more are dropped.
Apply(e) ==
  IF sentTo[e.of] = selected
  THEN ApplyHere(e) /\ UNCHANGED missed
  ELSE UNCHANGED <<transcript, ignore>> /\ missed' = missed \cup Lost(<<e>>, <<>>)

HandleEvent ==
  /\ tui = "idle" /\ queue # <<>>
  /\ queue' = Tail(queue)
  /\ Apply(Head(queue))
  /\ UNCHANGED <<runtime, list, selected, stream, tui, call, loaded, doubled, bounds>>

-----------------------------------------------------------------------------

\* The model ends with the client.
Next ==
  /\ tui # "quit"
  /\ \/ \E t \in Turns :
          TurnStep(t) \/ TurnFails(t) \/ OtherClientSubmits(t) \/ SubmitInput(t)
     \/ \E s \in Sessions :
          \/ OtherClientCreates(s) \/ MoveSelection(s)
          \/ \E draft \in Turns \cup {None} : CreateSession(s, draft)
     \/ GatewayRestarts \/ StreamOpens \/ StreamBreaks
     \/ Fetch \/ FetchFails \/ Show
     \/ Bootstrap \/ RefreshOverview \/ Reload \/ Quit
     \/ HandleEvent

Spec == Init /\ [][Next]_vars

-----------------------------------------------------------------------------
(* Properties *)

\* Types; the selected session is always one of the list (sync_selection,
\* replace_or_insert_session), and only what is in use has a stream.
TypeOK ==
  /\ known \subseteq Sessions
  /\ sentTo \in [Turns -> Sessions \cup {None}]
  /\ status \in [Turns -> {"none", "running", "done", "failed", "dead", "refused"}]
  /\ stage \in [Turns -> 0..6]
  /\ list \subseteq Sessions /\ selected \in list \cup {None}
  /\ ignore \in Contents \cup {None}
  /\ stream \in [session : Sessions \cup {None}, open : BOOLEAN]
  /\ tui \in {"boot", "idle", "fetch", "show", "send", "quit"}
  /\ loaded \in Sessions \cup {None}

\* The transcript of a session that was loaded holds nothing of another one, although
\* events of the last session may still be queued (apply_assistant_event).
TranscriptOwn ==
  selected = loaded =>
    \A i \in DOMAIN transcript : \A t \in ToSet(transcript[i].of) :
      sentTo[t] = selected

\* An answer is shown once, unless it was loaded while its event was still queued.
ShownOnce ==
  \A t \in Turns \ doubled :
    Cardinality({i \in DOMAIN transcript :
                   transcript[i] = Entry("assistant", t, FALSE)}) <= 1

\* The transcript repeats in a tool's entry what the answer says.
SaidByTool(t) ==
  \E i \in DOMAIN transcript :
    /\ transcript[i].role = "tool"
    /\ Kind[Head(transcript[i].of)].tool = Kind[t].text

\* Every answer announced in the loaded session is shown or on its way, unless the
\* stream was not there for it, broke, lagged or was replaced, or the history was
\* fetched before the answer was appended. An answer that says what a tool said before is
\* left out (complete_assistant_message, ignore_completed_content, load_selected_session).
AnswerAccounted ==
  selected = loaded /\ tui = "idle" =>
    \A t \in Turns : Announced(t) /\ sentTo[t] = selected =>
      \/ t \in AnswersIn(transcript)
      \/ t \in Announcements(queue)
      \/ t \in missed
      \/ SaidByTool(t)

-----------------------------------------------------------------------------
(* The inductive invariant behind the safety properties (TuiProofs) *)

Entries ==
  [role : {"user", "error", "call", "tool", "assistant"}, of : Seq(Turns), pending : BOOLEAN]

Events == [kind : {"tool_completed", "chunk", "completed", "error"}, of : Turns]

\* TypeOK for all of the state.
TypeInv ==
  /\ TypeOK
  /\ history \in [Sessions -> Seq(Entries)] /\ transcript \in Seq(Entries)
  /\ queue \in Seq(Events)
  /\ call \in [session : Sessions \cup {None}, draft : Turns \cup {None}, fatal : BOOLEAN,
              fetched : Seq(Entries)]

\* A turn runs from the moment its message is sent to a session until its script ends.
TurnInv ==
  \A t \in Turns :
    /\ sentTo[t] = None <=> status[t] = "none"
    /\ status[t] \in {"none", "refused"} => stage[t] = 0
    /\ status[t] = "running" => stage[t] < Len(Script[t])

\* A session that the client names exists, or was lost in a restart of the gateway. The
\* session of the transcript is the stream's; while another is selected it is gone.
SelectInv ==
  /\ list \cup ({loaded} \ {None}) \subseteq known \cup Unstored
  /\ tui \in {"fetch", "show"} => call.session \in known \cup Unstored
  /\ tui = "send" => selected # None
  /\ loaded \in {None, stream.session}
  /\ selected = None => loaded = None /\ transcript = <<>>
  /\ loaded \notin {None, selected} => loaded \notin list \cup known

\* Entries are of messages sent to s.
Own(entries, s) ==
  \A i \in DOMAIN entries : \A t \in ToSet(entries[i].of) : sentTo[t] = s

\* TranscriptOwn, and that histories, copies of them and events hold to their sessions.
OwnInv ==
  /\ \A s \in Sessions : Own(history[s], s)
  /\ tui = "show" => Own(call.fetched, call.session)
  /\ \A i \in DOMAIN queue : sentTo[queue[i].of] # None
  /\ TranscriptOwn

Answer(t) == Entry("assistant", t, FALSE)

\* At most one entry, or one event, holds the answer of a turn.
Single(entries) ==
  \A i, j \in DOMAIN entries : \A t \in Turns :
    entries[i] = Answer(t) /\ entries[j] = Answer(t) => i = j

SingleEvents(events) ==
  \A i, j \in DOMAIN events :
    events[i].kind = "completed" /\ events[j].kind = "completed" /\ events[i].of = events[j].of
    => i = j

Finished(entries) == \A i \in DOMAIN entries : ~entries[i].pending

\* An answer is announced once, then kept once. A copy of the history holds it once.
AnswerInv ==
  /\ SingleEvents(queue)
  /\ \A t \in Turns : t \in Announcements(queue) => Announced(t)
  /\ \A s \in Sessions :
       /\ Single(history[s]) /\ Finished(history[s])
       /\ \A t \in Turns : Answer(t) \in ToSet(history[s]) => Announced(t) /\ status[t] # "running"
  /\ tui = "show" =>
       /\ Single(call.fetched) /\ Finished(call.fetched)
       /\ \A t \in Turns : Answer(t) \in ToSet(call.fetched) => Announced(t)

\* An answer is shown once, and only after its event has left the queue.
ShownInv ==
  \A t \in Turns :
    /\ Answer(t) \in ToSet(transcript) => Announced(t)
    /\ t \notin doubled =>
         /\ Answer(t) \in ToSet(transcript) => t \notin Announcements(queue)
         /\ \A i, j \in DOMAIN transcript :
              transcript[i] = Answer(t) /\ transcript[j] = Answer(t) => i = j

\* Answers in entries that no event will change; the chunks of an entry that is still
\* growing are replaced by the answer of whichever turn completes it.
Settled(entries) ==
  {t \in Turns : \E i \in DOMAIN entries :
     /\ ~entries[i].pending /\ Contains(entries[i].of, t)
     /\ \/ entries[i].role = "assistant"
        \/ entries[i].role = "tool" /\ Kind[t].tool = Kind[t].text}

\* AnswerAccounted while the client is busy too, and what makes leaving an answer out
\* right: the text to ignore is that of a tool's entry in the transcript.
AccountInv ==
  selected = loaded =>
    /\ \A t \in Turns : Announced(t) /\ sentTo[t] = selected =>
         \/ t \in Settled(transcript) \cup Announcements(queue) \cup missed
         \/ SaidByTool(t)
    /\ ignore # None /\ selected # None =>
         \E i \in DOMAIN transcript :
           /\ transcript[i].role = "tool" /\ ~transcript[i].pending
           /\ Kind[Head(transcript[i].of)].tool = ignore

=============================================================================
