------------------------------- MODULE Weixin -------------------------------
(***************************************************************************)
(* The Weixin connector (crates/goldclaw-connector-weixin): the login by   *)
(* QR code, the polling of updates from a cursor kept in a file, and the   *)
(* handling of a batch.                                                    *)
(*                                                                         *)
(* The channel keeps its updates in order and delivers those after the     *)
(* cursor it is given, the whole history for none.  run_once saves the     *)
(* cursor of a batch before it handles the batch, one update after the     *)
(* other, and leaves the batch at the first error.  fs::write truncates a  *)
(* file before it fills it: a process that dies in between leaves an empty *)
(* one.  A response need not carry a cursor: then the file stays as it is, *)
(* or is emptied, and the batch is handled all the same.  Two processes    *)
(* use the files: `connector weixin run`, and `connector weixin login`     *)
(* from another terminal.                                                  *)
(*                                                                         *)
(* What submit and the wait for the reply do is Connector's matter: here   *)
(* they succeed, fail or never return.                                     *)
(***************************************************************************)
EXTENDS Naturals, Sequences, FiniteSets

CONSTANTS
  Updates,        \* what arrives on the channel: a sequence of Update
  Own,            \* the user_id of the account
  BatchLimit,     \* updates in one response
  MaxAccounts,    \* bound on confirmed QR codes
  MaxPollErrors,  \* bound on failed polls and logins
  MaxErrors,      \* bound on updates whose handling fails
  MaxBlanks,      \* bound on responses without a get_updates_buf, or with an empty one
  MaxCrashes,     \* bound on deaths of the processes
  Torn            \* a file that was truncated and not filled

Item   == [type : {"text", "voice", "image"}, text : {"word", "blank", "absent"}]
Update == [from : STRING, bot : BOOLEAN, items : Seq(Item)]

ASSUME WeixinAssumption ==
  /\ Updates \in Seq(Update)
  /\ Own \in STRING
  /\ BatchLimit \in Nat \ {0}
  /\ {MaxAccounts, MaxPollErrors, MaxErrors, MaxBlanks, MaxCrashes} \subseteq Nat
  /\ Torn \notin 0..MaxAccounts

VARIABLES
  arrived,     \* the channel has the updates 1..arrived
  confirmed,   \* how many QR codes the user has confirmed: accounts are 1..confirmed
  accountFile, \* account.json: an account, 0 when there is none, or Torn
  cursorFile,  \* sync_cursor.txt: the last update it covers, 0 when empty or missing
  login,       \* login[p]: where process p is in login
  scanned,     \* scanned[p]: the account that p's login got, 0 for none
  run,         \* where `connector weixin run` is
  held,        \* the account it was started with
  next, last,  \* the updates of its batch still to handle: next..last
  fresh,       \* the response with the batch came with a cursor
  submitted,   \* submitted[u]: how often update u was submitted to the runtime
  order,       \* updates in the order of their submission
  replied,     \* updates whose reply was sent
  resets,      \* how often the cursor was lost while it was written
  blanks,      \* how many responses came without a cursor
  pollErrors, errors, crashes

files     == <<accountFile, cursorFile>>
loginVars == <<confirmed, login, scanned>>
batch     == <<next, last, fresh>>
history   == <<submitted, order, replied>>
counters  == <<resets, blanks, pollErrors, errors, crashes>>
vars == <<arrived, files, loginVars, run, held, batch, history, counters>>

U == 1..Len(Updates)
Procs == {"run", "cli"}
Accounts == 1..MaxAccounts

RunPc   == {"off", "login", "poll", "fetched", "writing", "handle", "await", "sleep"}
LoginPc == {"idle", "ask", "scan", "save", "writing"}

TypeOK ==
  /\ arrived \in 0..Len(Updates)
  /\ confirmed \in 0..MaxAccounts
  /\ accountFile \in 0..MaxAccounts \cup {Torn}
  /\ cursorFile \in 0..Len(Updates)
  /\ login \in [Procs -> LoginPc]
  /\ scanned \in [Procs -> 0..MaxAccounts]
  /\ run \in RunPc
  /\ held \in 0..confirmed
  /\ run \notin {"off", "login"} => held > 0
  /\ next \in 1..Len(Updates) + 1
  /\ last \in 0..Len(Updates)
  /\ fresh \in BOOLEAN
  /\ submitted \in [U -> Nat]
  /\ order \in Seq(U)
  /\ replied \subseteq U
  /\ resets \in Nat
  /\ pollErrors \in 0..MaxPollErrors
  /\ errors \in 0..MaxErrors
  /\ blanks \in 0..MaxBlanks
  /\ crashes \in 0..MaxCrashes

Init ==
  /\ arrived = 0
  /\ confirmed = 0
  /\ accountFile = 0
  /\ cursorFile = 0
  /\ login = [p \in Procs |-> "idle"]
  /\ scanned = [p \in Procs |-> 0]
  /\ run = "off"
  /\ held = 0
  /\ next = 1
  /\ last = 0
  /\ fresh = TRUE
  /\ submitted = [u \in U |-> 0]
  /\ order = <<>>
  /\ replied = {}
  /\ resets = 0
  /\ pollErrors = 0
  /\ errors = 0
  /\ blanks = 0
  /\ crashes = 0

\* Another user, or the account's own device, sends an update.
Arrive ==
  /\ arrived < Len(Updates)
  /\ arrived' = arrived + 1
  /\ UNCHANGED <<files, loginVars, run, held, batch, history, counters>>

-----------------------------------------------------------------------------
(* Login *)

\* `connector weixin login` always asks for a new QR code (force).
LoginForced ==
  /\ login["cli"] = "idle"
  /\ login' = [login EXCEPT !["cli"] = "ask"]
  /\ UNCHANGED <<arrived, files, confirmed, scanned, run, held, batch, history, counters>>

\* ensure_logged_in of `connector weixin run`: a saved account is used as it is, a
\* missing one asked for, and a file that cannot be parsed ends the command.
EnsureLoggedIn ==
  /\ run = "login"
  /\ login["run"] = "idle"
  /\ \/ /\ accountFile \in Accounts
        /\ run' = "poll"
        /\ held' = accountFile
        /\ UNCHANGED login
     \/ /\ accountFile = 0
        /\ login' = [login EXCEPT !["run"] = "ask"]
        /\ UNCHANGED <<run, held>>
     \/ /\ accountFile = Torn
        /\ run' = "off"
        /\ UNCHANGED <<held, login>>
  /\ UNCHANGED <<arrived, files, confirmed, scanned, batch, history, counters>>

\* The login of p ends with an error, and the command with it.
LoginError(p) ==
  /\ login' = [login EXCEPT ![p] = "idle"]
  /\ scanned' = [scanned EXCEPT ![p] = 0]
  /\ run' = IF p = "run" THEN "off" ELSE run

\* start_login gets a QR code to show.
TicketIssued(p) ==
  /\ login[p] = "ask"
  /\ login' = [login EXCEPT ![p] = "scan"]
  /\ UNCHANGED <<arrived, files, confirmed, scanned, run, held, batch, history, counters>>

\* wait_for_login: the user confirms, and the next status says so.
Confirmed(p) ==
  /\ login[p] = "scan"
  /\ confirmed < MaxAccounts
  /\ confirmed' = confirmed + 1
  /\ scanned' = [scanned EXCEPT ![p] = confirmed + 1]
  /\ login' = [login EXCEPT ![p] = "save"]
  /\ UNCHANGED <<arrived, files, run, held, batch, history, counters>>

\* A request fails, the code expires, the status comes without a token, or the
\* account cannot be saved.
LoginFails(p) ==
  /\ login[p] # "idle"
  /\ pollErrors < MaxPollErrors
  /\ pollErrors' = pollErrors + 1
  /\ LoginError(p)
  /\ UNCHANGED <<arrived, files, confirmed, held, batch, history,
                 resets, errors, blanks, crashes>>

\* Mutant: the loop of wait_for_login has no deadline.
LoginTimesOut_Never(p) == FALSE /\ UNCHANGED vars

\* wait_for_login: the deadline has passed when the loop comes round.
LoginTimesOut(p) ==
  /\ login[p] = "scan"
  /\ LoginError(p)
  /\ UNCHANGED <<arrived, files, confirmed, held, batch, history, counters>>

\* save_account: fs::write truncates account.json ...
SaveAccountBegins(p) ==
  /\ login[p] = "save"
  /\ accountFile' = Torn
  /\ login' = [login EXCEPT ![p] = "writing"]
  /\ UNCHANGED <<arrived, cursorFile, confirmed, scanned, run, held, batch,
                 history, counters>>

\* Mutant: run goes on with what it had before the login.
SaveAccountEnds_NotHeld(p) ==
  /\ login[p] = "writing"
  /\ accountFile' = scanned[p]
  /\ login' = [login EXCEPT ![p] = "idle"]
  /\ scanned' = [scanned EXCEPT ![p] = 0]
  /\ IF p = "run" THEN run' = "poll" /\ UNCHANGED held ELSE UNCHANGED <<run, held>>
  /\ UNCHANGED <<arrived, cursorFile, confirmed, batch, history, counters>>

\* ... and fills it.
SaveAccountEnds(p) ==
  /\ login[p] = "writing"
  /\ accountFile' = scanned[p]
  /\ login' = [login EXCEPT ![p] = "idle"]
  /\ scanned' = [scanned EXCEPT ![p] = 0]
  /\ IF p = "run" THEN run' = "poll" /\ held' = scanned[p] ELSE UNCHANGED <<run, held>>
  /\ UNCHANGED <<arrived, cursorFile, confirmed, batch, history, counters>>

-----------------------------------------------------------------------------
(* Polling *)

Polling == run \notin {"off", "login"}

\* extract_text: the text and voice items that say something.
TextOf(items) ==
  SelectSeq(items, LAMBDA item : item.type \in {"text", "voice"} /\ item.text = "word")

\* handle_message submits what another user says; anything else it ignores.
Addressed(u) ==
  /\ ~Updates[u].bot
  /\ Updates[u].from \notin {"", Own}
  /\ TextOf(Updates[u].items) # <<>>

LeaveBatch == next' = 1 /\ last' = 0 /\ fresh' = TRUE

Start ==
  /\ run = "off"
  /\ run' = "login"
  /\ held' = 0
  /\ UNCHANGED <<arrived, files, loginVars, batch, history, counters>>

\* Mutant: the first update after the cursor is left out.
NextBatch_SkipsOne ==
  /\ next' = IF cursorFile < arrived THEN cursorFile + 2 ELSE cursorFile + 1
  /\ \E n \in 0..BatchLimit :
       /\ last' = cursorFile + n
       /\ last' <= arrived
       /\ n < BatchLimit => last' = arrived

\* The channel's answer to the cursor on file: as many updates as there are, up to
\* the limit.
NextBatch ==
  /\ next' = cursorFile + 1
  /\ \E n \in 0..BatchLimit :
       /\ last' = cursorFile + n
       /\ last' <= arrived
       /\ n < BatchLimit => last' = arrived

\* get_updates returns updates and the cursor after them.
Fetch ==
  /\ run = "poll"
  /\ NextBatch
  /\ fresh' = TRUE
  /\ run' = "fetched"
  /\ UNCHANGED <<arrived, files, loginVars, held, history, counters>>

\* The response has no get_updates_buf, and none is saved, or an empty one, which
\* is saved like any other.  Its updates are handled as well.
FetchBlank ==
  /\ run = "poll"
  /\ blanks < MaxBlanks
  /\ blanks' = blanks + 1
  /\ NextBatch
  /\ fresh' = FALSE
  /\ run' \in {"handle", "fetched"}
  /\ UNCHANGED <<arrived, files, loginVars, held, history,
                 resets, pollErrors, errors, crashes>>

\* get_updates fails or outlasts poll_timeout.
FetchFails ==
  /\ run = "poll"
  /\ pollErrors < MaxPollErrors
  /\ pollErrors' = pollErrors + 1
  /\ run' = "sleep"
  /\ UNCHANGED <<arrived, files, loginVars, held, batch, history,
                 resets, errors, blanks, crashes>>

\* save_cursor: fs::write truncates sync_cursor.txt ...
SaveCursorBegins ==
  /\ run = "fetched"
  /\ cursorFile' = 0
  /\ run' = "writing"
  /\ UNCHANGED <<arrived, accountFile, loginVars, held, batch, history, counters>>

\* Mutant: what is saved is the cursor of the request.
SaveCursorEnds_Stale ==
  /\ run = "writing"
  /\ cursorFile' = next - 1
  /\ run' = "handle"
  /\ UNCHANGED <<arrived, accountFile, loginVars, held, batch, history, counters>>

\* ... and fills it; load_cursor takes an empty file for none.
SaveCursorEnds ==
  /\ run = "writing"
  /\ cursorFile' = IF fresh THEN last ELSE 0
  /\ run' = "handle"
  /\ UNCHANGED <<arrived, accountFile, loginVars, held, batch, history, counters>>

\* The file cannot be opened, or not be filled: the batch is not handled.
SaveCursorFails ==
  /\ run \in {"fetched", "writing"}
  /\ errors < MaxErrors
  /\ errors' = errors + 1
  /\ resets' = IF run = "writing" THEN resets + 1 ELSE resets
  /\ run' = "sleep"
  /\ LeaveBatch
  /\ UNCHANGED <<arrived, files, loginVars, held, history,
                 pollErrors, blanks, crashes>>

Ignore ==
  /\ run = "handle"
  /\ next <= last
  /\ ~Addressed(next)
  /\ next' = next + 1
  /\ UNCHANGED <<arrived, files, loginVars, run, held, last, fresh, history, counters>>

Deliver(u) ==
  /\ submitted' = [submitted EXCEPT ![u] = @ + 1]
  /\ order' = Append(order, u)

\* POST /messages, and its receipt.
Submit ==
  /\ run = "handle"
  /\ next <= last
  /\ Addressed(next)
  /\ Deliver(next)
  /\ run' = "await"
  /\ UNCHANGED <<arrived, files, loginVars, held, batch, replied, counters>>

\* Mutant: an update that fails is tried again with the rest of its batch.
SubmitFails_Retried ==
  /\ run = "handle"
  /\ next <= last
  /\ Addressed(next)
  /\ errors < MaxErrors
  /\ errors' = errors + 1
  /\ Deliver(next) \/ UNCHANGED <<submitted, order>>
  /\ UNCHANGED <<arrived, files, loginVars, run, held, batch, replied,
                 resets, pollErrors, blanks, crashes>>

\* The submission fails, recorded by the runtime or not: the batch is left.
SubmitFails ==
  /\ run = "handle"
  /\ next <= last
  /\ Addressed(next)
  /\ errors < MaxErrors
  /\ errors' = errors + 1
  /\ Deliver(next) \/ UNCHANGED <<submitted, order>>
  /\ run' = "sleep"
  /\ LeaveBatch
  /\ UNCHANGED <<arrived, files, loginVars, held, replied,
                 resets, pollErrors, blanks, crashes>>

\* The reply is found and sent with the context_token of the update.
Reply ==
  /\ run = "await"
  /\ replied' = replied \cup {next}
  /\ next' = next + 1
  /\ run' = "handle"
  /\ UNCHANGED <<arrived, files, loginVars, held, last, fresh, submitted, order, counters>>

\* No reply in time, or it cannot be sent: the batch is left.
ReplyFails ==
  /\ run = "await"
  /\ errors < MaxErrors
  /\ errors' = errors + 1
  /\ run' = "sleep"
  /\ LeaveBatch
  /\ UNCHANGED <<arrived, files, loginVars, held, history,
                 resets, pollErrors, blanks, crashes>>

BatchDone ==
  /\ run = "handle"
  /\ next > last
  /\ run' = "poll"
  /\ LeaveBatch
  /\ UNCHANGED <<arrived, files, loginVars, held, history, counters>>

\* Mutant: an error ends run_forever instead of being waited out.
Wake_GivesUp ==
  /\ run = "sleep"
  /\ run' = "off"
  /\ UNCHANGED <<arrived, files, loginVars, held, batch, history, counters>>

\* run_forever sleeps for retry_delay after an error and polls again.
Wake ==
  /\ run = "sleep"
  /\ run' = "poll"
  /\ UNCHANGED <<arrived, files, loginVars, held, batch, history, counters>>

\* The process is killed; what it was writing is lost with it.
Die(p) ==
  /\ crashes < MaxCrashes
  /\ IF p = "run" THEN run # "off" ELSE login[p] # "idle"
  /\ crashes' = crashes + 1
  /\ LoginError(p)
  /\ IF p = "run"
     THEN /\ resets' = IF run = "writing" THEN resets + 1 ELSE resets
          /\ LeaveBatch
     ELSE UNCHANGED <<resets, batch>>
  /\ UNCHANGED <<arrived, files, confirmed, held, history,
                 pollErrors, errors, blanks>>

-----------------------------------------------------------------------------

LoginStep(p) ==
  \/ TicketIssued(p) \/ Confirmed(p) \/ LoginFails(p)
  \/ SaveAccountBegins(p) \/ SaveAccountEnds(p)

PollStep ==
  \/ Fetch \/ FetchFails \/ FetchBlank
  \/ SaveCursorBegins \/ SaveCursorEnds \/ SaveCursorFails
  \/ Ignore \/ Submit \/ SubmitFails \/ Reply \/ ReplyFails \/ BatchDone
  \/ Wake

Next ==
  \/ Arrive
  \/ Start \/ EnsureLoggedIn \/ LoginForced
  \/ \E p \in Procs : LoginStep(p) \/ LoginTimesOut(p) \/ Die(p)
  \/ PollStep

Spec == Init /\ [][Next]_vars

\* The steps that end by themselves: get_updates has poll_timeout, a file is
\* written, retry_delay passes.
OwnStep ==
  \/ Fetch \/ FetchBlank \/ FetchFails
  \/ SaveCursorBegins \/ SaveCursorEnds \/ SaveCursorFails
  \/ Ignore \/ BatchDone \/ Wake

\* The connector's task is polled, and time passes: the status of a QR code is
\* asked for with a timeout until login_timeout.  That start_login, the calls of
\* the gateway or send_text return is not assumed: their clients have no timeout.
FairSpec ==
  /\ Spec
  /\ WF_vars(OwnStep)
  /\ \A p \in Procs :
       WF_vars(LoginTimesOut(p)) /\ WF_vars(SaveAccountBegins(p) \/ SaveAccountEnds(p))

-----------------------------------------------------------------------------
(* Properties *)

\* No update is submitted more often than once for each time that the cursor was
\* lost (a death or failure while the file was written) or did not come with the
\* response (no get_updates_buf, or an empty one), and once more: restarts, failed
\* polls and errors in the middle of a batch repeat nothing (run_once,
\* save_cursor).
AtMostOnce == \A u \in U : submitted[u] <= resets + blanks + 1

\* Updates are submitted in the order of the channel, as long as the cursor is
\* not lost and comes with every response (run_once).
InChannelOrder ==
  resets + blanks = 0 => \A i, j \in DOMAIN order : i < j => order[i] < order[j]

\* What the cursor covers, is addressed to the assistant and will never be
\* submitted: it is neither submitted nor in the batch being handled.
Lost ==
  {u \in 1..cursorFile : /\ Addressed(u)
                         /\ submitted[u] = 0
                         /\ run \in {"handle", "await"} => u \notin next..last}

\* One error or one death loses no more than a batch (run_once saves the cursor
\* first, and leaves the batch at the first error).
LossBounded == Cardinality(Lost) <= BatchLimit * (crashes + errors)

\* The connector waits for the gateway or for send_text, without a timeout.
Calls ==
  \/ run = "handle" /\ next <= last /\ Addressed(next)
  \/ run = "await"

\* While the connector polls, what users say is submitted, whatever polls and
\* updates fail, except what an error lost with its batch; unless a process dies
\* first, or a call of the gateway or of send_text never returns (run_forever,
\* run_once).
Delivered ==
  \A u \in U, n \in 0..MaxCrashes :
    Addressed(u) /\ u <= arrived /\ Polling /\ crashes = n ~>
      submitted[u] > 0 \/ u \in Lost \/ crashes > n \/ []Calls

\* A login ends, with an account or without, although the user never scans the
\* code, unless the request for the code never returns (login, wait_for_login).
LoginEnds ==
  \A p \in Procs : login[p] # "idle" ~> login[p] = "idle" \/ [](login[p] = "ask")

=============================================================================
