------------------------------- MODULE LspClient -------------------------------
(***************************************************************************)
(* The JSON-RPC client over a language server's stdio                      *)
(* (crates/henka-lsp/src/client.rs): callers that register a one-shot      *)
(* channel and write to stdin under a lock, one reader task that routes    *)
(* what comes back, and the broadcast of what the server sends of its own  *)
(* accord, from which an operation captures an edit pushed to it           *)
(* (execute_capturing_edit, crates/henka-lang-ts/src/operations.rs).       *)
(*                                                                         *)
(* A message is a record of its kind and the id of the request it belongs  *)
(* to (0: none).  The two pipes hold PipeRoom messages each.  The server   *)
(* is external: it reads requests, pushes the edit of a command before it  *)
(* answers it, answers in any order, and sends messages of its own.        *)
(* Faults says what may go wrong with it:                                  *)
(*   "dies"    the process exits: its stdout ends, writes to it fail       *)
(*   "garbles" it writes one frame the client cannot read                  *)
(*   "blocks"  it does not read stdin while its stdout is full             *)
(* The server's own messages are notifications and requests (for settings, *)
(* to register a capability), which the reader replies to at once.         *)
(***************************************************************************)
EXTENDS Integers, Sequences, FiniteSets

CONSTANTS
    Callers,      \* tasks that call the client
    Reader,       \* the reader task
    Nobody,       \* nobody holds the stdin lock
    MaxId,        \* bound: requests in a behaviour
    PipeRoom,     \* messages a pipe holds before a write to it blocks
    Capacity,     \* of the broadcast channel (256 in the code)
    MaxNotices,   \* bound: messages the server sends of its own accord
    Faults

ASSUME NamesAssumption  == Reader \notin Callers /\ Nobody \notin Callers \union {Reader}
ASSUME BoundsAssumption == /\ MaxId \in Nat /\ MaxNotices \in Nat
                           /\ PipeRoom \in Nat \ {0} /\ Capacity \in Nat \ {0}

VARIABLES
    stdin,     \* who holds the lock of the server's stdin
    next_id,   \* LspClient::next_id
    pending,   \* ids with a registered one-shot channel
    mail,      \* mail[id]: what was sent through the channel of id
    call,      \* call[c]: the call c is in
    reader,    \* the reader task: its step and the message in hand
    feed,      \* everything broadcast so far
    toServer, toClient,   \* the pipes
    alive,     \* the server process
    serving,   \* serving[id]: how far the server is with request id
    notices    \* notices sent so far

clientVars == <<stdin, next_id, pending, mail, call, reader, feed>>
serverVars == <<alive, serving, notices>>
vars       == <<clientVars, toServer, toClient, serverVars>>

-----------------------------------------------------------------------------
Ids == 1..MaxId

Msg(kind, id) == [kind |-> kind, id |-> id]

Messages == [kind : {"request", "command", "notify", "reply", "result", "error",
                     "applyEdit", "ask", "notice", "garbled"}, id : 0..MaxId]

(* step "registered": about to write; "unregister": its write failed;      *)
(* from: the broadcast position its subscription has read up to;           *)
(* edit: the request whose pushed edit it captured (0: none).              *)
Call == [step : {"idle", "registered", "writing", "awaiting", "unregister", "draining",
                 "done"},
         kind : {"request", "command", "notify"},
         id   : 0..MaxId,
         from : Nat,
         edit : 0..MaxId]

NoCall == [step |-> "idle", kind |-> "notify", id |-> 0, from |-> 0, edit |-> 0]

Goto(c, step) == call' = [call EXCEPT ![c].step = step]

Init ==
    /\ stdin = Nobody
    /\ next_id = 1
    /\ pending = {}
    /\ mail = [id \in Ids |-> "none"]
    /\ call = [c \in Callers |-> NoCall]
    /\ reader = [step |-> "reading", msg |-> Msg("notice", 0)]
    /\ feed = <<>>
    /\ toServer = <<>>
    /\ toClient = <<>>
    /\ alive = TRUE
    /\ serving = [id \in Ids |-> "unread"]
    /\ notices = 0

-----------------------------------------------------------------------------
(* A command that captures its edit runs under the session's request lock, *)
(* so nothing else is called meanwhile.                                    *)
Alone(c) == \A d \in Callers \ {c} : call[d].step = "idle"

MayCall(c) == /\ call[c].step = "idle"
              /\ \A d \in Callers : call[d].kind # "command"

(* request: take an id, register its channel.                              *)
request(c) ==
    /\ MayCall(c)
    /\ next_id <= MaxId
    /\ call' = [call EXCEPT ![c] =
                 [NoCall EXCEPT !.step = "registered", !.kind = "request", !.id = next_id]]
    /\ next_id' = next_id + 1
    /\ pending' = pending \union {next_id}
    /\ UNCHANGED <<stdin, mail, reader, feed, toServer, toClient, serverVars>>

(* execute_capturing_edit subscribes first, then makes its request.        *)
execute_capturing_edit(c) ==
    /\ MayCall(c)
    /\ Alone(c)
    /\ next_id <= MaxId
    /\ call' = [call EXCEPT ![c] =
                 [NoCall EXCEPT !.step = "registered", !.kind = "command", !.id = next_id,
                                !.from = Len(feed)]]
    /\ next_id' = next_id + 1
    /\ pending' = pending \union {next_id}
    /\ UNCHANGED <<stdin, mail, reader, feed, toServer, toClient, serverVars>>

notify(c) ==
    /\ MayCall(c)
    /\ next_id <= MaxId
    /\ call' = [call EXCEPT ![c] = [NoCall EXCEPT !.step = "registered"]]
    /\ UNCHANGED <<stdin, next_id, pending, mail, reader, feed, toServer, toClient,
                   serverVars>>

LockStdin(c) ==
    /\ call[c].step = "registered"
    /\ stdin = Nobody
    /\ stdin' = c
    /\ Goto(c, "writing")
    /\ UNCHANGED <<next_id, pending, mail, reader, feed, toServer, toClient, serverVars>>

(* The write waits, lock in hand, for room in the pipe.                    *)
write(c) ==
    /\ call[c].step = "writing"
    /\ alive
    /\ Len(toServer) < PipeRoom
    /\ toServer' = Append(toServer, Msg(call[c].kind, call[c].id))
    /\ stdin' = Nobody
    /\ IF call[c].kind = "notify" THEN Goto(c, "done") ELSE Goto(c, "awaiting")
    /\ UNCHANGED <<next_id, pending, mail, reader, feed, toClient, serverVars>>

WriteFails(c) ==
    /\ call[c].step = "writing"
    /\ ~alive
    /\ stdin' = Nobody
    /\ Goto(c, "unregister")
    /\ UNCHANGED <<next_id, pending, mail, reader, feed, toServer, toClient, serverVars>>

(* Mutant: the failed request stays in the table.                          *)
leave_registered(c) ==
    /\ call[c].step = "unregister"
    /\ Goto(c, "done")
    /\ UNCHANGED <<stdin, next_id, pending, mail, reader, feed, toServer, toClient, serverVars>>

Unregister(c) ==
    /\ call[c].step = "unregister"
    /\ pending' = pending \ {call[c].id}
    /\ Goto(c, "done")
    /\ UNCHANGED <<stdin, next_id, mail, reader, feed, toServer, toClient, serverVars>>

(* Mutant: the command's events are subscribed to once it was answered.    *)
subscribe_late(c) ==
    /\ call[c].step = "awaiting"
    /\ mail[call[c].id] # "none"
    /\ IF call[c].kind = "command" /\ mail[call[c].id] = "result"
       THEN call' = [call EXCEPT ![c].step = "draining", ![c].from = Len(feed)]
       ELSE Goto(c, "done")
    /\ UNCHANGED <<stdin, next_id, pending, mail, reader, feed, toServer, toClient,
                   serverVars>>

Receive(c) ==
    /\ call[c].step = "awaiting"
    /\ mail[call[c].id] # "none"
    /\ IF call[c].kind = "command" /\ mail[call[c].id] = "result"
       THEN Goto(c, "draining")
       ELSE Goto(c, "done")
    /\ UNCHANGED <<stdin, next_id, pending, mail, reader, feed, toServer, toClient,
                   serverVars>>

(* The subscription yields the broadcasts in order; one that lags more     *)
(* than Capacity behind loses the oldest.                                  *)
Oldest(c) == IF Len(feed) - call[c].from > Capacity
             THEN Len(feed) - Capacity ELSE call[c].from

Drain(c) ==
    /\ call[c].step = "draining"
    /\ Oldest(c) < Len(feed)
    /\ LET msg == feed[Oldest(c) + 1]
       IN  call' = [call EXCEPT ![c] =
                     IF msg.kind = "applyEdit"
                     THEN [@ EXCEPT !.step = "done", !.edit = msg.id]
                     ELSE [@ EXCEPT !.from = Oldest(c) + 1]]
    /\ UNCHANGED <<stdin, next_id, pending, mail, reader, feed, toServer, toClient,
                   serverVars>>

(* Five seconds without an edit: the operation goes on with an empty one.  *)
DrainTimeout(c) ==
    /\ call[c].step = "draining"
    /\ Oldest(c) = Len(feed)
    /\ Goto(c, "done")
    /\ UNCHANGED <<stdin, next_id, pending, mail, reader, feed, toServer, toClient,
                   serverVars>>

Finish(c) ==
    /\ call[c].step = "done"
    /\ call' = [call EXCEPT ![c] = NoCall]
    /\ UNCHANGED <<stdin, next_id, pending, mail, reader, feed, toServer, toClient,
                   serverVars>>

-----------------------------------------------------------------------------
(* handle_incoming: a response is sent through its channel, if that is     *)
(* still registered; a notification is broadcast; a request is replied to. *)
Respond(msg) ==
    /\ pending' = pending \ {msg.id}
    /\ mail' = IF msg.id \in pending THEN [mail EXCEPT ![msg.id] = msg.kind] ELSE mail

(* Mutant: whatever has an id is taken for a response.                     *)
respond_to_requests ==
    /\ reader.step = "reading"
    /\ toClient # <<>>
    /\ toClient' = Tail(toClient)
    /\ LET msg == Head(toClient)
       IN  IF msg.id # 0
           THEN Respond(msg) /\ UNCHANGED feed
           ELSE feed' = Append(feed, msg) /\ UNCHANGED <<pending, mail>>
    /\ UNCHANGED <<stdin, next_id, call, reader, toServer, serverVars>>

ReadMessage ==
    /\ reader.step = "reading"
    /\ toClient # <<>>
    /\ toClient' = Tail(toClient)
    /\ LET msg == Head(toClient)
       IN  \/ /\ msg.kind \in {"result", "error"}
              /\ Respond(msg)
              /\ UNCHANGED <<reader, feed>>
           \/ /\ msg.kind = "notice"
              /\ feed' = Append(feed, msg)
              /\ UNCHANGED <<reader, pending, mail>>
           \/ /\ msg.kind \in {"applyEdit", "ask"}
              /\ reader' = [step |-> "locking", msg |-> msg]
              /\ UNCHANGED <<feed, pending, mail>>
           \/ /\ msg.kind = "garbled"
              /\ reader' = [reader EXCEPT !.step = "failing"]
              /\ UNCHANGED <<feed, pending, mail>>
    /\ UNCHANGED <<stdin, next_id, call, toServer, serverVars>>

(* Mutant: the reader just stops at the end of the stream.                 *)
stop_at_end ==
    /\ reader.step = "reading"
    /\ toClient = <<>>
    /\ ~alive
    /\ reader' = [reader EXCEPT !.step = "gone"]
    /\ UNCHANGED <<stdin, next_id, pending, mail, call, feed, toServer, toClient, serverVars>>

EndOfStream ==
    /\ reader.step = "reading"
    /\ toClient = <<>>
    /\ ~alive
    /\ reader' = [reader EXCEPT !.step = "failing"]
    /\ UNCHANGED <<stdin, next_id, pending, mail, call, feed, toServer, toClient, serverVars>>

ReplyLock ==
    /\ reader.step = "locking"
    /\ stdin = Nobody
    /\ stdin' = Reader
    /\ reader' = [reader EXCEPT !.step = "replying"]
    /\ UNCHANGED <<next_id, pending, mail, call, feed, toServer, toClient, serverVars>>

(* The reply's own failure is ignored; then the request is broadcast.      *)
Reply ==
    /\ reader.step = "replying"
    /\ IF alive
       THEN /\ Len(toServer) < PipeRoom
            /\ toServer' = Append(toServer, Msg("reply", reader.msg.id))
       ELSE UNCHANGED toServer
    /\ stdin' = Nobody
    /\ feed' = Append(feed, reader.msg)
    /\ reader' = [reader EXCEPT !.step = "reading"]
    /\ UNCHANGED <<next_id, pending, mail, call, toClient, serverVars>>

(* The one time the outstanding requests are failed. *)
fail_pending ==
    /\ reader.step = "failing"
    /\ mail' = [id \in Ids |-> IF id \in pending THEN "closed" ELSE mail[id]]
    /\ pending' = {}
    /\ reader' = [reader EXCEPT !.step = "gone"]
    /\ UNCHANGED <<stdin, next_id, call, feed, toServer, toClient, serverVars>>

-----------------------------------------------------------------------------
(* The language server. *)

Room == Len(toClient) < PipeRoom

ServerReads ==
    /\ alive
    /\ toServer # <<>>
    /\ "blocks" \in Faults => Room
    /\ toServer' = Tail(toServer)
    /\ LET msg == Head(toServer)
       IN  serving' = IF msg.id = 0 THEN serving
                      ELSE [serving EXCEPT ![msg.id] =
                             IF msg.kind = "command" THEN "computing" ELSE "answering"]
    /\ UNCHANGED <<clientVars, toClient, alive, notices>>

(* A command's edit is pushed, and its reply awaited, before it is         *)
(* answered; a command may also turn out to have no edit.                  *)
ServerPushes(id) ==
    /\ alive /\ Room
    /\ serving[id] = "computing"
    /\ serving' = [serving EXCEPT ![id] = "pushed"]
    /\ toClient' = Append(toClient, Msg("applyEdit", id))
    /\ UNCHANGED <<clientVars, toServer, alive, notices>>

ServerAnswers(id) ==
    /\ alive /\ Room
    /\ \E kind \in {"result", "error"} :
        toClient' = Append(toClient, Msg(kind, id))
    /\ serving[id] \in {"answering", "computing"}
    /\ serving' = [serving EXCEPT ![id] = IF @ = "computing" THEN "editless" ELSE "answered"]
    /\ UNCHANGED <<clientVars, toServer, alive, notices>>

ServerNotifies ==
    /\ alive /\ Room
    /\ notices < MaxNotices
    /\ notices' = notices + 1
    /\ \E kind \in {"notice", "ask"} : toClient' = Append(toClient, Msg(kind, 0))
    /\ UNCHANGED <<clientVars, toServer, alive, serving>>

ServerGarbles ==
    /\ "garbles" \in Faults
    /\ alive /\ Room
    /\ notices < MaxNotices
    /\ notices' = notices + 1
    /\ toClient' = Append(toClient, Msg("garbled", 0))
    /\ UNCHANGED <<clientVars, toServer, alive, serving>>

ServerDies ==
    /\ "dies" \in Faults
    /\ alive
    /\ alive' = FALSE
    /\ UNCHANGED <<clientVars, toServer, toClient, serving, notices>>

CallSteps(c) ==
    \/ LockStdin(c) \/ write(c) \/ WriteFails(c) \/ Unregister(c) \/ Receive(c)
    \/ Drain(c) \/ DrainTimeout(c) \/ Finish(c)

ReaderSteps == ReadMessage \/ EndOfStream \/ ReplyLock \/ Reply \/ fail_pending

Next ==
    \/ \E c \in Callers : request(c) \/ execute_capturing_edit(c) \/ notify(c) \/ CallSteps(c)
    \/ ReaderSteps
    \/ ServerReads \/ ServerNotifies \/ ServerGarbles \/ ServerDies
    \/ \E id \in Ids : ServerPushes(id) \/ ServerAnswers(id)

Spec == Init /\ [][Next]_vars

(* Tasks that can run do; the stdin lock (tokio's Mutex is fair) is not    *)
(* withheld for ever; and a server that lives reads and answers.           *)
Fairness ==
    /\ \A c \in Callers : WF_vars(CallSteps(c)) /\ SF_vars(LockStdin(c))
    /\ WF_vars(ReaderSteps) /\ SF_vars(ReplyLock)
    /\ WF_vars(ServerReads)
    /\ \A id \in Ids : WF_vars(ServerPushes(id)) /\ SF_vars(ServerAnswers(id))

FairSpec == Spec /\ Fairness

-----------------------------------------------------------------------------
TypeOK ==
    /\ stdin \in Callers \union {Reader, Nobody}
    /\ next_id \in 1..(MaxId + 1)
    /\ pending \in SUBSET Ids
    /\ mail \in [Ids -> {"none", "result", "error", "closed"}]
    /\ call \in [Callers -> Call]
    /\ reader \in [step : {"reading", "locking", "replying", "failing", "gone"},
                   msg : Messages]
    /\ feed \in Seq(Messages)
    /\ toServer \in Seq(Messages)
    /\ toClient \in Seq(Messages)
    /\ alive \in BOOLEAN
    /\ serving \in [Ids -> {"unread", "computing", "pushed", "answering", "answered", "editless"}]
    /\ notices \in 0..MaxNotices

Asking(c) == call[c].kind # "notify" /\ call[c].step \in {"registered", "writing", "awaiting"}

(* The table of outstanding requests is exact, through failed writes, dead *)
(* servers and a reader that has stopped: an entry belongs to a call that  *)
(* is still out (none leaks), an unanswered call has its entry (none can   *)
(* be missed by fail_pending), and no two calls share one.                 *)
ChannelsExact ==
    /\ \A id \in pending :
        /\ mail[id] = "none"
        /\ \E c \in Callers : call[c].id = id /\ (Asking(c) \/ call[c].step = "unregister")
    /\ \A c \in Callers : Asking(c) => call[c].id \in pending \/ mail[call[c].id] # "none"
    /\ \A c, d \in Callers : Asking(c) /\ Asking(d) /\ call[c].id = call[d].id => c = d

(* A command answered with a result has captured the edit the server       *)
(* pushed for it, if it pushed one, and never that of another: the reader  *)
(* broadcasts the edit before it routes the answer, and the operation      *)
(* subscribed before it asked.                                             *)
EditCaptured ==
    \A c \in Callers :
        call[c].step = "done" /\ call[c].kind = "command" /\ mail[call[c].id] = "result"
          => call[c].edit = IF serving[call[c].id] = "editless" THEN 0 ELSE call[c].id

Readable == \A i \in 1..Len(toClient) : toClient[i].kind # "garbled"

(* Every call returns, whether the server answers or dies: unless a frame  *)
(* cannot be read, no call waits for ever.                                 *)
EveryCallReturns ==
    []Readable => \A c \in Callers : call[c].step = "registered" ~> call[c].step = "idle"
=============================================================================
