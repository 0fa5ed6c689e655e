--------------------------- MODULE LspClient_proofs ---------------------------
(* Theorems about LspClient, for any callers, any bounds, any room in the  *)
(* pipes and any Faults of the server.                                     *)
EXTENDS LspClient, TLAPS

(* The parts of the type invariant. *)
ClientTypeOK ==
    /\ stdin \in Callers \union {Reader, Nobody}
    /\ next_id \in 1..(MaxId + 1)
    /\ pending \in SUBSET Ids
    /\ mail \in [Ids -> {"none", "result", "error", "closed"}]
    /\ call \in [Callers -> Call]
    /\ reader \in [step : {"reading", "locking", "replying", "failing", "gone"},
                   msg : Messages]
    /\ feed \in Seq(Messages)

PipesTypeOK ==
    /\ toServer \in Seq(Messages)
    /\ toClient \in Seq(Messages)

ServerTypeOK ==
    /\ alive \in BOOLEAN
    /\ serving \in [Ids -> {"unread", "computing", "pushed", "answering", "answered", "editless"}]
    /\ notices \in 0..MaxNotices

LEMMA TypeParts ==
    /\ TypeOK  <=> ClientTypeOK  /\ PipesTypeOK  /\ ServerTypeOK
    /\ TypeOK' <=> ClientTypeOK' /\ PipesTypeOK' /\ ServerTypeOK'
  BY DEF TypeOK, ClientTypeOK, PipesTypeOK, ServerTypeOK

LEMMA ClientStutter == ClientTypeOK /\ UNCHANGED clientVars => ClientTypeOK'
  BY DEF ClientTypeOK, clientVars

LEMMA ServerStutter == ServerTypeOK /\ UNCHANGED serverVars => ServerTypeOK'
  BY DEF ServerTypeOK, serverVars

LEMMA MsgType ==
  ASSUME NEW kind \in {"request", "command", "notify", "reply", "result", "error",
                       "applyEdit", "ask", "notice", "garbled"},
         NEW id \in 0..MaxId
  PROVE  Msg(kind, id) \in Messages /\ Msg(kind, id).kind = kind /\ Msg(kind, id).id = id
  BY DEF Msg, Messages

LEMMA NoCallType == NoCall \in Call
  BY BoundsAssumption DEF NoCall, Call

(* What is at the head of a pipe is a message. *)
LEMMA HeadType ==
  ASSUME NEW s \in Seq(Messages), s # <<>>
  PROVE  Head(s) \in Messages /\ Tail(s) \in Seq(Messages)
         /\ Head(s).id \in 0..MaxId
<1>1. Head(s) \in Messages /\ Tail(s) \in Seq(Messages)
  OBVIOUS
<1> QED
  BY <1>1 DEF Messages

LEMMA InitTyped == Init => TypeOK
<1>1. <<>> \in Seq(Messages)
  OBVIOUS
<1>2. 0 \in 0..MaxId /\ 0 \in 0..MaxNotices /\ 1 \in 1..(MaxId + 1)
  BY BoundsAssumption
<1> QED
  BY <1>1, <1>2, NoCallType, MsgType DEF Init, TypeOK, Ids

(* A call that only moves on stays a call. *)
LEMMA GotoType ==
  ASSUME ClientTypeOK, NEW c \in Callers,
         NEW step \in {"idle", "registered", "writing", "awaiting", "unregister", "draining", "done"},
         Goto(c, step)
  PROVE  call' \in [Callers -> Call]
<1>1. call[c] \in Call
  BY DEF ClientTypeOK
<1>2. [call[c] EXCEPT !.step = step] \in Call
  BY <1>1 DEF Call
<1> QED
  BY <1>2 DEF ClientTypeOK, Goto

(* A call begins with an id that was not used, or none. *)
LEMMA BeginsType ==
  ASSUME ClientTypeOK, NEW c \in Callers, request(c) \/ execute_capturing_edit(c) \/ notify(c)
  PROVE  ClientTypeOK'
<1>1. next_id \in Ids /\ next_id + 1 \in 1..(MaxId + 1) /\ next_id \in 0..MaxId
  BY BoundsAssumption
  DEF ClientTypeOK, Ids, request, execute_capturing_edit, notify
<1>2. Len(feed) \in Nat
  BY DEF ClientTypeOK
<1>3. CASE request(c)
  <2>1. [NoCall EXCEPT !.step = "registered", !.kind = "request", !.id = next_id] \in Call
    BY <1>1, NoCallType DEF Call
  <2> QED
    BY <1>1, <1>3, <2>1 DEF request, ClientTypeOK
<1>4. CASE execute_capturing_edit(c)
  <2>1. [NoCall EXCEPT !.step = "registered", !.kind = "command", !.id = next_id,
                       !.from = Len(feed)] \in Call
    BY <1>1, <1>2, NoCallType DEF Call
  <2> QED
    BY <1>1, <1>4, <2>1 DEF execute_capturing_edit, ClientTypeOK
<1>5. CASE notify(c)
  <2>1. [NoCall EXCEPT !.step = "registered"] \in Call
    BY NoCallType DEF Call
  <2> QED
    BY <1>5, <2>1 DEF notify, ClientTypeOK
<1> QED
  BY <1>3, <1>4, <1>5

LEMMA OldestType ==
  ASSUME ClientTypeOK, NEW c \in Callers
  PROVE  /\ Oldest(c) \in Nat /\ Oldest(c) >= call[c].from
         /\ Oldest(c) < Len(feed) => feed[Oldest(c) + 1] \in Messages
<1>1. call[c].from \in Nat /\ Len(feed) \in Nat /\ feed \in Seq(Messages)
  BY DEF ClientTypeOK, Call
<1>2. Oldest(c) \in Nat /\ Oldest(c) >= call[c].from
  BY <1>1, BoundsAssumption DEF Oldest
<1> QED
  BY <1>1, <1>2

LEMMA DrainType ==
  ASSUME ClientTypeOK, NEW c \in Callers, Drain(c)
  PROVE  call' \in [Callers -> Call]
<1> DEFINE msg == feed[Oldest(c) + 1]
<1>1. msg \in Messages /\ Oldest(c) \in Nat
  BY OldestType DEF Drain
<1>2. msg.id \in 0..MaxId /\ Oldest(c) + 1 \in Nat
  BY <1>1 DEF Messages
<1>3. call[c] \in Call
  BY DEF ClientTypeOK
<1>4. /\ [call[c] EXCEPT !.step = "done", !.edit = msg.id] \in Call
      /\ [call[c] EXCEPT !.from = Oldest(c) + 1] \in Call
  BY <1>2, <1>3 DEF Call
<1>5. \/ call' = [call EXCEPT ![c] = [call[c] EXCEPT !.step = "done", !.edit = msg.id]]
      \/ call' = [call EXCEPT ![c] = [call[c] EXCEPT !.from = Oldest(c) + 1]]
  BY DEF Drain
<1> HIDE DEF msg
<1> QED
  BY <1>4, <1>5 DEF ClientTypeOK

(* The steps of a call. *)
LEMMA CallStepsType ==
  ASSUME ClientTypeOK, PipesTypeOK, NEW c \in Callers, CallSteps(c)
  PROVE  ClientTypeOK' /\ PipesTypeOK'
<1>1. call[c] \in Call
  BY DEF ClientTypeOK
<1>2. CASE LockStdin(c)
  BY <1>2, GotoType DEF LockStdin, ClientTypeOK, PipesTypeOK
<1>3. CASE write(c)
  <2>1. call' \in [Callers -> Call]
    BY <1>3, GotoType DEF write
  <2>2. Msg(call[c].kind, call[c].id) \in Messages
    BY <1>1, MsgType DEF Call
  <2>3. toServer' \in Seq(Messages)
    BY <1>3, <2>2 DEF write, PipesTypeOK
  <2> QED
    BY <1>3, <2>1, <2>3 DEF write, ClientTypeOK, PipesTypeOK
<1>4. CASE WriteFails(c)
  BY <1>4, GotoType DEF WriteFails, ClientTypeOK, PipesTypeOK
<1>5. CASE Unregister(c)
  BY <1>5, GotoType DEF Unregister, ClientTypeOK, PipesTypeOK
<1>6. CASE Receive(c)
  BY <1>6, GotoType DEF Receive, ClientTypeOK, PipesTypeOK
<1>7. CASE Drain(c)
  BY <1>7, DrainType DEF Drain, ClientTypeOK, PipesTypeOK
<1>8. CASE DrainTimeout(c)
  BY <1>8, GotoType DEF DrainTimeout, ClientTypeOK, PipesTypeOK
<1>9. CASE Finish(c)
  BY <1>9, NoCallType DEF Finish, ClientTypeOK, PipesTypeOK
<1> QED
  BY <1>2, <1>3, <1>4, <1>5, <1>6, <1>7, <1>8, <1>9 DEF CallSteps

(* The steps of the reader task. *)
LEMMA ReadType ==
  ASSUME ClientTypeOK, PipesTypeOK, ReadMessage
  PROVE  ClientTypeOK' /\ PipesTypeOK'
<1> DEFINE msg == Head(toClient)
<1>1. msg \in Messages /\ toClient' \in Seq(Messages)
  BY HeadType DEF ReadMessage, PipesTypeOK
<1>2. CASE msg.kind \in {"result", "error"} /\ Respond(msg) /\ UNCHANGED <<reader, feed>>
  <2>1. mail' \in [Ids -> {"none", "result", "error", "closed"}]
    BY <1>2 DEF Respond, ClientTypeOK
  <2> QED
    BY <1>1, <1>2, <2>1 DEF Respond, ReadMessage, ClientTypeOK, PipesTypeOK
<1>3. CASE feed' = Append(feed, msg) /\ UNCHANGED <<reader, pending, mail>>
  <2>1. feed' \in Seq(Messages)
    BY <1>1, <1>3 DEF ClientTypeOK
  <2> QED
    BY <1>1, <1>3, <2>1 DEF ReadMessage, ClientTypeOK, PipesTypeOK
<1>4. CASE reader' = [step |-> "locking", msg |-> msg] /\ UNCHANGED <<feed, pending, mail>>
  BY <1>1, <1>4 DEF ReadMessage, ClientTypeOK, PipesTypeOK
<1>5. CASE reader' = [reader EXCEPT !.step = "failing"] /\ UNCHANGED <<feed, pending, mail>>
  BY <1>1, <1>5 DEF ReadMessage, ClientTypeOK, PipesTypeOK
<1> QED
  BY <1>2, <1>3, <1>4, <1>5 DEF ReadMessage

LEMMA ReaderType ==
  ASSUME ClientTypeOK, PipesTypeOK, ReaderSteps
  PROVE  ClientTypeOK' /\ PipesTypeOK'
<1>1. CASE EndOfStream
  BY <1>1 DEF EndOfStream, ClientTypeOK, PipesTypeOK
<1>2. CASE ReplyLock
  BY <1>2 DEF ReplyLock, ClientTypeOK, PipesTypeOK
<1>3. CASE Reply
  <2>1. reader.msg \in Messages /\ Msg("reply", reader.msg.id) \in Messages
    BY MsgType DEF ClientTypeOK, Messages
  <2>2. feed' \in Seq(Messages)
    BY <1>3, <2>1 DEF Reply, ClientTypeOK
  <2>3. toServer' = Append(toServer, Msg("reply", reader.msg.id)) \/ UNCHANGED toServer
    BY <1>3 DEF Reply
  <2>4. toServer' \in Seq(Messages)
    BY <2>1, <2>3 DEF PipesTypeOK
  <2> QED
    BY <1>3, <2>2, <2>4 DEF Reply, ClientTypeOK, PipesTypeOK
<1>4. CASE fail_pending
  BY <1>4 DEF fail_pending, ClientTypeOK, PipesTypeOK
<1> QED
  BY ReadType, <1>1, <1>2, <1>3, <1>4 DEF ReaderSteps

(* The steps of the server. *)
LEMMA ServerType ==
  ASSUME PipesTypeOK, ServerTypeOK,
         \/ ServerReads \/ ServerNotifies \/ ServerGarbles \/ ServerDies
         \/ \E id \in Ids : ServerPushes(id) \/ ServerAnswers(id)
  PROVE  PipesTypeOK' /\ ServerTypeOK' /\ UNCHANGED clientVars
<1>1. CASE ServerReads
  <2>1. toServer' \in Seq(Messages) /\ Head(toServer).id \in 0..MaxId
    BY <1>1, HeadType DEF ServerReads, PipesTypeOK
  <2>2. \/ UNCHANGED serving
        \/ \E step \in {"computing", "answering"} :
              serving' = [serving EXCEPT ![Head(toServer).id] = step]
    <3>1. CASE Head(toServer).id = 0
      BY <1>1, <3>1 DEF ServerReads
    <3>2. CASE Head(toServer).id # 0 /\ Head(toServer).kind = "command"
      BY <1>1, <3>2 DEF ServerReads
    <3>3. CASE Head(toServer).id # 0 /\ Head(toServer).kind # "command"
      BY <1>1, <3>3 DEF ServerReads
    <3> QED
      BY <3>1, <3>2, <3>3
  <2>3. serving' \in [Ids -> {"unread", "computing", "pushed", "answering", "answered", "editless"}]
    BY <2>2 DEF ServerTypeOK
  <2> QED
    BY <1>1, <2>1, <2>3 DEF ServerReads, PipesTypeOK, ServerTypeOK
<1>2. ASSUME NEW kind \in {"notice", "ask", "garbled"}, toClient' = Append(toClient, Msg(kind, 0)),
             notices < MaxNotices, notices' = notices + 1,
             UNCHANGED <<clientVars, toServer, alive, serving>>
      PROVE  PipesTypeOK' /\ ServerTypeOK'
  <2>1. Msg(kind, 0) \in Messages
    BY MsgType, BoundsAssumption
  <2>2. notices' \in 0..MaxNotices
    BY <1>2, BoundsAssumption DEF ServerTypeOK
  <2> QED
    BY <1>2, <2>1, <2>2 DEF PipesTypeOK, ServerTypeOK
<1>3. CASE ServerNotifies
  BY <1>2, <1>3 DEF ServerNotifies
<1>4. CASE ServerGarbles
  BY <1>2, <1>4 DEF ServerGarbles
<1>5. CASE ServerDies
  BY <1>5 DEF ServerDies, PipesTypeOK, ServerTypeOK
<1>6. ASSUME NEW id \in Ids, ServerPushes(id)
      PROVE  PipesTypeOK' /\ ServerTypeOK'
  <2>1. Msg("applyEdit", id) \in Messages
    BY MsgType, BoundsAssumption DEF Ids
  <2> QED
    BY <1>6, <2>1 DEF ServerPushes, PipesTypeOK, ServerTypeOK
<1>7. ASSUME NEW id \in Ids, ServerAnswers(id)
      PROVE  PipesTypeOK' /\ ServerTypeOK'
  <2>1. PICK kind \in {"result", "error"} : toClient' = Append(toClient, Msg(kind, id))
    BY <1>7 DEF ServerAnswers
  <2>2. Msg(kind, id) \in Messages
    BY MsgType, BoundsAssumption DEF Ids
  <2> QED
    BY <1>7, <2>1, <2>2 DEF ServerAnswers, PipesTypeOK, ServerTypeOK
<1> QED
  BY <1>1, <1>3, <1>4, <1>5, <1>6, <1>7
  DEF ServerReads, ServerNotifies, ServerGarbles, ServerDies, ServerPushes, ServerAnswers

LEMMA NextTyped == TypeOK /\ [Next]_vars => TypeOK'
<1> SUFFICES ASSUME ClientTypeOK, PipesTypeOK, ServerTypeOK, [Next]_vars
             PROVE  ClientTypeOK' /\ PipesTypeOK' /\ ServerTypeOK'
  BY TypeParts
<1>1. CASE UNCHANGED vars
  BY <1>1, ClientStutter, ServerStutter DEF vars, PipesTypeOK
<1>2. ASSUME NEW c \in Callers, request(c) \/ execute_capturing_edit(c) \/ notify(c)
      PROVE  ClientTypeOK' /\ PipesTypeOK' /\ ServerTypeOK'
  BY <1>2, BeginsType, ServerStutter
  DEF request, execute_capturing_edit, notify, PipesTypeOK
<1>3. ASSUME NEW c \in Callers, CallSteps(c)
      PROVE  ClientTypeOK' /\ PipesTypeOK' /\ ServerTypeOK'
  <2>1. UNCHANGED serverVars
    BY <1>3 DEF CallSteps, LockStdin, write, WriteFails, Unregister, Receive, Drain, DrainTimeout,
       Finish
  <2> QED
    BY <1>3, <2>1, CallStepsType, ServerStutter
<1>4. CASE ReaderSteps
  <2>1. UNCHANGED serverVars
    BY <1>4 DEF ReaderSteps, ReadMessage, EndOfStream, ReplyLock, Reply, fail_pending
  <2> QED
    BY <1>4, <2>1, ReaderType, ServerStutter
<1>5. CASE \/ ServerReads \/ ServerNotifies \/ ServerGarbles \/ ServerDies
           \/ \E id \in Ids : ServerPushes(id) \/ ServerAnswers(id)
  BY <1>5, ServerType, ClientStutter
<1> QED
  BY <1>1, <1>2, <1>3, <1>4, <1>5 DEF Next

(* The client, the pipes and the server keep their types.                  *)
THEOREM TypeCorrect == Spec => []TypeOK
<1> QED
  BY InitTyped, NextTyped, PTL DEF Spec

-----------------------------------------------------------------------------
(* Ids are taken in order, and no two calls have one: a request has one,   *)
(* a notification has none, and an id not yet taken has no traces.         *)
IdsInv ==
    /\ \A c \in Callers : /\ call[c].id < next_id
                          /\ call[c].kind = "notify" <=> call[c].id = 0
    /\ \A c, d \in Callers : call[c].id = call[d].id /\ call[c].id # 0 => c = d
    /\ \A id \in Ids : id >= next_id => id \notin pending /\ mail[id] = "none"

ChannelsInv == IdsInv /\ ChannelsExact

LEMMA ChannelsInit == Init => ChannelsInv
  BY BoundsAssumption DEF Init, ChannelsInv, IdsInv, ChannelsExact, Asking, NoCall, Ids

(* Steps that neither begin nor end a call's wait. *)
ChannelsKept ==
    /\ UNCHANGED <<next_id, pending, mail>>
    /\ \A c \in Callers :
        /\ call'[c].id = call[c].id /\ call'[c].kind = call[c].kind
        /\ Asking(c)' = Asking(c)
        /\ call[c].step = "unregister" => call'[c].step = "unregister"

LEMMA ChannelsKeptInv == ChannelsInv /\ ChannelsKept => ChannelsInv'
  BY DEF ChannelsInv, IdsInv, ChannelsExact, ChannelsKept

(* The steps of the server and most of the reader's touch no call. *)
LEMMA CallsUntouched ==
  ASSUME ChannelsInv, UNCHANGED <<next_id, pending, mail, call>>
  PROVE  ChannelsInv'
  BY DEF ChannelsInv, IdsInv, ChannelsExact, Asking

LEMMA ChannelsBegin ==
  ASSUME ClientTypeOK, ChannelsInv, NEW c \in Callers,
         request(c) \/ execute_capturing_edit(c) \/ notify(c)
  PROVE  ChannelsInv'
<1>1. next_id \in Ids /\ next_id # 0 /\ call[c].step = "idle"
  BY BoundsAssumption
  DEF ClientTypeOK, Ids, request, execute_capturing_edit, notify, MayCall
<1>2. CASE notify(c)
  <2>1. \A d \in Callers :
          call'[d] = IF d = c THEN [NoCall EXCEPT !.step = "registered"] ELSE call[d]
    BY <1>2 DEF notify, ClientTypeOK
  <2>2. /\ [NoCall EXCEPT !.step = "registered"].kind = "notify"
        /\ [NoCall EXCEPT !.step = "registered"].id = 0
    BY DEF NoCall
  <2>3. UNCHANGED <<next_id, pending, mail>>
    BY <1>2 DEF notify
  <2> DEFINE j == [NoCall EXCEPT !.step = "registered"]
  <2> HIDE DEF j
  <2>4. j.kind = "notify" /\ j.id = 0 /\ \A d \in Callers : call'[d] = IF d = c THEN j ELSE call[d]
    BY <2>1, <2>2 DEF j
  <2>5. IdsInv'
    BY <1>1, <2>3, <2>4 DEF ChannelsInv, IdsInv, ClientTypeOK
  <2>6. ~Asking(c)' /\ ~Asking(c) /\ \A d \in Callers \ {c} : Asking(d)' = Asking(d)
    BY <1>1, <2>4 DEF Asking
  <2> QED
    BY <1>1, <2>3, <2>4, <2>5, <2>6 DEF ChannelsInv, ChannelsExact
<1>3. CASE request(c) \/ execute_capturing_edit(c)
  <2>1. PICK j \in Call :
          /\ call' = [call EXCEPT ![c] = j]
          /\ j.step = "registered" /\ j.kind # "notify" /\ j.id = next_id
    <3>1. next_id \in 0..MaxId /\ Len(feed) \in Nat
      BY <1>1, BoundsAssumption DEF Ids, ClientTypeOK
    <3>2. CASE request(c)
      <4> DEFINE j == [NoCall EXCEPT !.step = "registered", !.kind = "request", !.id = next_id]
      <4>1. j \in Call /\ j.step = "registered" /\ j.kind = "request" /\ j.id = next_id
        BY <3>1, NoCallType DEF Call
      <4>2. call' = [call EXCEPT ![c] = j]
        BY <3>2 DEF request
      <4> HIDE DEF j
      <4> QED
        BY <4>1, <4>2
    <3>3. CASE execute_capturing_edit(c)
      <4> DEFINE j == [NoCall EXCEPT !.step = "registered", !.kind = "command", !.id = next_id,
                                     !.from = Len(feed)]
      <4>1. j \in Call /\ j.step = "registered" /\ j.kind = "command" /\ j.id = next_id
        BY <3>1, NoCallType DEF Call
      <4>2. call' = [call EXCEPT ![c] = j]
        BY <3>3 DEF execute_capturing_edit
      <4> HIDE DEF j
      <4> QED
        BY <4>1, <4>2
    <3> QED
      BY <1>3, <3>2, <3>3
  <2>2. \A d \in Callers : call'[d] = IF d = c THEN j ELSE call[d]
    BY <2>1 DEF ClientTypeOK
  <2>3. /\ next_id' = next_id + 1 /\ pending' = pending \union {next_id} /\ UNCHANGED mail
    BY <1>3 DEF request, execute_capturing_edit
  <2>4. IdsInv'
    BY <1>1, <2>1, <2>2, <2>3 DEF ChannelsInv, IdsInv, ClientTypeOK, Ids, Call
  <2>5. ASSUME NEW id \in pending'
        PROVE  /\ mail'[id] = "none"
               /\ \E d \in Callers : call'[d].id = id /\ (Asking(d)' \/ call'[d].step = "unregister")
    <3>1. CASE id = next_id
      <4>1. mail[next_id] = "none"
        BY <1>1 DEF ChannelsInv, IdsInv, ClientTypeOK
      <4>2. call'[c].id = id /\ Asking(c)'
        BY <2>1, <2>2, <3>1 DEF Asking
      <4> QED
        BY <2>3, <3>1, <4>1, <4>2
    <3>2. CASE id \in pending
      <4>1. PICK d \in Callers : call[d].id = id /\ (Asking(d) \/ call[d].step = "unregister")
        BY <3>2 DEF ChannelsInv, ChannelsExact
      <4>2. d # c
        BY <1>1, <4>1 DEF Asking
      <4> QED
        BY <2>2, <2>3, <3>2, <4>1, <4>2 DEF ChannelsInv, ChannelsExact, Asking
    <3> QED
      BY <2>3, <3>1, <3>2
  <2>6. ASSUME NEW d \in Callers, Asking(d)'
        PROVE  call'[d].id \in pending' \/ mail'[call'[d].id] # "none"
    BY <2>1, <2>2, <2>3, <2>6 DEF ChannelsInv, ChannelsExact, Asking
  <2>7. ASSUME NEW d \in Callers, NEW e \in Callers, Asking(d)', Asking(e)',
               call'[d].id = call'[e].id
        PROVE  d = e
    BY <2>4, <2>7 DEF IdsInv, Asking
  <2> QED
    BY <2>4, <2>5, <2>6, <2>7 DEF ChannelsInv, ChannelsExact
<1> QED
  BY <1>2, <1>3

(* A call whose channel is not registered any more stops waiting.          *)
LEMMA ChannelsEnd ==
  ASSUME ClientTypeOK, ChannelsInv, NEW c \in Callers,
         NEW j \in Call, call' = [call EXCEPT ![c] = j], UNCHANGED <<next_id, pending, mail>>,
         (j.id = call[c].id /\ j.kind = call[c].kind) \/ j = NoCall,
         j.step \in {"idle", "draining", "done"},
         call[c].id \notin pending
  PROVE  ChannelsInv'
<1>1. \A d \in Callers : call'[d] = IF d = c THEN j ELSE call[d]
  BY DEF ClientTypeOK
<1>2. NoCall.id = 0 /\ NoCall.kind = "notify"
  BY DEF NoCall
<1>3. IdsInv'
  BY <1>1, <1>2 DEF ChannelsInv, IdsInv, ClientTypeOK
<1>4. ~Asking(c)' /\ \A d \in Callers \ {c} : Asking(d)' = Asking(d)
  BY <1>1 DEF Asking
<1> QED
  BY <1>1, <1>3, <1>4 DEF ChannelsInv, ChannelsExact

LEMMA GotoFacts ==
  ASSUME ClientTypeOK, NEW c \in Callers,
         NEW step \in {"idle", "registered", "writing", "awaiting", "unregister", "draining", "done"},
         Goto(c, step)
  PROVE  \A d \in Callers : /\ call'[d].id = call[d].id /\ call'[d].kind = call[d].kind
                            /\ call'[d].from = call[d].from /\ call'[d].edit = call[d].edit
                            /\ call'[d].step = IF d = c THEN step ELSE call[d].step
<1>1. call[c] \in Call
  BY DEF ClientTypeOK
<1>2. \A d \in Callers : call'[d] = IF d = c THEN [call[c] EXCEPT !.step = step] ELSE call[d]
  BY DEF Goto, ClientTypeOK
<1> QED
  BY <1>1, <1>2 DEF Call

LEMMA GotoRecord ==
  ASSUME ClientTypeOK, NEW c \in Callers,
         NEW step \in {"idle", "registered", "writing", "awaiting", "unregister", "draining", "done"},
         Goto(c, step)
  PROVE  \E j \in Call : /\ call' = [call EXCEPT ![c] = j]
                         /\ j.id = call[c].id /\ j.kind = call[c].kind /\ j.step = step
                         /\ j.from = call[c].from /\ j.edit = call[c].edit
<1>1. call[c] \in Call
  BY DEF ClientTypeOK
<1> DEFINE j == [call[c] EXCEPT !.step = step]
<1>2. call' = [call EXCEPT ![c] = j]
  BY DEF Goto
<1>3. /\ j \in Call /\ j.id = call[c].id /\ j.kind = call[c].kind /\ j.step = step
      /\ j.from = call[c].from /\ j.edit = call[c].edit
  BY <1>1 DEF Call
<1> HIDE DEF j
<1> QED
  BY <1>2, <1>3

LEMMA ChannelsCallSteps ==
  ASSUME ClientTypeOK, ChannelsInv, NEW c \in Callers, CallSteps(c)
  PROVE  ChannelsInv'
<1>1. call[c] \in Call
  BY DEF ClientTypeOK
<1>2. CASE LockStdin(c)
  <2>1. call[c].step = "registered" /\ UNCHANGED <<next_id, pending, mail>>
    BY <1>2 DEF LockStdin
  <2>2. ChannelsKept
    BY <1>2, <2>1, GotoFacts DEF LockStdin, ChannelsKept, Asking
  <2> QED
    BY <2>2, ChannelsKeptInv
<1>3. CASE write(c)
  <2>1. call[c].step = "writing" /\ UNCHANGED <<next_id, pending, mail>>
    BY <1>3 DEF write
  <2>2. CASE call[c].kind = "notify"
    BY <1>3, <2>1, <2>2, GotoFacts, ChannelsKeptInv DEF write, ChannelsKept, Asking
  <2>3. CASE call[c].kind # "notify"
    <3>1. Goto(c, "awaiting")
      BY <1>3, <2>3 DEF write
    <3>2. ChannelsKept
      BY <2>1, <3>1, GotoFacts DEF ChannelsKept, Asking
    <3> QED
      BY <3>2, ChannelsKeptInv
  <2> QED
    BY <2>2, <2>3
<1>4. CASE WriteFails(c)
  <2>1. /\ call[c].step = "writing" /\ UNCHANGED <<next_id, pending, mail>>
        /\ \A d \in Callers : /\ call'[d].id = call[d].id /\ call'[d].kind = call[d].kind
                              /\ call'[d].step = IF d = c THEN "unregister" ELSE call[d].step
    <3>1. Goto(c, "unregister")
      BY <1>4 DEF WriteFails
    <3>2. call[c].step = "writing" /\ UNCHANGED <<next_id, pending, mail>>
      BY <1>4 DEF WriteFails
    <3> QED
      BY <3>1, <3>2, GotoFacts
  <2>2. \A d \in Callers : Asking(d)' => Asking(d)
    BY <2>1 DEF Asking
  <2>3. \A d \in Callers : Asking(d) \/ call[d].step = "unregister"
                             => Asking(d)' \/ call'[d].step = "unregister"
    BY <2>1 DEF Asking
  <2>4. IdsInv'
    BY <2>1 DEF ChannelsInv, IdsInv
  <2> QED
    BY <2>1, <2>2, <2>3, <2>4 DEF ChannelsInv, ChannelsExact
<1>5. CASE Unregister(c)
  <2>1. /\ call[c].step = "unregister" /\ UNCHANGED <<next_id, mail>>
        /\ pending' = pending \ {call[c].id}
        /\ \A d \in Callers : /\ call'[d].id = call[d].id /\ call'[d].kind = call[d].kind
                              /\ call'[d].step = IF d = c THEN "done" ELSE call[d].step
    <3>1. Goto(c, "done")
      BY <1>5 DEF Unregister
    <3>2. /\ call[c].step = "unregister" /\ UNCHANGED <<next_id, mail>>
          /\ pending' = pending \ {call[c].id}
      BY <1>5 DEF Unregister
    <3> QED
      BY <3>1, <3>2, GotoFacts
  <2>2. \A d \in Callers : Asking(d)' = Asking(d)
    BY <2>1 DEF Asking
  <2>3. IdsInv'
    BY <2>1 DEF ChannelsInv, IdsInv
  <2>4. ASSUME NEW d \in Callers, Asking(d)
        PROVE  call[d].id \in pending' \/ mail[call[d].id] # "none"
    <3>1. call[d].id # call[c].id
      BY <2>1, <2>4 DEF ChannelsInv, IdsInv, Asking
    <3> QED
      BY <2>1, <2>4, <3>1 DEF ChannelsInv, ChannelsExact
  <2>5. ASSUME NEW id \in pending'
        PROVE  /\ mail[id] = "none"
               /\ \E d \in Callers : call'[d].id = id /\ (Asking(d) \/ call'[d].step = "unregister")
    <3>1. PICK d \in Callers : call[d].id = id /\ (Asking(d) \/ call[d].step = "unregister")
      BY <2>1, <2>5 DEF ChannelsInv, ChannelsExact
    <3>2. d # c
      BY <2>1, <2>5, <3>1
    <3> QED
      BY <2>1, <2>5, <3>1, <3>2 DEF ChannelsInv, ChannelsExact
  <2> QED
    BY <2>1, <2>2, <2>3, <2>4, <2>5 DEF ChannelsInv, ChannelsExact
<1>6. CASE Receive(c)
  <2>1. call[c].id \notin pending /\ UNCHANGED <<next_id, pending, mail>>
    BY <1>6 DEF Receive, ChannelsInv, ChannelsExact
  <2>2. PICK step \in {"draining", "done"} : Goto(c, step)
    BY <1>6 DEF Receive
  <2>3. PICK j \in Call : /\ call' = [call EXCEPT ![c] = j]
                          /\ j.id = call[c].id /\ j.kind = call[c].kind /\ j.step = step
    BY <2>2, GotoRecord
  <2> QED
    BY <2>1, <2>2, <2>3, ChannelsEnd
<1>7. CASE Drain(c)
  <2>1. call[c].step = "draining" /\ UNCHANGED <<next_id, pending, mail>>
    BY <1>7 DEF Drain
  <2>2. call[c].id \notin pending
    <3>1. ASSUME call[c].id \in pending PROVE FALSE
      <4>1. PICK d \in Callers : call[d].id = call[c].id /\ (Asking(d) \/ call[d].step = "unregister")
        BY <3>1 DEF ChannelsInv, ChannelsExact
      <4>2. call[c].id # 0
        BY <3>1 DEF ClientTypeOK, Ids
      <4> QED
        BY <2>1, <4>1, <4>2 DEF ChannelsInv, IdsInv, Asking
    <3> QED
      BY <3>1
  <2> DEFINE msg == feed[Oldest(c) + 1]
             j == IF msg.kind = "applyEdit" THEN [call[c] EXCEPT !.step = "done", !.edit = msg.id]
                  ELSE [call[c] EXCEPT !.from = Oldest(c) + 1]
  <2>3. call' = [call EXCEPT ![c] = j]
    BY <1>7 DEF Drain
  <2>4. call' \in [Callers -> Call]
    BY <1>7, DrainType
  <2>5. /\ j.id = call[c].id /\ j.kind = call[c].kind /\ j.step \in {"draining", "done"}
    BY <1>1, <2>1 DEF Call
  <2> HIDE DEF j
  <2>6. j \in Call
    BY <2>3, <2>4 DEF ClientTypeOK
  <2> QED
    BY <2>1, <2>2, <2>3, <2>5, <2>6, ChannelsEnd
<1>8. CASE DrainTimeout(c) \/ Finish(c)
  <2>1. call[c].step \in {"draining", "done"} /\ UNCHANGED <<next_id, pending, mail>>
    BY <1>8 DEF DrainTimeout, Finish
  <2>2. call[c].id \notin pending
    <3>1. ASSUME call[c].id \in pending PROVE FALSE
      <4>1. PICK d \in Callers : call[d].id = call[c].id /\ (Asking(d) \/ call[d].step = "unregister")
        BY <3>1 DEF ChannelsInv, ChannelsExact
      <4>2. call[c].id # 0
        BY <3>1 DEF ClientTypeOK, Ids
      <4> QED
        BY <2>1, <4>1, <4>2 DEF ChannelsInv, IdsInv, Asking
    <3> QED
      BY <3>1
  <2>3. CASE DrainTimeout(c)
    <3>1. Goto(c, "done")
      BY <2>3 DEF DrainTimeout
    <3>2. PICK j \in Call : /\ call' = [call EXCEPT ![c] = j]
                            /\ j.id = call[c].id /\ j.kind = call[c].kind /\ j.step = "done"
      BY <3>1, GotoRecord
    <3> QED
      BY <2>1, <2>2, <3>2, ChannelsEnd
  <2>4. CASE Finish(c)
    <3>1. NoCall.step = "idle"
      BY DEF NoCall
    <3> QED
      BY <2>1, <2>2, <2>4, <3>1, NoCallType, ChannelsEnd DEF Finish
  <2> QED
    BY <1>8, <2>3, <2>4
<1> QED
  BY <1>2, <1>3, <1>4, <1>5, <1>6, <1>7, <1>8 DEF CallSteps

LEMMA ChannelsReader ==
  ASSUME ClientTypeOK, PipesTypeOK, ChannelsInv, ReaderSteps
  PROVE  ChannelsInv'
<1>1. CASE ReadMessage
  <2> DEFINE msg == Head(toClient)
  <2>1. UNCHANGED <<next_id, call>>
    BY <1>1 DEF ReadMessage
  <2>2. CASE msg.kind \in {"result", "error"} /\ Respond(msg)
    <3>1. \A id \in Ids : mail'[id] = IF id \in pending /\ id = msg.id THEN msg.kind ELSE mail[id]
      BY <2>2 DEF Respond, ClientTypeOK
    <3>2. pending' = pending \ {msg.id} /\ msg.kind # "none" /\ pending \subseteq Ids
      BY <2>2 DEF Respond, ClientTypeOK
    <3>3. IdsInv'
      BY <2>1, <3>1, <3>2 DEF ChannelsInv, IdsInv
    <3>4. ASSUME NEW d \in Callers, Asking(d)
          PROVE  call[d].id \in pending' \/ mail'[call[d].id] # "none"
      <4>1. call[d].id \in Ids
        BY <3>4 DEF ChannelsInv, IdsInv, Asking, ClientTypeOK, Call, Ids
      <4> QED
        BY <3>1, <3>2, <3>4, <4>1 DEF ChannelsInv, ChannelsExact
    <3>5. \A d \in Callers : Asking(d)' = Asking(d)
      BY <2>1 DEF Asking
    <3> QED
      BY <2>1, <3>1, <3>2, <3>3, <3>4, <3>5 DEF ChannelsInv, ChannelsExact
  <2>3. CASE UNCHANGED <<pending, mail>>
    BY <2>1, <2>3, CallsUntouched
  <2> QED
    BY <1>1, <2>2, <2>3 DEF ReadMessage
<1>2. CASE EndOfStream \/ ReplyLock \/ Reply
  BY <1>2, CallsUntouched DEF EndOfStream, ReplyLock, Reply
<1>3. CASE fail_pending
  <2>1. /\ pending' = {} /\ UNCHANGED <<next_id, call>>
        /\ \A id \in Ids : mail'[id] = IF id \in pending THEN "closed" ELSE mail[id]
    BY <1>3 DEF fail_pending
  <2>2. IdsInv'
    BY <2>1 DEF ChannelsInv, IdsInv
  <2>3. \A d \in Callers : Asking(d)' = Asking(d)
    BY <2>1 DEF Asking
  <2>4. ASSUME NEW d \in Callers, Asking(d) PROVE mail'[call[d].id] # "none"
    <3>1. call[d].id \in Ids
      BY <2>4 DEF ChannelsInv, IdsInv, Asking, ClientTypeOK, Call, Ids
    <3> QED
      BY <2>1, <2>4, <3>1 DEF ChannelsInv, ChannelsExact
  <2> QED
    BY <2>1, <2>2, <2>3, <2>4 DEF ChannelsInv, ChannelsExact
<1> QED
  BY <1>1, <1>2, <1>3 DEF ReaderSteps

LEMMA ChannelsNext == TypeOK /\ ChannelsInv /\ [Next]_vars => ChannelsInv'
<1> SUFFICES ASSUME ClientTypeOK, PipesTypeOK, ServerTypeOK, ChannelsInv, [Next]_vars
             PROVE  ChannelsInv'
  BY TypeParts
<1>1. CASE UNCHANGED vars
  BY <1>1, CallsUntouched DEF vars, clientVars
<1>2. CASE \/ ServerReads \/ ServerNotifies \/ ServerGarbles \/ ServerDies
           \/ \E id \in Ids : ServerPushes(id) \/ ServerAnswers(id)
  BY <1>2, ServerType, CallsUntouched DEF clientVars
<1> QED
  BY <1>1, <1>2, ChannelsBegin, ChannelsCallSteps, ChannelsReader DEF Next

LEMMA AlwaysChannels == Spec => []ChannelsInv
<1> QED
  BY TypeCorrect, ChannelsInit, ChannelsNext, PTL DEF Spec

(* The table of outstanding requests is exact: none leaks, none is missed  *)
(* when the reader fails them all, and no two calls share one, whatever    *)
(* writes fail and whenever the server dies (request, handle_incoming and  *)
(* fail_pending of client.rs).                                             *)
THEOREM RequestTableIsExact == Spec => []ChannelsExact
<1>1. ChannelsInv => ChannelsExact
  BY DEF ChannelsInv
<1> QED
  BY AlwaysChannels, <1>1, PTL

-----------------------------------------------------------------------------
(* The edit a command pushed.  What a sequence holds after position n, and *)
(* that no id but 0 occurs twice in it.                                    *)
After(s, n) == {s[i] : i \in (n + 1)..Len(s)}

Once(s) == \A i, k \in 1..Len(s) : s[i].id # 0 /\ s[i].id = s[k].id => i = k

LEMMA AfterAppend ==
  ASSUME NEW s \in Seq(Messages), NEW m \in Messages, NEW n \in Nat, n <= Len(s)
  PROVE  /\ Len(Append(s, m)) = Len(s) + 1
         /\ After(Append(s, m), n) = After(s, n) \union {m}
<1>1. /\ Len(Append(s, m)) = Len(s) + 1 /\ Len(s) \in Nat
      /\ \A i \in 1..(Len(s) + 1) : Append(s, m)[i] = IF i = Len(s) + 1 THEN m ELSE s[i]
  OBVIOUS
<1>2. ASSUME NEW x \in After(Append(s, m), n) PROVE x \in After(s, n) \union {m}
  <2>1. PICK i \in (n + 1)..(Len(s) + 1) : x = Append(s, m)[i]
    BY <1>1 DEF After
  <2> QED
    BY <1>1, <2>1 DEF After
<1>3. ASSUME NEW x \in After(s, n) PROVE x \in After(Append(s, m), n)
  <2>1. PICK i \in (n + 1)..Len(s) : x = s[i]
    BY DEF After
  <2>2. i \in (n + 1)..Len(Append(s, m)) /\ Append(s, m)[i] = x
    BY <1>1, <2>1
  <2> QED
    BY <2>2 DEF After
<1>4. m \in After(Append(s, m), n)
  <2>1. Len(s) + 1 \in (n + 1)..Len(Append(s, m)) /\ Append(s, m)[Len(s) + 1] = m
    BY <1>1
  <2> QED
    BY <2>1 DEF After
<1> QED
  BY <1>1, <1>2, <1>3, <1>4

LEMMA AfterTail ==
  ASSUME NEW s \in Seq(Messages), s # <<>>
  PROVE  After(s, 0) = {Head(s)} \union After(Tail(s), 0)
<1>1. /\ Len(Tail(s)) = Len(s) - 1 /\ Len(s) \in Nat \ {0} /\ Head(s) = s[1]
      /\ \A i \in 1..(Len(s) - 1) : Tail(s)[i] = s[i + 1]
  OBVIOUS
<1>2. ASSUME NEW x \in After(s, 0) PROVE x \in {Head(s)} \union After(Tail(s), 0)
  <2>1. PICK i \in 1..Len(s) : x = s[i]
    BY DEF After
  <2>2. i = 1 \/ (i - 1 \in 1..Len(Tail(s)) /\ Tail(s)[i - 1] = x)
    BY <1>1, <2>1
  <2> QED
    BY <1>1, <2>1, <2>2 DEF After
<1>3. ASSUME NEW x \in After(Tail(s), 0) PROVE x \in After(s, 0)
  <2>1. PICK i \in 1..Len(Tail(s)) : x = Tail(s)[i]
    BY <1>1 DEF After
  <2>2. i + 1 \in 1..Len(s) /\ s[i + 1] = x
    BY <1>1, <2>1
  <2> QED
    BY <2>2 DEF After
<1>4. Head(s) \in After(s, 0)
  BY <1>1 DEF After
<1> QED
  BY <1>2, <1>3, <1>4

LEMMA AfterStep ==
  ASSUME NEW s \in Seq(Messages), NEW n \in Nat, n < Len(s)
  PROVE  After(s, n) = {s[n + 1]} \union After(s, n + 1)
<1>1. Len(s) \in Nat
  OBVIOUS
<1> QED
  BY <1>1 DEF After

LEMMA AfterSubset ==
  ASSUME NEW s \in Seq(Messages), NEW n \in Nat
  PROVE  After(s, n) \subseteq After(s, 0) /\ After(s, 0) \subseteq Messages
  BY DEF After

LEMMA AfterEnd ==
  ASSUME NEW s \in Seq(Messages)
  PROVE  After(s, Len(s)) = {}
<1>1. Len(s) \in Nat
  OBVIOUS
<1> QED
  BY <1>1 DEF After

LEMMA OnceAppend ==
  ASSUME NEW s \in Seq(Messages), NEW m \in Messages, Once(s),
         m.id = 0 \/ \A x \in After(s, 0) : x.id # m.id
  PROVE  Once(Append(s, m))
<1>1. /\ Len(Append(s, m)) = Len(s) + 1 /\ Len(s) \in Nat
      /\ \A i \in 1..(Len(s) + 1) : Append(s, m)[i] = IF i = Len(s) + 1 THEN m ELSE s[i]
  OBVIOUS
<1>2. m.id = 0 \/ \A i \in 1..Len(s) : s[i].id # m.id
  BY DEF After
<1> QED
  BY <1>1, <1>2 DEF Once

LEMMA OnceTail ==
  ASSUME NEW s \in Seq(Messages), s # <<>>, Once(s)
  PROVE  /\ Once(Tail(s))
         /\ Head(s).id = 0 \/ \A x \in After(Tail(s), 0) : x.id # Head(s).id
<1>1. /\ Len(Tail(s)) = Len(s) - 1 /\ Len(s) \in Nat \ {0} /\ Head(s) = s[1]
      /\ \A i \in 1..(Len(s) - 1) : Tail(s)[i] = s[i + 1]
  OBVIOUS
<1>2. Once(Tail(s))
  BY <1>1 DEF Once
<1>3. ASSUME Head(s).id # 0, NEW x \in After(Tail(s), 0) PROVE x.id # Head(s).id
  <2>1. PICK i \in 1..Len(Tail(s)) : x = Tail(s)[i]
    BY DEF After
  <2> QED
    BY <1>1, <1>3, <2>1 DEF Once
<1> QED
  BY <1>2, <1>3

(* A command that captures its edit is the only call.                      *)
Exclusive ==
    /\ \A c, d \in Callers : call[c].kind = "command" /\ c # d => call[d].step = "idle"
    /\ \A c \in Callers : call[c].step = "idle" => call[c].kind = "notify"

(* What is on its way to the server: a request it has not read, or the     *)
(* reply to a push it waits for.                                           *)
Unsent(id) == \A m \in After(toServer, 0) : m.id # id

ToServerInv ==
    /\ Once(toServer)
    /\ \A m \in After(toServer, 0) : m.id # 0 =>
         \/ m.kind \in {"request", "command"} /\ serving[m.id] = "unread"
         \/ m.kind = "reply" /\ serving[m.id] = "pushed"
    /\ \A id \in Ids : id >= next_id => serving[id] = "unread" /\ Unsent(id)
    /\ \A c \in Callers :
         call[c].kind # "notify" /\ call[c].step \in {"registered", "writing", "unregister"}
           => serving[call[c].id] = "unread" /\ Unsent(call[c].id)
    /\ \A c \in Callers : \A m \in After(toServer, 0) :
         m.id # 0 /\ m.id = call[c].id => m.kind \in {call[c].kind, "reply"}

(* What is on its way to the callers: an answer, a push whose reply the    *)
(* server waits for, or a message of its own.                              *)
Pushing(id) == id \in Ids /\ serving[id] = "pushed" /\ Unsent(id)

ToClientInv ==
    /\ Once(toClient)
    /\ \A m \in After(toClient, 0) :
         \/ /\ m.kind \in {"result", "error"} /\ m.id \in Ids
            /\ serving[m.id] \in {"answered", "editless"}
         \/ m.kind = "applyEdit" /\ Pushing(m.id)
         \/ m.kind \in {"ask", "notice", "garbled"} /\ m.id = 0
    /\ reader.step \in {"locking", "replying"} =>
         \/ reader.msg.kind = "ask" /\ reader.msg.id = 0
         \/ /\ reader.msg.kind = "applyEdit" /\ Pushing(reader.msg.id)
            /\ \A m \in After(toClient, 0) : m.id # reader.msg.id

MailInv ==
    /\ \A id \in Ids : mail[id] \in {"result", "error"} => serving[id] \in {"answered", "editless"}
    /\ \A id \in Ids : mail[id] = "closed" => reader.step = "gone"
    /\ \A c \in Callers : call[c].step = "draining"
                            => call[c].kind = "command" /\ mail[call[c].id] = "result"
    /\ \A c \in Callers : call[c].step = "awaiting" => call[c].kind # "notify"

(* As long as there is a reader, a command the server works on is awaited. *)
Underway(id) == \/ serving[id] \in {"computing", "pushed"}
                \/ Msg("command", id) \in After(toServer, 0)

AwaitedInv ==
    reader.step # "gone" =>
      \A id \in Ids : Underway(id) =>
        \E c \in Callers : call[c].kind = "command" /\ call[c].step = "awaiting" /\ call[c].id = id

(* What was broadcast since a command subscribed holds no push but its     *)
(* own, and holds that before the server can answer.                       *)
Broadcast(c) == After(feed, call[c].from)

Answerable(id) == \/ serving[id] \in {"answering", "answered"}
                  \/ Msg("reply", id) \in After(toServer, 0)

FeedInv ==
    /\ \A m \in After(feed, 0) :
         m.kind = "applyEdit" => /\ m.id \in Ids
                                 /\ serving[m.id] \in {"pushed", "answering", "answered"}
    /\ \A c \in Callers : call[c].kind = "command" /\ call[c].step # "done" =>
         /\ call[c].edit = 0 /\ call[c].from <= Len(feed)
         /\ \A m \in Broadcast(c) : m.kind = "applyEdit" => m.id = call[c].id
    /\ \A c \in Callers :
         (call[c].kind = "command" /\ call[c].step \in {"awaiting", "draining"}
                                   /\ Answerable(call[c].id))
           => Msg("applyEdit", call[c].id) \in Broadcast(c)

CaptureInv ==
    /\ Exclusive /\ ToServerInv /\ ToClientInv /\ MailInv /\ AwaitedInv /\ FeedInv
    /\ EditCaptured

LEMMA AskerId ==
  ASSUME ClientTypeOK, ChannelsInv, NEW c \in Callers, call[c].kind # "notify"
  PROVE  call[c].id \in Ids /\ call[c].id # 0
  BY BoundsAssumption DEF ChannelsInv, IdsInv, ClientTypeOK, Call, Ids

LEMMA CaptureInit == Init => CaptureInv
<1> SUFFICES ASSUME Init PROVE CaptureInv
  OBVIOUS
<1>1. After(<<>>, 0) = {} /\ Once(<<>>)
  BY DEF After, Once
<1>2. \A c \in Callers : call[c] = NoCall
  BY DEF Init
<1>3. NoCall.step = "idle" /\ NoCall.kind = "notify" /\ NoCall.id = 0
  BY DEF NoCall
<1>4. /\ toServer = <<>> /\ toClient = <<>> /\ feed = <<>> /\ reader.step = "reading"
      /\ \A id \in Ids : serving[id] = "unread" /\ mail[id] = "none"
  BY DEF Init
<1>5. Exclusive /\ EditCaptured /\ MailInv
  BY <1>2, <1>3, <1>4 DEF Exclusive, EditCaptured, MailInv
<1>6. ToServerInv /\ ToClientInv
  BY <1>1, <1>2, <1>3, <1>4 DEF ToServerInv, Unsent, ToClientInv
<1>7. AwaitedInv
  BY <1>1, <1>4 DEF AwaitedInv, Underway
<1>8. FeedInv
  BY <1>1, <1>2, <1>3, <1>4 DEF FeedInv
<1> QED
  BY <1>5, <1>6, <1>7, <1>8 DEF CaptureInv

(* Not one of the invariants tells the difference. *)
LEMMA CaptureUntouched ==
  ASSUME CaptureInv, UNCHANGED <<next_id, mail, call, reader, feed, toServer, toClient, serving>>
  PROVE  CaptureInv'
  BY DEF CaptureInv, Exclusive, ToServerInv, Unsent, ToClientInv, Pushing, MailInv, AwaitedInv,
     Underway, FeedInv, Broadcast, Answerable, EditCaptured

LEMMA MsgFacts == \A kind, id : Msg(kind, id).kind = kind /\ Msg(kind, id).id = id
  BY DEF Msg

(* A command that was answered is not being worked on.                     *)
LEMMA AnsweredIsOver ==
  ASSUME ToServerInv, MailInv, NEW id \in Ids, mail[id] \in {"result", "error"}
  PROVE  ~Underway(id)
<1>1. id # 0 /\ serving[id] \in {"answered", "editless"}
  BY DEF MailInv, Ids
<1> QED
  BY <1>1, MsgFacts DEF ToServerInv, Underway

(* A call moves on: it takes the lock, fails to write, unregisters, or     *)
(* has been answered.                                                      *)
LEMMA CaptureGoto ==
  ASSUME ClientTypeOK, CaptureInv, NEW c \in Callers,
         NEW step \in {"writing", "unregister", "draining", "done"}, Goto(c, step),
         UNCHANGED <<next_id, mail, reader, feed, toServer, toClient, serving>>,
         call[c].step # "idle",
         step \in {"writing", "unregister"} => call[c].step \in {"registered", "writing"},
         step = "draining" => call[c].kind = "command" /\ mail[call[c].id] = "result",
         step = "draining" => call[c].step = "awaiting",
         call[c].step = "awaiting" => call[c].id \in Ids /\ mail[call[c].id] # "none",
         step = "done" /\ call[c].kind = "command" /\ mail[call[c].id] = "result"
           => call[c].edit = IF serving[call[c].id] = "editless" THEN 0 ELSE call[c].id
  PROVE  CaptureInv'
<1>1. \A d \in Callers : /\ call'[d].id = call[d].id /\ call'[d].kind = call[d].kind
                         /\ call'[d].from = call[d].from /\ call'[d].edit = call[d].edit
                         /\ call'[d].step = IF d = c THEN step ELSE call[d].step
  BY GotoFacts
<1>2. Exclusive'
  BY <1>1 DEF CaptureInv, Exclusive
<1>3. ToServerInv' /\ ToClientInv'
  BY <1>1 DEF CaptureInv, ToServerInv, Unsent, ToClientInv, Pushing
<1>4. MailInv'
  BY <1>1 DEF CaptureInv, MailInv
<1>5. AwaitedInv'
  <2> SUFFICES ASSUME reader.step # "gone", NEW id \in Ids, Underway(id)
               PROVE  \E d \in Callers : /\ call'[d].kind = "command" /\ call'[d].step = "awaiting"
                                         /\ call'[d].id = id
    BY <1>1 DEF AwaitedInv, Underway
  <2>1. PICK d \in Callers : call[d].kind = "command" /\ call[d].step = "awaiting" /\ call[d].id = id
    BY DEF CaptureInv, AwaitedInv
  <2>2. d # c
    <3>1. ASSUME d = c PROVE FALSE
      <4>1. mail[id] \in {"result", "error", "closed"}
        BY <2>1, <3>1 DEF ClientTypeOK
      <4> QED
        BY <4>1, AnsweredIsOver DEF CaptureInv, MailInv
    <3> QED
      BY <3>1
  <2> QED
    BY <1>1, <2>1, <2>2
<1>6. FeedInv'
  BY <1>1 DEF CaptureInv, FeedInv, Broadcast, Answerable
<1>7. EditCaptured'
  BY <1>1 DEF CaptureInv, EditCaptured
<1> QED
  BY <1>2, <1>3, <1>4, <1>5, <1>6, <1>7 DEF CaptureInv

(* A call begins.                                                          *)
LEMMA CaptureBegins ==
  ASSUME ClientTypeOK, ChannelsInv, CaptureInv, NEW c \in Callers,
         request(c) \/ execute_capturing_edit(c) \/ notify(c)
  PROVE  CaptureInv'
<1>1. /\ next_id \in Ids /\ next_id # 0 /\ Len(feed) \in Nat
      /\ call[c].step = "idle" /\ \A d \in Callers : call[d].kind # "command"
      /\ UNCHANGED <<mail, reader, feed, toServer, toClient, serving>>
  BY BoundsAssumption
  DEF ClientTypeOK, Ids, request, execute_capturing_edit, notify, MayCall, serverVars
<1>2. PICK j \in Call :
        /\ call' = [call EXCEPT ![c] = j] /\ j.step = "registered"
        /\ \/ j.kind = "notify" /\ j.id = 0 /\ next_id' = next_id
           \/ /\ j.kind \in {"request", "command"} /\ j.id = next_id /\ next_id' = next_id + 1
              /\ j.kind = "command" => /\ j.from = Len(feed) /\ j.edit = 0
                                       /\ \A d \in Callers \ {c} : call[d].step = "idle"
  <2>0. next_id \in 0..MaxId
    BY <1>1, BoundsAssumption DEF Ids
  <2>1. CASE notify(c)
    <3> DEFINE j == [NoCall EXCEPT !.step = "registered"]
    <3>1. j \in Call /\ j.step = "registered" /\ j.kind = "notify" /\ j.id = 0
      BY NoCallType DEF Call, NoCall
    <3>2. call' = [call EXCEPT ![c] = j] /\ next_id' = next_id
      BY <2>1 DEF notify
    <3> HIDE DEF j
    <3> QED
      BY <3>1, <3>2
  <2>2. CASE request(c)
    <3> DEFINE j == [NoCall EXCEPT !.step = "registered", !.kind = "request", !.id = next_id]
    <3>1. j \in Call /\ j.step = "registered" /\ j.kind = "request" /\ j.id = next_id
      BY <2>0, NoCallType DEF Call
    <3>2. call' = [call EXCEPT ![c] = j] /\ next_id' = next_id + 1
      BY <2>2 DEF request
    <3> HIDE DEF j
    <3> QED
      BY <3>1, <3>2
  <2>3. CASE execute_capturing_edit(c)
    <3> DEFINE j == [NoCall EXCEPT !.step = "registered", !.kind = "command", !.id = next_id,
                                   !.from = Len(feed)]
    <3>1. NoCall.edit = 0
      BY DEF NoCall
    <3>2. /\ j \in Call /\ j.step = "registered" /\ j.kind = "command" /\ j.id = next_id
          /\ j.from = Len(feed) /\ j.edit = 0
      BY <1>1, <2>0, <3>1, NoCallType DEF Call
    <3>3. call' = [call EXCEPT ![c] = j] /\ next_id' = next_id + 1 /\ Alone(c)
      BY <2>3 DEF execute_capturing_edit
    <3> HIDE DEF j
    <3> QED
      BY <3>2, <3>3 DEF Alone
  <2> QED
    BY <2>1, <2>2, <2>3
<1>3. \A d \in Callers : call'[d] = IF d = c THEN j ELSE call[d]
  BY <1>2 DEF ClientTypeOK
<1>4. Exclusive'
  BY <1>1, <1>2, <1>3 DEF CaptureInv, Exclusive
<1>5. ToServerInv' /\ ToClientInv'
  <2>1. next_id' >= next_id
    BY <1>1, <1>2 DEF Ids
  <2>2. \A id \in Ids : id >= next_id' => id >= next_id
    BY <1>1, <2>1, <1>2 DEF Ids
  <2>3. serving[next_id] = "unread" /\ Unsent(next_id)
    BY <1>1 DEF CaptureInv, ToServerInv, Ids
  <2>4. \A d \in Callers : \A m \in After(toServer, 0) :
          m.id # 0 /\ m.id = call'[d].id => m.kind \in {call'[d].kind, "reply"}
    BY <1>2, <1>3, <2>3 DEF CaptureInv, ToServerInv, Unsent
  <2>5. \A d \in Callers :
         call'[d].kind # "notify" /\ call'[d].step \in {"registered", "writing", "unregister"}
           => serving[call'[d].id] = "unread" /\ Unsent(call'[d].id)
    BY <1>2, <1>3, <2>3 DEF CaptureInv, ToServerInv
  <2> QED
    BY <1>1, <2>2, <2>4, <2>5 DEF CaptureInv, ToServerInv, Unsent, ToClientInv, Pushing
<1>6. MailInv'
  BY <1>1, <1>2, <1>3 DEF CaptureInv, MailInv
<1>7. AwaitedInv'
  BY <1>1, <1>2, <1>3 DEF CaptureInv, AwaitedInv, Underway
<1>8. FeedInv'
  <2>1. After(feed, Len(feed)) = {} /\ Len(feed) <= Len(feed)
    BY <1>1, AfterEnd DEF ClientTypeOK
  <2> QED
    BY <1>1, <1>2, <1>3, <2>1 DEF CaptureInv, FeedInv, Broadcast, Answerable
<1>9. EditCaptured'
  BY <1>1, <1>2, <1>3 DEF CaptureInv, EditCaptured
<1> QED
  BY <1>4, <1>5, <1>6, <1>7, <1>8, <1>9 DEF CaptureInv

LEMMA CaptureFinish ==
  ASSUME ClientTypeOK, CaptureInv, NEW c \in Callers, Finish(c)
  PROVE  CaptureInv'
<1>1. /\ call[c].step = "done"
      /\ UNCHANGED <<next_id, mail, reader, feed, toServer, toClient, serving>>
      /\ \A d \in Callers : call'[d] = IF d = c THEN NoCall ELSE call[d]
  BY DEF Finish, ClientTypeOK, serverVars
<1>2. NoCall.step = "idle" /\ NoCall.kind = "notify" /\ NoCall.id = 0
  BY DEF NoCall
<1>3. Exclusive' /\ MailInv' /\ EditCaptured'
  BY <1>1, <1>2 DEF CaptureInv, Exclusive, MailInv, EditCaptured
<1>4. ToServerInv' /\ ToClientInv'
  BY <1>1, <1>2 DEF CaptureInv, ToServerInv, Unsent, ToClientInv, Pushing
<1>5. AwaitedInv'
  BY <1>1, <1>2 DEF CaptureInv, AwaitedInv, Underway
<1>6. FeedInv'
  BY <1>1, <1>2 DEF CaptureInv, FeedInv, Broadcast, Answerable
<1> QED
  BY <1>3, <1>4, <1>5, <1>6 DEF CaptureInv

(* A message goes into the server's pipe.                                  *)
LEMMA CaptureWrite ==
  ASSUME ClientTypeOK, PipesTypeOK, ServerTypeOK, ChannelsInv, CaptureInv,
         NEW c \in Callers, write(c)
  PROVE  CaptureInv'
<1> DEFINE msg == Msg(call[c].kind, call[c].id)
           step == IF call[c].kind = "notify" THEN "done" ELSE "awaiting"
<1>1. /\ call[c].step = "writing" /\ call[c] \in Call
      /\ UNCHANGED <<next_id, mail, reader, feed, toClient, serving>>
      /\ toServer' = Append(toServer, msg)
  BY DEF write, ClientTypeOK, serverVars
<1>2. /\ msg \in Messages /\ msg.kind = call[c].kind /\ msg.id = call[c].id
      /\ call[c].kind \in {"request", "command", "notify"}
  BY <1>1, MsgType DEF Call
<1>3. Goto(c, step)
  BY DEF write
<1>4. \A d \in Callers : /\ call'[d].id = call[d].id /\ call'[d].kind = call[d].kind
                         /\ call'[d].from = call[d].from /\ call'[d].edit = call[d].edit
                         /\ call'[d].step = IF d = c THEN step ELSE call[d].step
  BY <1>3, GotoFacts
<1> HIDE DEF msg
<1>5. After(toServer', 0) = After(toServer, 0) \union {msg}
  BY <1>1, <1>2, AfterAppend DEF PipesTypeOK
<1>6. \/ call[c].kind = "notify" /\ msg.id = 0
      \/ /\ call[c].kind # "notify" /\ msg.id # 0 /\ msg.id \in Ids /\ msg.id < next_id
         /\ serving[msg.id] = "unread" /\ Unsent(msg.id)
  <2>1. msg.id \in 0..MaxId /\ MaxId \in Nat
    BY <1>2, BoundsAssumption DEF Messages
  <2> QED
    BY <1>1, <1>2, <2>1 DEF ChannelsInv, IdsInv, CaptureInv, ToServerInv, Ids
<1>7. Once(toServer')
  BY <1>1, <1>2, <1>6, OnceAppend DEF PipesTypeOK, CaptureInv, ToServerInv, Unsent
<1>8. \A d \in Callers \ {c} : call[d].kind # "notify" => call[d].id # msg.id
  BY <1>2, <1>6 DEF ChannelsInv, IdsInv
<1>9. Exclusive' /\ MailInv' /\ EditCaptured'
  BY <1>1, <1>4 DEF CaptureInv, Exclusive, MailInv, EditCaptured
<1>10. ToServerInv'
  <2>1. ASSUME NEW id \in Ids, id >= next_id PROVE serving[id] = "unread" /\ Unsent(id)'
    <3>1. id # msg.id
      BY <1>6, <2>1 DEF Ids, ClientTypeOK
    <3> QED
      BY <1>5, <2>1, <3>1 DEF CaptureInv, ToServerInv, Unsent
  <2>2. ASSUME NEW d \in Callers, call'[d].kind # "notify",
               call'[d].step \in {"registered", "writing", "unregister"}
        PROVE  serving[call[d].id] = "unread" /\ Unsent(call[d].id)'
    <3>1. d # c
      BY <1>4, <2>2
    <3> QED
      BY <1>4, <1>5, <1>8, <2>2, <3>1 DEF CaptureInv, ToServerInv, Unsent
  <2>3. \A m \in After(toServer', 0) : m.id # 0 =>
          \/ m.kind \in {"request", "command"} /\ serving[m.id] = "unread"
          \/ m.kind = "reply" /\ serving[m.id] = "pushed"
    BY <1>2, <1>5, <1>6 DEF CaptureInv, ToServerInv
  <2>4. ASSUME NEW d \in Callers, NEW m \in After(toServer', 0), m.id # 0, m.id = call'[d].id
        PROVE  m.kind \in {call'[d].kind, "reply"}
    <3>1. CASE m \in After(toServer, 0)
      BY <1>4, <2>4, <3>1 DEF CaptureInv, ToServerInv
    <3>2. CASE m = msg
      <4>1. call[d].kind # "notify"
        BY <1>4, <2>4 DEF ChannelsInv, IdsInv
      <4>2. d = c
        BY <1>4, <1>8, <2>4, <3>2, <4>1
      <4> QED
        BY <1>2, <1>4, <3>2, <4>2
    <3> QED
      BY <1>5, <2>4, <3>1, <3>2
  <2> QED
    BY <1>1, <1>4, <1>7, <2>1, <2>2, <2>3, <2>4 DEF ToServerInv, Unsent
<1>11. ToClientInv'
  <2>1. ASSUME NEW id, Pushing(id) PROVE Pushing(id)'
    <3>1. id # msg.id
      BY <1>6, <2>1 DEF Pushing, Ids
    <3> QED
      BY <1>1, <1>5, <2>1, <3>1 DEF Pushing, Unsent
  <2> QED
    BY <1>1, <2>1 DEF CaptureInv, ToClientInv
<1>12. AwaitedInv'
  <2> SUFFICES ASSUME reader.step # "gone", NEW id \in Ids, Underway(id)'
               PROVE  \E d \in Callers : /\ call'[d].kind = "command" /\ call'[d].step = "awaiting"
                                         /\ call'[d].id = id
    BY <1>1 DEF AwaitedInv
  <2>1. CASE Underway(id)
    <3>1. PICK d \in Callers : call[d].kind = "command" /\ call[d].step = "awaiting" /\ call[d].id = id
      BY <2>1 DEF CaptureInv, AwaitedInv
    <3> QED
      BY <1>1, <1>4, <3>1
  <2>2. CASE Msg("command", id) = msg
    <3>1. call[c].kind = "command" /\ call[c].id = id
      BY <1>2, <2>2, MsgFacts
    <3> QED
      BY <1>4, <3>1
  <2> QED
    BY <1>1, <1>5, <2>1, <2>2 DEF Underway
<1>13. FeedInv'
  <2>1. \A id : Answerable(id)' => Answerable(id)
    BY <1>1, <1>2, <1>5, MsgFacts DEF Answerable
  <2>2. ~Answerable(msg.id) \/ msg.id = 0
    BY <1>6, MsgFacts DEF Answerable, Unsent
  <2>3. ASSUME NEW d \in Callers, call'[d].kind = "command",
               call'[d].step \in {"awaiting", "draining"}, Answerable(call[d].id)
        PROVE  Msg("applyEdit", call[d].id) \in After(feed, call[d].from)
    <3>1. d # c
      BY <1>2, <1>4, <1>6, <2>2, <2>3
    <3> QED
      BY <1>4, <2>3, <3>1 DEF CaptureInv, FeedInv, Broadcast
  <2>4. ASSUME NEW d \in Callers, call'[d].kind = "command", call'[d].step # "done"
        PROVE  call[d].kind = "command" /\ call[d].step # "done"
    BY <1>1, <1>4, <2>4
  <2> QED
    BY <1>1, <1>4, <2>1, <2>3, <2>4 DEF CaptureInv, FeedInv, Broadcast
<1> QED
  BY <1>9, <1>10, <1>11, <1>12, <1>13 DEF CaptureInv

(* The command's edit is taken from what was broadcast.                    *)
LEMMA CaptureDrain ==
  ASSUME ClientTypeOK, CaptureInv, NEW c \in Callers, Drain(c),
         Len(feed) - call[c].from <= Capacity
  PROVE  CaptureInv'
<1> DEFINE n   == call[c].from
           msg == feed[n + 1]
           j   == IF msg.kind = "applyEdit" THEN [call[c] EXCEPT !.step = "done", !.edit = msg.id]
                  ELSE [call[c] EXCEPT !.from = n + 1]
<1>1. /\ call[c].step = "draining" /\ call[c] \in Call /\ feed \in Seq(Messages)
      /\ UNCHANGED <<next_id, mail, reader, feed, toServer, toClient, serving>>
  BY DEF Drain, ClientTypeOK, serverVars
<1>2. Oldest(c) = n /\ n \in Nat /\ n < Len(feed) /\ Len(feed) \in Nat
  BY <1>1, BoundsAssumption DEF Oldest, Drain, Call
<1>3. call' = [call EXCEPT ![c] = j]
  BY <1>2 DEF Drain
<1>4. call[c].kind = "command" /\ mail[call[c].id] = "result"
  BY <1>1 DEF CaptureInv, MailInv
<1>5. call[c].edit = 0 /\ \A m \in After(feed, n) : m.kind = "applyEdit" => m.id = call[c].id
  BY <1>1, <1>4 DEF CaptureInv, FeedInv, Broadcast
<1>6. After(feed, n) = {msg} \union After(feed, n + 1) /\ After(feed, n) \subseteq After(feed, 0)
  BY <1>1, <1>2, AfterStep, AfterSubset
<1>7. /\ j.id = call[c].id /\ j.kind = call[c].kind
      /\ \/ /\ msg.kind = "applyEdit" /\ j.step = "done" /\ j.edit = call[c].id
            /\ serving[call[c].id] # "editless"
         \/ /\ msg.kind # "applyEdit" /\ j.step = "draining" /\ j.edit = 0 /\ j.from = n + 1
  <2>1. CASE msg.kind = "applyEdit"
    <3>1. msg.id = call[c].id /\ msg \in After(feed, 0)
      BY <1>5, <1>6, <2>1
    <3>2. serving[call[c].id] \in {"pushed", "answering", "answered"}
      BY <2>1, <3>1 DEF CaptureInv, FeedInv
    <3>3. j = [call[c] EXCEPT !.step = "done", !.edit = msg.id]
      BY <2>1
    <3>4. j.id = call[c].id /\ j.kind = call[c].kind /\ j.step = "done" /\ j.edit = msg.id
      BY <1>1, <3>3 DEF Call
    <3> QED
      BY <2>1, <3>1, <3>2, <3>4
  <2>2. CASE msg.kind # "applyEdit"
    <3>1. j = [call[c] EXCEPT !.from = n + 1]
      BY <2>2
    <3>2. /\ j.id = call[c].id /\ j.kind = call[c].kind /\ j.step = call[c].step
          /\ j.edit = call[c].edit /\ j.from = n + 1
      BY <1>1, <3>1 DEF Call
    <3> QED
      BY <1>1, <1>5, <2>2, <3>2
  <2> QED
    BY <2>1, <2>2
<1>8. \A d \in Callers : call'[d] = IF d = c THEN j ELSE call[d]
  BY <1>3 DEF ClientTypeOK
<1> HIDE DEF j, msg
<1>9. Exclusive' /\ MailInv'
  BY <1>1, <1>4, <1>7, <1>8 DEF CaptureInv, Exclusive, MailInv
<1>10. ToServerInv' /\ ToClientInv'
  BY <1>1, <1>7, <1>8 DEF CaptureInv, ToServerInv, Unsent, ToClientInv, Pushing
<1>11. AwaitedInv'
  BY <1>1, <1>7, <1>8 DEF CaptureInv, AwaitedInv, Underway
<1>12. FeedInv'
  <2>1. ASSUME msg.kind # "applyEdit", Answerable(call[c].id)
        PROVE  Msg("applyEdit", call[c].id) \in After(feed, n + 1)
    <3>1. Msg("applyEdit", call[c].id) \in After(feed, n)
      BY <1>1, <1>4, <2>1 DEF CaptureInv, FeedInv, Broadcast
    <3> QED
      BY <1>6, <2>1, <3>1, MsgFacts
  <2>2. \A d \in Callers : call'[d].kind = "command" /\ call'[d].step # "done" =>
          /\ call'[d].edit = 0 /\ call'[d].from <= Len(feed)
          /\ \A m \in After(feed, call'[d].from) : m.kind = "applyEdit" => m.id = call'[d].id
    BY <1>1, <1>2, <1>4, <1>5, <1>6, <1>7, <1>8 DEF CaptureInv, FeedInv, Broadcast
  <2>3. \A d \in Callers :
          (call'[d].kind = "command" /\ call'[d].step \in {"awaiting", "draining"}
                                     /\ Answerable(call'[d].id))
            => Msg("applyEdit", call'[d].id) \in After(feed, call'[d].from)
    BY <1>7, <1>8, <2>1 DEF CaptureInv, FeedInv, Broadcast
  <2> QED
    BY <1>1, <2>2, <2>3 DEF CaptureInv, FeedInv, Broadcast, Answerable
<1>13. EditCaptured'
  BY <1>1, <1>4, <1>7, <1>8 DEF CaptureInv, EditCaptured
<1> QED
  BY <1>9, <1>10, <1>11, <1>12, <1>13 DEF CaptureInv

(* The steps of a call. *)
LEMMA CaptureCallSteps ==
  ASSUME ClientTypeOK, PipesTypeOK, ServerTypeOK, ChannelsInv, CaptureInv,
         NEW c \in Callers, CallSteps(c),
         call[c].step = "draining" => Len(feed) - call[c].from <= Capacity
  PROVE  CaptureInv'
<1>1. CASE LockStdin(c)
  <2>1. /\ call[c].step = "registered" /\ Goto(c, "writing")
        /\ UNCHANGED <<next_id, mail, reader, feed, toServer, toClient, serving>>
    BY <1>1 DEF LockStdin, serverVars
  <2> QED
    BY <2>1, CaptureGoto
<1>2. CASE WriteFails(c)
  <2>1. /\ call[c].step = "writing" /\ Goto(c, "unregister")
        /\ UNCHANGED <<next_id, mail, reader, feed, toServer, toClient, serving>>
    BY <1>2 DEF WriteFails, serverVars
  <2> QED
    BY <2>1, CaptureGoto
<1>3. CASE Unregister(c)
  <2>1. /\ call[c].step = "unregister" /\ Goto(c, "done")
        /\ UNCHANGED <<next_id, mail, reader, feed, toServer, toClient, serving>>
    BY <1>3 DEF Unregister, serverVars
  <2>2. ASSUME call[c].kind = "command" PROVE mail[call[c].id] # "result"
    <3>1. serving[call[c].id] = "unread"
      BY <2>1, <2>2 DEF CaptureInv, ToServerInv
    <3>2. call[c].id \in Ids
      BY <2>2, BoundsAssumption DEF ChannelsInv, IdsInv, ClientTypeOK, Call, Ids
    <3> QED
      BY <3>1, <3>2 DEF CaptureInv, MailInv
  <2> QED
    BY <2>1, <2>2, CaptureGoto
<1>4. CASE Receive(c)
  <2>1. /\ call[c].step = "awaiting" /\ mail[call[c].id] # "none"
        /\ UNCHANGED <<next_id, mail, reader, feed, toServer, toClient, serving>>
    BY <1>4 DEF Receive, serverVars
  <2>2. call[c].id \in Ids
    <3>1. call[c].kind # "notify"
      BY <2>1 DEF CaptureInv, MailInv
    <3> QED
      BY <3>1, BoundsAssumption DEF ChannelsInv, IdsInv, ClientTypeOK, Call, Ids
  <2>3. CASE call[c].kind = "command" /\ mail[call[c].id] = "result"
    <3>1. Goto(c, "draining")
      BY <1>4, <2>3 DEF Receive
    <3> QED
      BY <2>1, <2>2, <2>3, <3>1, CaptureGoto
  <2>4. CASE ~(call[c].kind = "command" /\ mail[call[c].id] = "result")
    <3>1. Goto(c, "done")
      BY <1>4, <2>4 DEF Receive
    <3> QED
      BY <2>1, <2>2, <2>4, <3>1, CaptureGoto
  <2> QED
    BY <2>3, <2>4
<1>5. CASE DrainTimeout(c)
  <2>1. /\ call[c].step = "draining" /\ Goto(c, "done") /\ Oldest(c) = Len(feed)
        /\ UNCHANGED <<next_id, mail, reader, feed, toServer, toClient, serving>>
    BY <1>5 DEF DrainTimeout, serverVars
  <2>2. call[c].kind = "command" /\ mail[call[c].id] = "result" /\ call[c].edit = 0
    BY <2>1 DEF CaptureInv, MailInv, FeedInv
  <2>3. call[c].from = Len(feed)
    BY <2>1, BoundsAssumption DEF Oldest, ClientTypeOK, Call
  <2>4. ~Answerable(call[c].id)
    <3>1. Broadcast(c) = {}
      BY <2>3, AfterEnd DEF Broadcast, ClientTypeOK
    <3> QED
      BY <2>1, <2>2, <3>1 DEF CaptureInv, FeedInv
  <2>5. serving[call[c].id] = "editless"
    <3>1. call[c].id \in Ids
      BY <2>2, BoundsAssumption DEF ChannelsInv, IdsInv, ClientTypeOK, Call, Ids
    <3> QED
      BY <2>2, <2>4, <3>1 DEF CaptureInv, MailInv, Answerable
  <2> QED
    BY <2>1, <2>2, <2>5, CaptureGoto
<1>6. CASE write(c)
  BY <1>6, CaptureWrite
<1>7. CASE Drain(c)
  <2>1. Len(feed) - call[c].from <= Capacity
    BY <1>7 DEF Drain
  <2> QED
    BY <1>7, <2>1, CaptureDrain
<1>8. CASE Finish(c)
  BY <1>8, CaptureFinish
<1> QED
  BY <1>1, <1>2, <1>3, <1>4, <1>5, <1>6, <1>7, <1>8 DEF CallSteps

(* The server reads a message: a request it was sent, or a reply.          *)
LEMMA CaptureServerReads ==
  ASSUME PipesTypeOK, ServerTypeOK, ClientTypeOK, ChannelsInv, CaptureInv, ServerReads
  PROVE  CaptureInv'
<1> DEFINE msg == Head(toServer)
           new == IF msg.kind = "command" THEN "computing" ELSE "answering"
<1>1. /\ toServer # <<>> /\ toServer \in Seq(Messages) /\ msg \in Messages
      /\ UNCHANGED <<next_id, mail, call, reader, feed, toClient>> /\ toServer' = Tail(toServer)
  BY HeadType DEF ServerReads, PipesTypeOK, clientVars
<1>2. After(toServer, 0) = {msg} \union After(toServer', 0)
  BY <1>1, AfterTail
<1>3. Once(toServer') /\ (msg.id = 0 \/ \A m \in After(toServer', 0) : m.id # msg.id)
  BY <1>1, OnceTail DEF CaptureInv, ToServerInv
<1>4. \A id \in Ids : serving'[id] = IF msg.id = id THEN new ELSE serving[id]
  <2>1. CASE msg.id = 0
    BY <2>1 DEF ServerReads, Ids
  <2>2. CASE msg.id # 0
    <3>1. serving' = [serving EXCEPT ![msg.id] = new]
      BY <2>2 DEF ServerReads
    <3> QED
      BY <3>1 DEF ServerTypeOK
  <2> QED
    BY <2>1, <2>2
<1>5. msg.id # 0 => \/ /\ msg.kind \in {"request", "command"} /\ serving[msg.id] = "unread"
                    \/ /\ msg.kind = "reply" /\ serving[msg.id] = "pushed"
  BY <1>2 DEF CaptureInv, ToServerInv
<1> HIDE DEF msg
<1>6. \A id : Unsent(id) => Unsent(id)' /\ msg.id # id
  BY <1>2 DEF Unsent
<1>7. \A m \in After(toServer', 0) : m.id # 0 => m.id \in Ids /\ m.id # msg.id
  <2>1. \A m \in After(toServer', 0) : m \in Messages
    BY <1>1, <1>2, AfterSubset
  <2> QED
    BY <1>3, <2>1, BoundsAssumption DEF Messages, Ids
<1>8. Exclusive' /\ EditCaptured' /\ MailInv'
  <2>1. Exclusive'
    BY <1>1 DEF CaptureInv, Exclusive
  <2>2. MailInv'
    BY <1>1, <1>4, <1>5 DEF CaptureInv, MailInv, Ids
  <2>3. ASSUME NEW c \in Callers, call[c].step = "done", call[c].kind = "command",
               mail[call[c].id] = "result"
        PROVE  call[c].edit = IF serving'[call[c].id] = "editless" THEN 0 ELSE call[c].id
    <3>1. call[c].id \in Ids
      BY <2>3, AskerId
    <3>2. serving[call[c].id] \in {"answered", "editless"}
      BY <2>3, <3>1 DEF CaptureInv, MailInv
    <3>3. serving'[call[c].id] = serving[call[c].id]
      <4>1. msg.id # call[c].id
        BY <1>5, <3>1, <3>2 DEF Ids
      <4> QED
        BY <1>4, <3>1, <4>1
    <3> QED
      BY <2>3, <3>3 DEF CaptureInv, EditCaptured
  <2> QED
    BY <1>1, <2>1, <2>2, <2>3 DEF EditCaptured
<1>9. ToServerInv'
  <2>1. \A m \in After(toServer', 0) : m.id # 0 =>
          \/ m.kind \in {"request", "command"} /\ serving'[m.id] = "unread"
          \/ m.kind = "reply" /\ serving'[m.id] = "pushed"
    BY <1>2, <1>4, <1>7 DEF CaptureInv, ToServerInv
  <2>2. \A id \in Ids : id >= next_id => serving'[id] = "unread" /\ Unsent(id)'
    BY <1>4, <1>6 DEF CaptureInv, ToServerInv
  <2>3. ASSUME NEW c \in Callers, call[c].kind # "notify",
               call[c].step \in {"registered", "writing", "unregister"}
        PROVE  serving'[call[c].id] = "unread" /\ Unsent(call[c].id)'
    <3>1. serving[call[c].id] = "unread" /\ Unsent(call[c].id)
      BY <2>3 DEF CaptureInv, ToServerInv
    <3>2. call[c].id \in Ids
      BY <2>3, AskerId
    <3> QED
      BY <1>1, <1>4, <1>6, <3>1, <3>2
  <2>4. \A c \in Callers : \A m \in After(toServer', 0) :
          m.id # 0 /\ m.id = call[c].id => m.kind \in {call[c].kind, "reply"}
    BY <1>2 DEF CaptureInv, ToServerInv
  <2> QED
    BY <1>1, <1>3, <2>1, <2>2, <2>3, <2>4 DEF ToServerInv, Unsent
<1>10. ToClientInv'
  <2>1. ASSUME NEW id, Pushing(id) PROVE Pushing(id)'
    BY <1>4, <1>6, <2>1 DEF Pushing
  <2>2. \A m \in After(toClient, 0) :
          /\ m.kind \in {"result", "error"} /\ m.id \in Ids /\ serving[m.id] \in {"answered", "editless"}
          => serving'[m.id] \in {"answered", "editless"}
    BY <1>4, <1>5 DEF Ids
  <2> QED
    BY <1>1, <2>1, <2>2 DEF CaptureInv, ToClientInv
<1>11. AwaitedInv'
  <2>1. ASSUME NEW id \in Ids, Underway(id)' PROVE Underway(id)
    <3>1. CASE serving'[id] \in {"computing", "pushed"}
      <4>1. CASE msg.id = id
        <5>1. msg.kind = "command" /\ msg.id = id /\ msg \in Messages
          BY <1>1, <1>4, <3>1, <4>1 DEF msg
        <5>2. msg = Msg("command", id)
          BY <5>1 DEF Messages, Msg
        <5> QED
          BY <1>2, <5>2 DEF Underway
      <4> QED
        BY <1>4, <3>1, <4>1 DEF Underway
    <3>2. CASE Msg("command", id) \in After(toServer', 0)
      BY <1>2, <3>2 DEF Underway
    <3> QED
      BY <2>1, <3>1, <3>2 DEF Underway
  <2> QED
    BY <1>1, <2>1 DEF CaptureInv, AwaitedInv
<1>12. FeedInv'
  <2>1. \A id \in Ids : serving[id] \in {"pushed", "answering", "answered"}
                          => serving'[id] \in {"pushed", "answering", "answered"}
    BY <1>4, <1>5 DEF Ids
  <2>2. ASSUME NEW c \in Callers, call[c].kind = "command", Answerable(call[c].id)'
        PROVE  Answerable(call[c].id)
    <3>1. call[c].id \in Ids
      BY <2>2, AskerId
    <3>2. CASE Msg("reply", call[c].id) \in After(toServer', 0)
      BY <1>2, <3>2 DEF Answerable
    <3>3. CASE serving'[call[c].id] \in {"answering", "answered"} /\ msg.id = call[c].id
      <4>1. msg.kind # "command"
        BY <1>4, <3>1, <3>3
      <4>2. msg.kind = "reply" /\ msg \in Messages
        <5>1. ~(msg.kind \in {"request", "command"})
          BY <1>2, <2>2, <3>1, <3>3, <4>1 DEF CaptureInv, ToServerInv, Ids
        <5> QED
          BY <1>1, <1>5, <3>1, <3>3, <5>1 DEF Ids, msg
      <4>3. msg = Msg("reply", call[c].id)
        BY <3>3, <4>2 DEF Messages, Msg
      <4> QED
        BY <1>2, <4>3 DEF Answerable
    <3>4. CASE serving'[call[c].id] \in {"answering", "answered"} /\ msg.id # call[c].id
      BY <1>4, <3>1, <3>4 DEF Answerable
    <3> QED
      BY <1>1, <2>2, <3>2, <3>3, <3>4 DEF Answerable
  <2>3. \A m \in After(feed, 0) :
          m.kind = "applyEdit" => /\ m.id \in Ids
                                  /\ serving'[m.id] \in {"pushed", "answering", "answered"}
    BY <2>1 DEF CaptureInv, FeedInv
  <2>4. \A c \in Callers :
          (call[c].kind = "command" /\ call[c].step \in {"awaiting", "draining"}
                                    /\ Answerable(call[c].id)')
            => Msg("applyEdit", call[c].id) \in Broadcast(c)
    BY <1>1, <2>2 DEF CaptureInv, FeedInv
  <2> QED
    BY <1>1, <2>3, <2>4 DEF CaptureInv, FeedInv, Broadcast
<1> QED
  BY <1>8, <1>9, <1>10, <1>11, <1>12 DEF CaptureInv

(* A message goes into the client's pipe: an answer, a push or a message   *)
(* of the server's own.                                                    *)
LEMMA CaptureServerSends ==
  ASSUME PipesTypeOK, ServerTypeOK, ClientTypeOK, ChannelsInv, CaptureInv,
         NEW msg \in Messages, toClient' = Append(toClient, msg),
         UNCHANGED <<next_id, mail, call, reader, feed, toServer>>,
         \A id \in Ids : id # msg.id => serving'[id] = serving[id],
         \/ msg.kind \in {"ask", "notice", "garbled"} /\ msg.id = 0
         \/ /\ msg.id \in Ids /\ serving[msg.id] = "computing"
            /\ \/ msg.kind = "applyEdit" /\ serving'[msg.id] = "pushed"
               \/ msg.kind \in {"result", "error"} /\ serving'[msg.id] = "editless"
         \/ /\ msg.id \in Ids /\ serving[msg.id] = "answering"
            /\ msg.kind \in {"result", "error"} /\ serving'[msg.id] = "answered"
  PROVE  CaptureInv'
<1>1. After(toClient', 0) = After(toClient, 0) \union {msg}
  BY AfterAppend DEF PipesTypeOK
<1>2. /\ 0 \notin Ids
      /\ msg.id = 0 \/ (msg.id \in Ids /\ serving[msg.id] \in {"computing", "answering"})
  BY DEF Ids
<1>3. msg.id \in Ids => Unsent(msg.id)
  BY <1>2 DEF CaptureInv, ToServerInv, Unsent
<1>4. msg.id = 0 \/ \A m \in After(toClient, 0) : m.id # msg.id
  BY <1>2 DEF CaptureInv, ToClientInv, Pushing
<1>5. Once(toClient')
  BY <1>4, OnceAppend DEF PipesTypeOK, CaptureInv, ToClientInv
<1>6. \A id \in Ids : serving[id] \notin {"computing", "answering"} => serving'[id] = serving[id]
  BY <1>2
<1>7. Exclusive'
  BY DEF CaptureInv, Exclusive
<1>8. MailInv'
  BY <1>6 DEF CaptureInv, MailInv
<1>9. EditCaptured'
  <2> SUFFICES ASSUME NEW c \in Callers, call[c].step = "done", call[c].kind = "command",
                      mail[call[c].id] = "result"
               PROVE  serving'[call[c].id] = serving[call[c].id]
    BY DEF CaptureInv, EditCaptured
  <2>1. call[c].id \in Ids
    BY AskerId
  <2> QED
    BY <1>6, <2>1 DEF CaptureInv, MailInv
<1>10. ToServerInv'
  <2>1. \A m \in After(toServer, 0) : m.id # 0 => m.id \in Ids
    <3>1. \A m \in After(toServer, 0) : m \in Messages
      BY AfterSubset DEF PipesTypeOK
    <3> QED
      BY <3>1, BoundsAssumption DEF Messages, Ids
  <2>2. ASSUME NEW c \in Callers, call[c].kind # "notify",
               call[c].step \in {"registered", "writing", "unregister"}
        PROVE  serving'[call[c].id] = "unread" /\ Unsent(call[c].id)
    BY <1>6, <2>2, AskerId DEF CaptureInv, ToServerInv
  <2> QED
    BY <1>6, <2>1, <2>2 DEF CaptureInv, ToServerInv, Unsent
<1>11. ToClientInv'
  <2>1. ASSUME NEW id, Pushing(id) PROVE id \in Ids /\ serving'[id] = "pushed" /\ Unsent(id) /\ id # msg.id
    BY <1>2, <1>6, <2>1 DEF Pushing
  <2>2. ASSUME NEW m \in After(toClient', 0)
        PROVE  \/ /\ m.kind \in {"result", "error"} /\ m.id \in Ids
                  /\ serving'[m.id] \in {"answered", "editless"}
               \/ m.kind = "applyEdit" /\ m.id \in Ids /\ serving'[m.id] = "pushed" /\ Unsent(m.id)
               \/ m.kind \in {"ask", "notice", "garbled"} /\ m.id = 0
    <3>1. CASE m = msg
      BY <1>3, <3>1
    <3>2. CASE m \in After(toClient, 0)
      <4>1. CASE m.kind \in {"result", "error"}
        BY <1>6, <3>2, <4>1 DEF CaptureInv, ToClientInv
      <4>2. CASE m.kind = "applyEdit"
        BY <2>1, <3>2, <4>2 DEF CaptureInv, ToClientInv
      <4> QED
        BY <3>2, <4>1, <4>2 DEF CaptureInv, ToClientInv
    <3> QED
      BY <1>1, <3>1, <3>2
  <2>3. reader.step \in {"locking", "replying"} =>
         \/ reader.msg.kind = "ask" /\ reader.msg.id = 0
         \/ /\ reader.msg.kind = "applyEdit" /\ reader.msg.id \in Ids
            /\ serving'[reader.msg.id] = "pushed" /\ Unsent(reader.msg.id)
            /\ \A m \in After(toClient', 0) : m.id # reader.msg.id
    BY <1>1, <2>1 DEF CaptureInv, ToClientInv
  <2> QED
    BY <1>5, <2>2, <2>3 DEF ToClientInv, Pushing, Unsent
<1>12. AwaitedInv'
  <2>1. ASSUME NEW id \in Ids, Underway(id)' PROVE Underway(id)
    BY <1>2, <2>1 DEF Underway
  <2> QED
    BY <2>1 DEF CaptureInv, AwaitedInv
<1>13. FeedInv'
  <2>1. \A id \in Ids : serving[id] \in {"pushed", "answering", "answered"}
                          => serving'[id] \in {"pushed", "answering", "answered"}
    BY <1>2
  <2>2. ASSUME NEW c \in Callers, call[c].kind = "command", Answerable(call[c].id)'
        PROVE  Answerable(call[c].id)
    <3>1. call[c].id \in Ids
      BY <2>2, AskerId
    <3> QED
      BY <1>2, <2>2, <3>1 DEF Answerable
  <2>3. \A m \in After(feed, 0) :
          m.kind = "applyEdit" => /\ m.id \in Ids
                                  /\ serving'[m.id] \in {"pushed", "answering", "answered"}
    BY <2>1 DEF CaptureInv, FeedInv
  <2>4. \A c \in Callers :
          (call[c].kind = "command" /\ call[c].step \in {"awaiting", "draining"}
                                    /\ Answerable(call[c].id)')
            => Msg("applyEdit", call[c].id) \in Broadcast(c)
    BY <2>2 DEF CaptureInv, FeedInv
  <2> QED
    BY <2>3, <2>4 DEF CaptureInv, FeedInv, Broadcast
<1> QED
  BY <1>7, <1>8, <1>9, <1>10, <1>11, <1>12, <1>13 DEF CaptureInv

(* The steps of the server. *)
LEMMA CaptureServer ==
  ASSUME PipesTypeOK, ServerTypeOK, ClientTypeOK, ChannelsInv, CaptureInv,
         \/ ServerReads \/ ServerNotifies \/ ServerGarbles \/ ServerDies
         \/ \E id \in Ids : ServerPushes(id) \/ ServerAnswers(id)
  PROVE  CaptureInv'
<1>1. CASE ServerNotifies \/ ServerGarbles
  <2>1. /\ UNCHANGED <<next_id, mail, call, reader, feed, toServer, serving>>
        /\ \E kind \in {"notice", "ask", "garbled"} : toClient' = Append(toClient, Msg(kind, 0))
    BY <1>1 DEF ServerNotifies, ServerGarbles, clientVars
  <2>2. PICK kind \in {"notice", "ask", "garbled"} : toClient' = Append(toClient, Msg(kind, 0))
    BY <2>1
  <2>3. Msg(kind, 0) \in Messages /\ Msg(kind, 0).kind = kind /\ Msg(kind, 0).id = 0
    BY MsgType, BoundsAssumption
  <2> QED
    BY <2>1, <2>2, <2>3, CaptureServerSends
<1>2. CASE ServerDies
  BY <1>2, CaptureUntouched DEF ServerDies, clientVars
<1>3. ASSUME NEW id \in Ids, ServerPushes(id) PROVE CaptureInv'
  <2>1. /\ UNCHANGED <<next_id, mail, call, reader, feed, toServer>>
        /\ serving[id] = "computing" /\ toClient' = Append(toClient, Msg("applyEdit", id))
        /\ \A i \in Ids : serving'[i] = IF i = id THEN "pushed" ELSE serving[i]
    BY <1>3 DEF ServerPushes, clientVars, ServerTypeOK
  <2>2. /\ Msg("applyEdit", id) \in Messages /\ Msg("applyEdit", id).kind = "applyEdit"
        /\ Msg("applyEdit", id).id = id
    BY MsgType, BoundsAssumption DEF Ids
  <2> QED
    BY <2>1, <2>2, CaptureServerSends
<1>4. ASSUME NEW id \in Ids, ServerAnswers(id) PROVE CaptureInv'
  <2>1. PICK kind \in {"result", "error"} : toClient' = Append(toClient, Msg(kind, id))
    BY <1>4 DEF ServerAnswers
  <2>2. /\ UNCHANGED <<next_id, mail, call, reader, feed, toServer>>
        /\ serving[id] \in {"computing", "answering"}
        /\ \A i \in Ids : i # id => serving'[i] = serving[i]
        /\ serving[id] = "computing" => serving'[id] = "editless"
        /\ serving[id] = "answering" => serving'[id] = "answered"
    BY <1>4 DEF ServerAnswers, clientVars, ServerTypeOK
  <2>3. /\ Msg(kind, id) \in Messages /\ Msg(kind, id).kind = kind /\ Msg(kind, id).id = id
    BY MsgType, BoundsAssumption DEF Ids
  <2> DEFINE msg == Msg(kind, id)
  <2> HIDE DEF msg
  <2>4. msg \in Messages /\ toClient' = Append(toClient, msg) /\ msg.id = id
        /\ msg.kind \in {"result", "error"}
    BY <2>1, <2>3 DEF msg
  <2> QED
    BY <2>2, <2>4, CaptureServerSends
<1> QED
  BY <1>1, <1>2, <1>3, <1>4, CaptureServerReads

(* What was broadcast grows at its end by a message that is no push, or    *)
(* the push of the one command there is.                                   *)
LEMMA FeedGrows ==
  ASSUME ClientTypeOK, FeedInv, NEW msg \in Messages, feed' = Append(feed, msg),
         UNCHANGED <<call, serving>>,
         msg.kind = "applyEdit" =>
           /\ msg.id \in Ids /\ serving[msg.id] = "pushed"
           /\ \A c \in Callers : call[c].kind = "command" /\ call[c].step # "done"
                                   => call[c].id = msg.id,
         \A c \in Callers : call[c].kind = "command" /\ Answerable(call[c].id)' /\ ~Answerable(call[c].id)
                              => msg = Msg("applyEdit", call[c].id)
  PROVE  FeedInv'
<1>1. After(feed', 0) = After(feed, 0) \union {msg} /\ Len(feed') = Len(feed) + 1 /\ Len(feed) \in Nat
  <2>1. 0 <= Len(feed) /\ Len(feed) \in Nat /\ feed \in Seq(Messages)
    BY DEF ClientTypeOK
  <2> QED
    BY <2>1, AfterAppend
<1>2. ASSUME NEW c \in Callers, call[c].kind = "command", call[c].step # "done"
      PROVE  Broadcast(c)' = Broadcast(c) \union {msg}
  <2>1. call[c].from \in Nat /\ call[c].from <= Len(feed) /\ feed \in Seq(Messages)
    BY <1>2 DEF ClientTypeOK, Call, FeedInv
  <2> QED
    BY <2>1, AfterAppend DEF Broadcast
<1>3. \A m \in After(feed', 0) :
         m.kind = "applyEdit" => /\ m.id \in Ids
                                 /\ serving[m.id] \in {"pushed", "answering", "answered"}
  BY <1>1 DEF FeedInv
<1>4. ASSUME NEW c \in Callers, call[c].kind = "command", call[c].step # "done"
      PROVE  /\ call[c].edit = 0 /\ call[c].from <= Len(feed')
             /\ \A m \in Broadcast(c)' : m.kind = "applyEdit" => m.id = call[c].id
  <2>1. call[c].edit = 0 /\ call[c].from <= Len(feed) /\ call[c].from \in Nat
    BY <1>4 DEF ClientTypeOK, Call, FeedInv
  <2>2. \A m \in Broadcast(c)' : m.kind = "applyEdit" => m.id = call[c].id
    BY <1>2, <1>4 DEF FeedInv
  <2> QED
    BY <1>1, <2>1, <2>2
<1>5. ASSUME NEW c \in Callers, call[c].kind = "command", call[c].step \in {"awaiting", "draining"},
             Answerable(call[c].id)'
      PROVE  Msg("applyEdit", call[c].id) \in Broadcast(c)'
  BY <1>2, <1>5 DEF FeedInv
<1> QED
  BY <1>3, <1>4, <1>5 DEF FeedInv

LEMMA CaptureRead ==
  ASSUME PipesTypeOK, ServerTypeOK, ClientTypeOK, ChannelsInv, CaptureInv, ReadMessage
  PROVE  CaptureInv'
<1> DEFINE msg == Head(toClient)
<1>1. /\ toClient # <<>> /\ toClient \in Seq(Messages) /\ msg \in Messages
      /\ toClient' = Tail(toClient) /\ reader.step = "reading"
      /\ UNCHANGED <<next_id, call, toServer, serving>>
  BY HeadType DEF ReadMessage, PipesTypeOK, serverVars
<1>2. After(toClient, 0) = {msg} \union After(toClient', 0)
  BY <1>1, AfterTail
<1>3. Once(toClient') /\ (msg.id = 0 \/ \A m \in After(toClient', 0) : m.id # msg.id)
  BY <1>1, OnceTail DEF CaptureInv, ToClientInv
<1>4. \/ /\ msg.kind \in {"result", "error"} /\ msg.id \in Ids
         /\ serving[msg.id] \in {"answered", "editless"}
      \/ msg.kind = "applyEdit" /\ Pushing(msg.id)
      \/ msg.kind \in {"ask", "notice", "garbled"} /\ msg.id = 0
  BY <1>2 DEF CaptureInv, ToClientInv
<1>5. \/ msg.kind \in {"result", "error"} /\ Respond(msg) /\ UNCHANGED <<reader, feed>>
      \/ msg.kind = "notice" /\ feed' = Append(feed, msg) /\ UNCHANGED <<reader, mail>>
      \/ /\ msg.kind \in {"applyEdit", "ask"} /\ reader' = [step |-> "locking", msg |-> msg]
         /\ UNCHANGED <<feed, mail>>
      \/ /\ msg.kind = "garbled" /\ reader' = [reader EXCEPT !.step = "failing"]
         /\ UNCHANGED <<feed, mail>>
  BY DEF ReadMessage
<1> HIDE DEF msg
<1>6. Exclusive' /\ ToServerInv'
  BY <1>1 DEF CaptureInv, Exclusive, ToServerInv, Unsent
<1>7. AwaitedInv'
  BY <1>1 DEF CaptureInv, AwaitedInv, Underway
<1>8. ToClientInv'
  <2>1. \A id : Pushing(id)' = Pushing(id)
    BY <1>1 DEF Pushing, Unsent
  <2>2. \A m \in After(toClient', 0) :
         \/ /\ m.kind \in {"result", "error"} /\ m.id \in Ids
            /\ serving[m.id] \in {"answered", "editless"}
         \/ m.kind = "applyEdit" /\ Pushing(m.id)
         \/ m.kind \in {"ask", "notice", "garbled"} /\ m.id = 0
    BY <1>2 DEF CaptureInv, ToClientInv
  <2>3. reader'.step \in {"locking", "replying"} =>
         \/ reader'.msg.kind = "ask" /\ reader'.msg.id = 0
         \/ /\ reader'.msg.kind = "applyEdit" /\ Pushing(reader'.msg.id)
            /\ \A m \in After(toClient', 0) : m.id # reader'.msg.id
    <3>1. CASE reader' = [step |-> "locking", msg |-> msg] /\ msg.kind \in {"applyEdit", "ask"}
      <4>1. reader'.msg = msg /\ (msg.kind = "applyEdit" => msg.id # 0)
        BY <1>4, <3>1 DEF Pushing, Ids
      <4> QED
        BY <1>3, <1>4, <3>1, <4>1
    <3>2. CASE UNCHANGED reader
      BY <1>1, <3>2
    <3>3. CASE reader' = [reader EXCEPT !.step = "failing"]
      BY <3>3 DEF ClientTypeOK
    <3> QED
      BY <1>5, <3>1, <3>2, <3>3
  <2>4. \A m : Pushing(m.id)' = Pushing(m.id)
    BY <1>1 DEF Pushing, Unsent
  <2> QED
    BY <1>1, <1>3, <2>2, <2>3 DEF ToClientInv, Pushing, Unsent
<1>9. MailInv' /\ EditCaptured'
  <2>1. CASE UNCHANGED mail
    <3>1. reader.step = "gone" => reader'.step = "gone"
      BY <1>1
    <3> QED
      BY <1>1, <2>1, <3>1 DEF CaptureInv, MailInv, EditCaptured
  <2>2. CASE msg.kind \in {"result", "error"} /\ Respond(msg) /\ UNCHANGED <<reader, feed>>
    <3>1. \A id \in Ids : mail'[id] = IF id \in pending /\ id = msg.id THEN msg.kind ELSE mail[id]
      BY <2>2 DEF Respond, ClientTypeOK
    <3>2. ASSUME NEW c \in Callers, call[c].kind = "command", call[c].step \in {"draining", "done"}
          PROVE  mail'[call[c].id] = mail[call[c].id]
      <4>1. call[c].id \in Ids /\ call[c].id # 0
        BY <3>2, AskerId
      <4>2. call[c].id \notin pending
        <5>1. ASSUME call[c].id \in pending PROVE FALSE
          <6>1. PICK d \in Callers :
                  call[d].id = call[c].id /\ (Asking(d) \/ call[d].step = "unregister")
            BY <5>1 DEF ChannelsInv, ChannelsExact
          <6> QED
            BY <3>2, <4>1, <6>1 DEF ChannelsInv, IdsInv, Asking
        <5> QED
          BY <5>1
      <4> QED
        BY <3>1, <4>1, <4>2
    <3>3. msg.id \in Ids /\ serving[msg.id] \in {"answered", "editless"}
      BY <1>4, <2>2 DEF Pushing
    <3>4. MailInv'
      BY <1>1, <2>2, <3>1, <3>2, <3>3 DEF CaptureInv, MailInv
    <3>5. EditCaptured'
      BY <1>1, <3>2 DEF CaptureInv, EditCaptured
    <3> QED
      BY <3>4, <3>5
  <2> QED
    BY <1>5, <2>1, <2>2
<1>10. FeedInv'
  <2>1. CASE UNCHANGED feed
    BY <1>1, <2>1 DEF CaptureInv, FeedInv, Broadcast, Answerable
  <2>2. CASE msg.kind = "notice" /\ feed' = Append(feed, msg)
    <3>1. \A c \in Callers : Answerable(call[c].id)' = Answerable(call[c].id)
      BY <1>1 DEF Answerable
    <3> QED
      BY <1>1, <2>2, <3>1, FeedGrows DEF CaptureInv
  <2> QED
    BY <1>5, <2>1, <2>2
<1> QED
  BY <1>6, <1>7, <1>8, <1>9, <1>10 DEF CaptureInv

(* The reader has replied: the request is broadcast.                       *)
LEMMA CaptureReply ==
  ASSUME PipesTypeOK, ServerTypeOK, ClientTypeOK, ChannelsInv, CaptureInv, Reply
  PROVE  CaptureInv'
<1> DEFINE msg == reader.msg
           reply == Msg("reply", msg.id)
<1>1. /\ reader.step = "replying" /\ feed' = Append(feed, msg)
      /\ UNCHANGED <<next_id, mail, call, toClient, serving>>
      /\ reader'.step = "reading"
      /\ UNCHANGED toServer \/ toServer' = Append(toServer, reply)
  BY DEF Reply, serverVars, ClientTypeOK
<1>2. /\ msg \in Messages /\ reply \in Messages /\ reply.kind = "reply" /\ reply.id = msg.id
  BY MsgType DEF ClientTypeOK, Messages
<1>3. \/ msg.kind = "ask" /\ msg.id = 0
      \/ /\ msg.kind = "applyEdit" /\ msg.id # 0 /\ Pushing(msg.id)
         /\ \A m \in After(toClient, 0) : m.id # msg.id
  BY <1>1 DEF CaptureInv, ToClientInv, Pushing, Ids
<1> HIDE DEF msg, reply
<1>4. /\ After(toServer, 0) \subseteq After(toServer', 0)
      /\ After(toServer', 0) \subseteq After(toServer, 0) \union {reply}
  <2>1. After(Append(toServer, reply), 0) = After(toServer, 0) \union {reply}
    BY <1>2, AfterAppend DEF PipesTypeOK
  <2> QED
    BY <1>1, <2>1
<1>5. Once(toServer')
  <2>1. reply.id = 0 \/ \A m \in After(toServer, 0) : m.id # reply.id
    BY <1>2, <1>3 DEF Pushing, Unsent
  <2> QED
    BY <1>1, <1>2, <2>1, OnceAppend DEF PipesTypeOK, CaptureInv, ToServerInv
<1>6. Exclusive' /\ EditCaptured' /\ MailInv'
  BY <1>1 DEF CaptureInv, Exclusive, EditCaptured, MailInv
<1>7. ASSUME NEW id, Unsent(id), id = 0 \/ id \notin Ids \/ serving[id] # "pushed" \/ id # msg.id,
             id \in Ids
      PROVE  \A m \in After(toServer', 0) : m.id # id
  <2>1. reply.id # id
    BY <1>2, <1>3, <1>7 DEF Pushing, Ids
  <2> QED
    BY <1>4, <1>7, <2>1 DEF Unsent
<1>8. ToServerInv'
  <2>1. \A m \in After(toServer', 0) : m.id # 0 =>
         \/ m.kind \in {"request", "command"} /\ serving[m.id] = "unread"
         \/ m.kind = "reply" /\ serving[m.id] = "pushed"
    BY <1>2, <1>3, <1>4 DEF CaptureInv, ToServerInv, Pushing
  <2>2. ASSUME NEW id \in Ids, id >= next_id
        PROVE  serving[id] = "unread" /\ \A m \in After(toServer', 0) : m.id # id
    BY <1>7, <2>2 DEF CaptureInv, ToServerInv
  <2>3. ASSUME NEW c \in Callers, call[c].kind # "notify",
               call[c].step \in {"registered", "writing", "unregister"}
        PROVE  serving[call[c].id] = "unread" /\ \A m \in After(toServer', 0) : m.id # call[c].id
    BY <1>7, <2>3, AskerId DEF CaptureInv, ToServerInv
  <2>4. \A c \in Callers : \A m \in After(toServer', 0) :
          m.id # 0 /\ m.id = call[c].id => m.kind \in {call[c].kind, "reply"}
    BY <1>2, <1>4 DEF CaptureInv, ToServerInv
  <2> QED
    BY <1>1, <1>5, <2>1, <2>2, <2>3, <2>4 DEF ToServerInv, Unsent
<1>9. ToClientInv'
  <2>1. ASSUME NEW m \in After(toClient, 0), m.kind = "applyEdit", Pushing(m.id)
        PROVE  m.id \in Ids /\ serving[m.id] = "pushed" /\ \A x \in After(toServer', 0) : x.id # m.id
    <3>1. m.id # msg.id
      BY <1>3, <2>1 DEF Pushing, Ids
    <3> QED
      BY <1>7, <2>1, <3>1 DEF Pushing
  <2>2. \A m \in After(toClient, 0) :
         \/ /\ m.kind \in {"result", "error"} /\ m.id \in Ids
            /\ serving[m.id] \in {"answered", "editless"}
         \/ /\ m.kind = "applyEdit" /\ m.id \in Ids /\ serving[m.id] = "pushed"
            /\ \A x \in After(toServer', 0) : x.id # m.id
         \/ m.kind \in {"ask", "notice", "garbled"} /\ m.id = 0
    BY <2>1 DEF CaptureInv, ToClientInv
  <2> QED
    BY <1>1, <2>2 DEF CaptureInv, ToClientInv, Pushing, Unsent
<1>10. AwaitedInv'
  <2>1. \A id \in Ids : Underway(id)' => Underway(id)
    BY <1>1, <1>2, <1>4, MsgFacts DEF Underway
  <2> QED
    BY <1>1, <2>1 DEF CaptureInv, AwaitedInv
<1>11. FeedInv'
  <2>1. ASSUME msg.kind = "applyEdit"
        PROVE  /\ msg.id \in Ids /\ serving[msg.id] = "pushed"
               /\ \A c \in Callers : call[c].kind = "command" /\ call[c].step # "done"
                                       => call[c].id = msg.id
    <3>1. msg.id \in Ids /\ serving[msg.id] = "pushed"
      BY <1>3, <2>1 DEF Pushing
    <3>2. PICK d \in Callers : call[d].kind = "command" /\ call[d].step = "awaiting" /\ call[d].id = msg.id
      BY <1>1, <3>1 DEF CaptureInv, AwaitedInv, Underway
    <3> QED
      BY <3>1, <3>2 DEF CaptureInv, Exclusive
  <2>2. ASSUME NEW c \in Callers, call[c].kind = "command", Answerable(call[c].id)',
               ~Answerable(call[c].id)
        PROVE  msg = Msg("applyEdit", call[c].id)
    <3>1. Msg("reply", call[c].id) = reply
      BY <1>1, <1>4, <2>2 DEF Answerable
    <3>2. msg.id = call[c].id /\ msg.id # 0
      BY <1>2, <2>2, <3>1, AskerId, MsgFacts
    <3>3. msg.kind = "applyEdit" /\ msg \in Messages
      BY <1>2, <1>3, <3>2
    <3> QED
      BY <3>2, <3>3 DEF Messages, Msg
  <2> QED
    BY <1>1, <1>2, <2>1, <2>2, FeedGrows DEF CaptureInv
<1> QED
  BY <1>6, <1>8, <1>9, <1>10, <1>11 DEF CaptureInv

LEMMA CaptureReader ==
  ASSUME PipesTypeOK, ServerTypeOK, ClientTypeOK, ChannelsInv, CaptureInv, ReaderSteps
  PROVE  CaptureInv'
<1>1. CASE EndOfStream \/ ReplyLock
  <2>1. /\ UNCHANGED <<next_id, mail, call, feed, toServer, toClient, serving>>
        /\ reader'.msg = reader.msg /\ reader.step # "gone" /\ reader'.step # "gone"
        /\ reader'.step \in {"locking", "replying"} => reader.step = "locking"
    BY <1>1 DEF EndOfStream, ReplyLock, serverVars, ClientTypeOK
  <2>2. Exclusive' /\ EditCaptured' /\ MailInv'
    BY <2>1 DEF CaptureInv, Exclusive, EditCaptured, MailInv
  <2>3. ToServerInv' /\ ToClientInv'
    BY <2>1 DEF CaptureInv, ToServerInv, ToClientInv, Pushing, Unsent
  <2>4. AwaitedInv' /\ FeedInv'
    BY <2>1 DEF CaptureInv, AwaitedInv, Underway, FeedInv, Broadcast, Answerable
  <2> QED
    BY <2>2, <2>3, <2>4 DEF CaptureInv
<1>2. CASE fail_pending
  <2>1. /\ UNCHANGED <<next_id, call, feed, toServer, toClient, serving>>
        /\ reader'.step = "gone"
        /\ \A id \in Ids : mail'[id] = IF id \in pending THEN "closed" ELSE mail[id]
    BY <1>2 DEF fail_pending, serverVars, ClientTypeOK
  <2>2. \A id \in Ids : mail'[id] # mail[id] => mail[id] = "none" /\ mail'[id] = "closed"
    BY <2>1 DEF ChannelsInv, ChannelsExact
  <2>3. Exclusive'
    BY <2>1 DEF CaptureInv, Exclusive
  <2>4. MailInv' /\ EditCaptured'
    <3>1. \A c \in Callers : call[c].kind = "command" => call[c].id \in Ids
      BY AskerId
    <3> QED
      BY <2>1, <2>2, <3>1 DEF CaptureInv, MailInv, EditCaptured
  <2>5. ToServerInv' /\ ToClientInv'
    BY <2>1 DEF CaptureInv, ToServerInv, ToClientInv, Pushing, Unsent
  <2>6. AwaitedInv' /\ FeedInv'
    BY <2>1 DEF CaptureInv, AwaitedInv, Underway, FeedInv, Broadcast, Answerable
  <2> QED
    BY <2>3, <2>4, <2>5, <2>6 DEF CaptureInv
<1> QED
  BY <1>1, <1>2, CaptureRead, CaptureReply DEF ReaderSteps

(* No subscriber lags more than the channel keeps.                         *)
KeepsUp == \A c \in Callers : call[c].step = "draining" => Len(feed) - call[c].from <= Capacity

LEMMA CaptureNext == TypeOK /\ ChannelsInv /\ CaptureInv /\ KeepsUp /\ [Next]_vars => CaptureInv'
<1> SUFFICES ASSUME ClientTypeOK, PipesTypeOK, ServerTypeOK, ChannelsInv, CaptureInv, KeepsUp,
                    [Next]_vars
             PROVE  CaptureInv'
  BY TypeParts
<1>1. CASE UNCHANGED vars
  BY <1>1, CaptureUntouched DEF vars, clientVars, serverVars
<1>2. ASSUME NEW c \in Callers, CallSteps(c) PROVE CaptureInv'
  BY <1>2, CaptureCallSteps DEF KeepsUp
<1> QED
  BY <1>1, <1>2, CaptureBegins, CaptureReader, CaptureServer DEF Next

(* As long as no subscriber lags more than the channel keeps, a command    *)
(* that was answered has captured the edit the server pushed for it, and   *)
(* never another's (execute_capturing_edit; the reader broadcasts a push   *)
(* before it reads the answer).                                            *)
THEOREM CommandsCaptureTheirEdit == Spec /\ []KeepsUp => []EditCaptured
<1>1. CaptureInv => EditCaptured
  BY DEF CaptureInv
<1> QED
  BY TypeCorrect, AlwaysChannels, CaptureInit, CaptureNext, <1>1, PTL DEF Spec
=============================================================================
