----------------------------- MODULE MqttSyncProofs ----------------------------
(***************************************************************************)
(* Theorems about MqttSync, for any number of calls on any topics, any     *)
(* sizes of buffers, and whatever the broker, the device and others send.  *)
(***************************************************************************)
EXTENDS MqttSync, TLAPS

USE MqttAssumption

Outside == {"start", "done"}
Armed == {"publish", "complete", "wait", "woken", "untopic", "undata"}
Places == Outside \cup Armed
            \cup {"push", "flush", "subscribe", "topic", "data", "unsub", "unlock"}
Fitting == {"copy", "copying", "end", "ending"}
Copied == {"end", "ending", "code"}
Handling == {"match", "check", "size", "copy", "copying", "end", "ending", "code", "post"}
Unsent == {"start", "push", "flush", "subscribe", "topic", "data", "publish"}
Unfinished == Unsent \cup {"complete", "wait", "woken"}

USE DEF Fitting, Copied

\* A call is inside exactly as long as it holds lockmsg, and waitData is that
\* of the call inside, from where it sets it to where it resets it.
HoldInv ==
    /\ pc \in [Calls -> Places]
    /\ \A r \in Calls : pc[r] \notin Outside => lock = r
    /\ data # Nobody => data \in Calls /\ lock = data /\ pc[data] \in Armed
    /\ \A r \in Calls : pc[r] \in Armed => data = r

\* A call has no result until it is about to return; "ok" comes of a wakeup.
ResultInv ==
    /\ result \in [Calls -> {"none", "unsent", "timeout", "pushed", "ok", "param", "size", Wild}]
    /\ code \in {"ok", "param", "size", Wild}
    /\ \A r \in Calls : pc[r] \in Unfinished => result[r] = "none"

\* Only a published request is answered; a message that answers none shows in
\* unasked.
SentInv ==
    /\ sent \in [Calls -> Message \cup {Own, Wild, Nobody}]
    /\ buf \in [Calls -> Message \cup {Own, Wild}]
    /\ \A r \in Calls : pc[r] \in Unsent => sent[r] = Nobody
    /\ \A r \in answered : sent[r] = Own
    /\ net \in Seq(Message) /\ sem \in Nat
    /\ \A i \in DOMAIN net : net[i].to = Nobody => net[i].topic \in unasked
    /\ rpc \in Handling => msg \in Message /\ (msg.to = Nobody => msg.topic \in unasked)
    /\ topic \in Calls \cup {Nobody, Wild} /\ (rpc = "match" => topic # Wild)

\* From here on: as long as Calm holds.  An answer is on its way, or a
\* wakeup pending, only for a call that waits for it.
Waiting(r) == r \in answered /\ pc[r] \in {"complete", "wait"}

WayInv ==
    /\ \A i \in DOMAIN net : net[i].to # Nobody =>
           /\ Waiting(net[i].to) /\ sem = 0
           /\ rpc \in Handling => msg.to = Nobody
           /\ \A j \in DOMAIN net : net[j].to # Nobody => j = i
    /\ rpc \in Handling /\ msg.to # Nobody => Waiting(msg.to) /\ sem = 0
    /\ rpc \in Handling \ {"match"} => msg.to # Nobody
    /\ sem = 0 \/ (sem = 1 /\ \E r \in Calls : Waiting(r))
    /\ rpc \in Fitting => data = msg.to /\ msg.len < Room[data]
    /\ rpc \in {"copying", "ending"} => dst = msg.to
    /\ rpc # "badwrite"

\* A call is answered after it has published, and its wakeup is gone before it
\* goes on.
PastInv ==
    \A r \in Calls :
        /\ pc[r] \in Unsent => r \notin answered /\ buf[r] = Own
        /\ pc[r] \in {"woken"} => r \in answered
        /\ pc[r] \notin Unfinished /\ sent[r] # Nobody => r \in answered

\* waitRetCode "ok" stands for the answer in the buffer, from the copy on.
Mine(r) == r \in answered /\ buf[r] # Own /\ buf[r].to = r

AnswerInv ==
    /\ rpc \in Copied => Mine(msg.to) /\ buf[msg.to] = msg
    /\ rpc = "post" /\ code = "ok" => Mine(msg.to)
    /\ \A r \in Calls :
         /\ code = "ok" /\ lock = r /\ (sem = 1 \/ pc[r] = "woken") => Mine(r)
         /\ result[r] = "ok" => Mine(r)

CalmInv == WayInv /\ PastInv /\ AnswerInv
Inv == HoldInv /\ ResultInv /\ SentInv /\ (Calm => CalmInv)

\* A call goes on inside, with waitData as it was.
LEMMA GoesOn ==
    ASSUME HoldInv, NEW r \in Calls, NEW from \in Places \ Outside, NEW to \in Places \ Outside,
           Goto(r, from, to), UNCHANGED <<lock, data>>,
           from \in Armed <=> to \in Armed
    PROVE  HoldInv'
BY DEF HoldInv, Goto, At

LEMMA BeginKeeps ==
    ASSUME HoldInv, NEW r \in Calls, Take(r) \/ TakePush(r) \/ Busy(r)
    PROVE  HoldInv'
<1> USE DEF HoldInv, Goto, At, Outside, Armed, Places
<1>1. CASE Take(r) \/ TakePush(r)
  <2>1. PICK next \in {"subscribe", "push"} : TakeTo(r, next)  BY <1>1 DEF Take, TakePush
  <2>2. lock = Nobody /\ lock' = r /\ data' = data  BY <2>1 DEF TakeTo, armVars
  <2>3. pc' = [pc EXCEPT ![r] = next] /\ pc[r] = "start"  BY <2>1 DEF TakeTo
  <2>4. data = Nobody /\ \A q \in Calls : pc[q] \in Outside  BY <2>2
  <2> HIDE DEF Goto, At
  <2> QED  BY <2>2, <2>3, <2>4
<1>2. CASE Busy(r)
  <2>1. pc' = [pc EXCEPT ![r] = "done"] /\ pc[r] = "start" /\ UNCHANGED <<lock, data>>
    BY <1>2 DEF Busy, armVars
  <2> QED  BY <2>1
<1> QED  BY <1>1, <1>2

LEMMA InsideKeeps ==
    ASSUME HoldInv, NEW r \in Calls, CallStep(r)
    PROVE  HoldInv'
<1>1. CASE Subscribe(r) \/ SubscribeFails(r) \/ SetTopic(r) \/ Push(r) \/ Flush(r)
  <2>1. \E from, to \in Places \ Outside :
           Goto(r, from, to) /\ from \notin Armed /\ to \notin Armed
           /\ UNCHANGED <<lock, data>>
    BY <1>1 DEF Subscribe, SubscribeFails, SetTopic, Push, Flush, armVars, Places, Outside,
                Armed
  <2> QED  BY <2>1, GoesOn
<1>2. CASE Publish(r) \/ Complete(r) \/ Woken(r) \/ Timeout(r) \/ ReadCode(r) \/ ClearTopic(r)
  <2>1. \E from, to \in Armed : Goto(r, from, to) /\ UNCHANGED <<lock, data>>
    BY <1>2 DEF Publish, Complete, Woken, WokenAt, Timeout, ReadCode, ClearTopic, armVars,
                Armed
  <2>2. \A at \in Armed : at \in Places \ Outside  BY DEF Places, Outside, Armed
  <2> QED  BY <2>1, <2>2, GoesOn
<1>3. CASE PublishFails(r) \/ CompleteFails(r)
  <2>1. \E from, to \in Places \ Outside :
           Goto(r, from, to) /\ (from \in Armed <=> to \in Armed) /\ UNCHANGED <<lock, data>>
    BY <1>3 DEF PublishFails, CompleteFails, armVars, Places, Outside, Armed
  <2> QED  BY <2>1, GoesOn
<1>4. CASE SetData(r)
  <2>1. pc[r] = "data" /\ pc' = [pc EXCEPT ![r] = "publish"] /\ data' = r /\ lock' = lock
    BY <1>4 DEF SetData, Goto, At
  <2>2. lock = r  BY <2>1 DEF HoldInv, Outside
  <2> QED  BY <2>1, <2>2 DEF HoldInv, Places, Outside, Armed
<1>5. CASE ClearData(r)
  <2>1. pc[r] = "undata" /\ pc' = [pc EXCEPT ![r] = "unsub"] /\ data' = Nobody /\ lock' = lock
    BY <1>5 DEF ClearData, Goto, At
  <2> QED  BY <2>1 DEF HoldInv, Places, Outside, Armed
<1>6. CASE Unlock(r)
  <2>1. /\ pc[r] \in {"unsub", "unlock"} /\ pc' = [pc EXCEPT ![r] = "done"]
        /\ lock' = Nobody /\ data' = data
    BY <1>6 DEF Unlock, armVars
  <2>2. lock = r /\ \A q \in Calls : q # r => pc[q] \in Outside
    BY <2>1 DEF HoldInv, Outside
  <2>3. data = Nobody  BY <2>1, <2>2 DEF HoldInv, Armed
  <2> QED  BY <2>1, <2>2, <2>3 DEF HoldInv, Places, Outside, Armed
<1> QED  BY <1>1, <1>2, <1>3, <1>4, <1>5, <1>6 DEF CallStep

\* msgarrvd, the broker, the device and the user change none of it.
LEMMA OthersKeep ==
    ASSUME HoldInv,
           \/ ReaderStep \/ Lose \/ UNCHANGED vars
           \/ \E r \in Calls : Answer(r)
           \/ \E t \in UserTopics : UserSubscribes(t) \/ UserUnsubscribes(t)
           \/ \E t \in Topics : Unasked(t)
    PROVE  HoldInv'
<1>1. UNCHANGED <<lock, pc, data>>
  BY DEF ReaderStep, Arrive, Match, CheckNull, Check, TooLong, Fits, FitsWith, Fetch, FetchToCopy,
         FetchToEnd, Copy, Terminate, SetCode, SetCodeTo, Post, Reader, Lose, Answer, UserSubscribes, UserUnsubscribes, Unasked, vars, callVars, armVars
<1> QED  BY <1>1 DEF HoldInv

-------------------------------------------------------------------------------
(* The answer is mine *)

Given == {"unsent", "timeout", "pushed", "ok", "param",
          "size", Wild}
Over == {"untopic", "undata", "unsub", "unlock", "done"}

\* A step of call r from one place to another: it gets its result when it goes
\* on to Over, and gets "ok" from waitRetCode only.
Moves(r, from, to) ==
    /\ pc[r] = from /\ pc' = [pc EXCEPT ![r] = to]
    /\ \/ result' = result /\ (from \in Unfinished <=> to \in Unfinished)
       \/ /\ from \in Unfinished /\ to \in Over
          /\ \E why \in Given :
                /\ result' = [result EXCEPT ![r] = why]
                /\ why = "ok" => from = "woken" /\ code = "ok"
                /\ from \in {"complete", "wait"} => why = "timeout"

\* A call that waits goes on waiting, is woken, or gives up.
Orderly(from, to) ==
    /\ from \in Unsent => to \in Unsent \cup Over
    /\ from \in {"complete", "wait"} => to \in {"wait"} \cup Over
    /\ from \in {"woken"} \cup Over => to \in Over

LEMMA MessagesTyped ==
    ASSUME SentInv
    PROVE  /\ \A i \in DOMAIN net : net[i] \in Message /\ net[i].to \in Calls \cup {Nobody}
           /\ rpc \in Handling => msg.to \in Calls \cup {Nobody} /\ msg # Own
<1>1. \A m \in Message : m.to \in Calls \cup {Nobody}  BY DEF Message
<1>2. \A i \in DOMAIN net : net[i] \in Message  BY DEF SentInv
<1>3. rpc \in Handling => msg \in Message  BY DEF SentInv
<1> QED  BY <1>1, <1>2, <1>3

\* Giving up is for good.
LEMMA MoveIsCalm ==
    ASSUME Inv, NEW r \in Calls, NEW from \in Places, NEW to \in Places, Moves(r, from, to),
           unasked \subseteq unasked', Calm'
    PROVE  /\ Calm
           /\ result' # result => from \notin {"complete", "wait"}
BY DEF Inv, Calm, Moves, ResultInv, Given

LEMMA MoveResult ==
    ASSUME Inv, NEW r \in Calls, NEW from \in Places, NEW to \in Places, Moves(r, from, to),
           code' = code
    PROVE  ResultInv'
<1>1. pc \in [Calls -> Places]  BY DEF Inv, HoldInv
<1>2. CASE result' = result /\ (from \in Unfinished <=> to \in Unfinished)
  BY <1>1, <1>2 DEF Inv, ResultInv, Moves
<1>3. CASE from \in Unfinished /\ to \in Over
           /\ \E why \in Given : result' = [result EXCEPT ![r] = why]
  <2>1. to \notin Unfinished  BY <1>3 DEF Over, Unfinished, Unsent
  <2> QED  BY <1>1, <1>3, <2>1 DEF Inv, ResultInv, Moves, Given
<1> QED  BY <1>2, <1>3 DEF Moves

\* An orderly step that touches nothing else.
LEMMA MoveKeeps ==
    ASSUME Inv, HoldInv', NEW r \in Calls, NEW from \in Places, NEW to \in Places,
           Moves(r, from, to), Orderly(from, to), topic' \in Calls \cup {Nobody} \/ topic' = topic,
           UNCHANGED <<code, sem, buf, rpc, msg, dst, net, sent, answered, unasked>>
    PROVE  Inv'
<1>1. pc \in [Calls -> Places]  BY DEF Inv, HoldInv
<1>2. ResultInv'  BY MoveResult
<1>3. pc'[r] = to /\ pc[r] = from /\ \A q \in Calls : q # r => pc'[q] = pc[q]  BY <1>1 DEF Moves
<1>4. to \in Unsent => from \in Unsent
  BY DEF Orderly, Places, Outside, Armed, Unsent, Over
<1>5. SentInv'  BY <1>3, <1>4 DEF Inv, SentInv
<1>6. ASSUME Calm' PROVE CalmInv'
  <2>1. Calm /\ (result' # result => from \notin {"complete", "wait"})  BY <1>6, MoveIsCalm
  <2>2. WayInv /\ PastInv /\ AnswerInv  BY <2>1 DEF Inv, CalmInv
  <2>3. from \in {"complete", "wait"} => to = "wait"
    <3>1. ASSUME from \in {"complete", "wait"}, to \in Over PROVE FALSE
      BY <2>1, <3>1 DEF Moves, Over, Unfinished, Unsent, Given, Inv, ResultInv
    <3> QED  BY <3>1 DEF Orderly
  <2>4. \A q \in Calls : Waiting(q) => Waiting(q)'  BY <1>3, <2>3 DEF Waiting
  <2>5. \A q \in Calls : Waiting(q) => data' = q /\ lock' = q /\ lock = q
    BY <2>4 DEF Waiting, HoldInv, Inv, Outside, Armed
  <2>6. /\ \A i \in DOMAIN net : net[i].to # Nobody => net[i].to \in Calls
        /\ rpc \in Handling /\ msg.to # Nobody => msg.to \in Calls
    BY MessagesTyped DEF Inv
  <2>7. WayInv'
    <3>1. \A i \in DOMAIN net : net[i].to # Nobody => Waiting(net[i].to)'
      BY <2>2, <2>4, <2>6 DEF WayInv
    <3>2. rpc \in Handling /\ msg.to # Nobody => Waiting(msg.to)'
      BY <2>2, <2>4, <2>6 DEF WayInv
    <3>3. rpc \in Fitting => data' = msg.to /\ data = msg.to
      BY <2>2, <2>5, <2>6 DEF WayInv, Handling, Fitting
    <3>4. (\E q \in Calls : Waiting(q)) => \E q \in Calls : Waiting(q)'
      BY <2>4
    <3> HIDE DEF Waiting
    <3> QED  BY <2>2, <3>1, <3>2, <3>3, <3>4 DEF WayInv
  <2>8. PastInv'
    <3>1. from \in Unsent \cup {"complete", "wait", "woken"} \cup Over
      BY DEF Unsent, Over, Places, Outside, Armed
    <3>2. to = "woken" => FALSE
      BY <2>3, <3>1 DEF Orderly, Unsent, Over
    <3>3. to \notin Unfinished /\ from \in Unsent => sent[r] = Nobody
      BY <1>3 DEF Inv, SentInv
    <3>4. to \notin Unfinished => from \notin {"complete", "wait"}
      BY <2>3 DEF Unfinished
    <3>5. from \in Over => from \notin Unfinished
      BY DEF Over, Unfinished, Unsent
    <3> QED  BY <1>3, <1>4, <2>2, <3>1, <3>2, <3>3, <3>4, <3>5 DEF PastInv
  <2>9. AnswerInv'
    <3>1. \A q \in Calls : Mine(q)' <=> Mine(q)  BY DEF Mine
    <3>2. rpc \in Copied \cup {"post"} => msg.to \in Calls
      BY <2>2, <2>6 DEF WayInv, Handling, Copied
    <3>3. ASSUME NEW q \in Calls, code = "ok", lock' = q, sem = 1  PROVE Mine(q)
      <4>1. PICK w \in Calls : Waiting(w)  BY <2>2, <3>3 DEF WayInv
      <4> QED  BY <2>2, <2>5, <3>3, <4>1 DEF AnswerInv
    <3>4. ASSUME NEW q \in Calls, code = "ok", pc'[q] = "woken"  PROVE Mine(q)
      <4>1. q # r  BY <1>3, <2>3, <3>4 DEF Orderly, Places, Outside, Armed, Unsent, Over
      <4>2. pc[q] = "woken" /\ lock = q  BY <1>3, <3>4, <4>1 DEF Inv, HoldInv, Outside
      <4> QED  BY <2>2, <3>4, <4>2 DEF AnswerInv
    <3>5. ASSUME NEW q \in Calls, result'[q] = "ok"  PROVE Mine(q)
      <4>1. CASE result[q] = "ok"  BY <2>2, <4>1 DEF AnswerInv
      <4>2. CASE result[q] # "ok"
        <5>1. q = r /\ from = "woken" /\ code = "ok"
          BY <3>5, <4>2 DEF Moves, Inv, ResultInv
        <5>2. lock = r  BY <1>3, <5>1 DEF Inv, HoldInv, Outside
        <5> QED  BY <1>3, <2>2, <5>1, <5>2 DEF AnswerInv
      <4> QED  BY <4>1, <4>2
    <3> HIDE DEF Mine
    <3> QED  BY <2>2, <3>1, <3>2, <3>3, <3>4, <3>5 DEF AnswerInv
  <2> QED  BY <2>7, <2>8, <2>9 DEF CalmInv
<1> QED  BY <1>2, <1>5, <1>6 DEF Inv

LEMMA PlainCallKeeps ==
    ASSUME Inv, HoldInv', NEW r \in Calls,
           \/ Take(r) \/ TakePush(r) \/ Busy(r) \/ SubscribeFails(r) \/ SetTopic(r) \/ SetData(r)
           \/ Push(r) \/ PublishFails(r) \/ Complete(r) \/ Flush(r) \/ CompleteFails(r)
           \/ Timeout(r) \/ ReadCode(r) \/ ClearTopic(r) \/ ClearData(r) \/ Unlock(r)
    PROVE  Inv'
<1> DEFINE Frame == UNCHANGED <<code, sem, buf, rpc, msg, dst, net, sent, answered, unasked>>
           Topic == topic' \in Calls \cup {Nobody} \/ topic' = topic
<1> USE DEF Goto, At, Fail, armVars, readerVars, brokerVars
<1>1. SUFFICES \E from, to \in Places :
                  Moves(r, from, to) /\ Orderly(from, to) /\ Topic /\ Frame
  BY MoveKeeps
<1> DEFINE Goes(from, to) == Moves(r, from, to) /\ Orderly(from, to)
           All == Places
<1>2. CASE Take(r) \/ TakePush(r) \/ Busy(r)
  <2>1. \/ Goes("start", "subscribe") \/ Goes("start", "push") \/ Goes("start", "done")
    BY <1>2 DEF Take, TakePush, TakeTo, Busy, Moves, Orderly, Unfinished, Unsent, Over, Given
  <2>2. Topic /\ Frame  BY <1>2 DEF Take, TakePush, TakeTo, Busy
  <2> QED  BY <2>1, <2>2 DEF Places, Outside, Armed
<1>3. CASE SubscribeFails(r) \/ SetTopic(r) \/ SetData(r) \/ Push(r) \/ PublishFails(r)
  <2>1. \/ Goes("subscribe", "unlock") \/ Goes("topic", "data") \/ Goes("data", "publish")
        \/ Goes("push", "flush") \/ Goes("publish", "untopic") \/ Goes("push", "unlock")
    BY <1>3 DEF SubscribeFails, SetTopic, SetData, Push, PublishFails, Moves, Orderly,
       Unfinished, Unsent, Over, Given
  <2>2. Topic /\ Frame  BY <1>3 DEF SubscribeFails, SetTopic, SetData, Push, PublishFails
  <2> QED  BY <2>1, <2>2 DEF Places, Outside, Armed
<1>4. CASE Complete(r) \/ Flush(r) \/ CompleteFails(r) \/ Timeout(r)
  <2>1. \/ Goes("complete", "wait") \/ Goes("flush", "unlock") \/ Goes("complete", "untopic")
        \/ Goes("wait", "untopic")
    BY <1>4 DEF Complete, Flush, CompleteFails, Timeout, Moves, Orderly, Unfinished, Unsent,
       Over, Given
  <2>2. Topic /\ Frame  BY <1>4 DEF Complete, Flush, CompleteFails, Timeout
  <2> QED  BY <2>1, <2>2 DEF Places, Outside, Armed
<1>5. CASE ReadCode(r) \/ ClearTopic(r) \/ ClearData(r) \/ Unlock(r)
  <2>1. code \in Given  BY DEF Inv, ResultInv, Given
  <2>2. \/ Goes("woken", "untopic") \/ Goes("untopic", "undata") \/ Goes("undata", "unsub")
        \/ Goes("unsub", "done") \/ Goes("unlock", "done")
    BY <1>5, <2>1 DEF ReadCode, ClearTopic, ClearData, Unlock, Moves, Orderly,
       Unfinished, Unsent, Over
  <2>3. Topic /\ Frame  BY <1>5 DEF ReadCode, ClearTopic, ClearData, Unlock
  <2> QED  BY <2>2, <2>3 DEF Places, Outside, Armed
<1> QED  BY <1>2, <1>3, <1>4, <1>5

\* What comes to the end of net is one message.
LEMMA NetGrows ==
    ASSUME SentInv, NEW m \in Message
    PROVE  /\ Append(net, m) \in Seq(Message)
           /\ \A i \in DOMAIN Append(net, m) :
                  \/ i \in DOMAIN net /\ Append(net, m)[i] = net[i]
                  \/ i = Len(net) + 1 /\ Append(net, m)[i] = m
BY DEF SentInv

\* A message that answers no call has come, or none.
LEMMA StrayKeeps ==
    ASSUME Inv, HoldInv', ResultInv', NEW m \in Message, m.to = Nobody, m.topic \in unasked',
           net' = net \/ net' = Append(net, m), unasked \subseteq unasked',
           UNCHANGED <<data, code, sem, buf, rpc, msg, dst, sent, answered>>,
           topic' = topic, lock' = lock, result' = result,
           \A q \in Calls : /\ Waiting(q) => Waiting(q)'
                            /\ pc'[q] # pc[q] => pc'[q] \in Unsent /\ pc[q] \in Unsent
    PROVE  Inv'
<1>1. SentInv'
  <2>1. /\ net' \in Seq(Message)
        /\ \A i \in DOMAIN net' : net'[i].to = Nobody => net'[i].topic \in unasked'
    <3>1. SentInv  BY DEF Inv
    <3>2. CASE net' = net  BY <3>1, <3>2 DEF SentInv
    <3>3. CASE net' = Append(net, m)
      <4>1. ASSUME NEW i \in DOMAIN net', net'[i].to = Nobody
            PROVE  net'[i].topic \in unasked'
        <5>1. \/ i \in DOMAIN net /\ net'[i] = net[i]
              \/ net'[i] = m
          BY <3>1, <3>3, <4>1, NetGrows
        <5> QED  BY <3>1, <4>1, <5>1 DEF SentInv
      <4> QED  BY <3>1, <3>3, <4>1, NetGrows
    <3> QED  BY <3>2, <3>3
  <2>2. \A q \in Calls : pc'[q] \in Unsent => pc[q] \in Unsent
    OBVIOUS
  <2> QED  BY <2>1, <2>2 DEF Inv, SentInv
<1>2. ASSUME Calm' PROVE CalmInv'
  <2>1. Calm  BY <1>2 DEF Calm
  <2>2. WayInv /\ PastInv /\ AnswerInv  BY <2>1 DEF Inv, CalmInv
  <2>3. \A i \in DOMAIN net' : net'[i].to # Nobody => i \in DOMAIN net /\ net'[i] = net[i]
    BY NetGrows DEF Inv
  <2>4. /\ \A i \in DOMAIN net : net[i].to \in Calls \cup {Nobody}
        /\ rpc \in Handling => msg.to \in Calls \cup {Nobody}
    BY MessagesTyped DEF Inv
  <2>5. WayInv'
    <3>1. (\E q \in Calls : Waiting(q)) => \E q \in Calls : Waiting(q)'
      OBVIOUS
    <3> HIDE DEF Waiting
    <3> QED  BY <2>2, <2>3, <2>4, <3>1 DEF WayInv
  <2>6. PastInv'  BY <2>2 DEF PastInv, Unfinished, Unsent
  <2>7. AnswerInv'
    <3>1. \A q : Mine(q)' <=> Mine(q)  BY DEF Mine
    <3>2. \A q \in Calls : pc'[q] = "woken" => pc[q] = "woken"  BY DEF Unsent
    <3> HIDE DEF Mine
    <3> QED  BY <2>2, <3>1, <3>2 DEF AnswerInv
  <2> QED  BY <2>5, <2>6, <2>7 DEF CalmInv
<1> QED  BY <1>1, <1>2 DEF Inv

LEMMA SubscribeKeeps ==
    ASSUME Inv, HoldInv', NEW r \in Calls, Subscribe(r)
    PROVE  Inv'
<1>1. /\ pc[r] = "subscribe" /\ pc' = [pc EXCEPT ![r] = "topic"]
      /\ UNCHANGED <<lock, result, topic, data, code, sem, buf, rpc, msg, dst, sent, answered>>
      /\ unasked \subseteq unasked'
  BY DEF Subscribe, Unheard, Goto, At, armVars, readerVars
<1>2. pc \in [Calls -> Places]  BY DEF Inv, HoldInv
<1>3. ResultInv'  BY <1>1, <1>2 DEF Inv, ResultInv, Unfinished, Unsent
<1>4. \A q \in Calls : /\ Waiting(q) => Waiting(q)'
                       /\ pc'[q] # pc[q] => pc'[q] \in Unsent /\ pc[q] \in Unsent
  BY <1>1, <1>2 DEF Waiting, Unsent
<1>5. CASE net' = net
  <2>1. SentInv'  BY <1>1, <1>2, <1>5 DEF Inv, SentInv, Unsent
  <2>2. ASSUME Calm' PROVE CalmInv'
    <3>1. Calm  BY <1>1, <2>2 DEF Calm
    <3>2. WayInv /\ PastInv /\ AnswerInv  BY <3>1 DEF Inv, CalmInv
    <3>3. \A q : Mine(q)' <=> Mine(q)  BY <1>1 DEF Mine
    <3>4. \A q \in Calls : pc'[q] = "woken" => pc[q] = "woken"  BY <1>1, <1>2
    <3>5. AnswerInv'  BY <1>1, <3>2, <3>3, <3>4 DEF AnswerInv
    <3>6. \A q : Waiting(q)' <=> Waiting(q)
      BY <1>1, <1>2 DEF Waiting
    <3>7. WayInv'  BY <1>1, <1>5, <3>2, <3>6 DEF WayInv
    <3>8. PastInv'  BY <1>1, <1>4, <3>2 DEF PastInv, Unfinished, Unsent
    <3> QED  BY <3>5, <3>7, <3>8 DEF CalmInv
  <2> QED  BY <1>3, <2>1, <2>2 DEF Inv
<1>6. ASSUME NEW n \in 1 .. MaxLen, WaitOn[r] \in unasked',
             net' = Append(net, [topic |-> WaitOn[r], to |-> Nobody, len |-> n])
      PROVE  Inv'
  <2>1. [topic |-> WaitOn[r], to |-> Nobody, len |-> n] \in Message  BY DEF Message
  <2> QED  BY <1>1, <1>3, <1>4, <1>6, <2>1, StrayKeeps
<1> QED  BY <1>5, <1>6 DEF Subscribe, Unheard

LEMMA UnaskedKeeps ==
    ASSUME Inv, HoldInv', NEW t \in Topics, Unasked(t)
    PROVE  Inv'
<1>1. /\ UNCHANGED <<lock, pc, result, topic, data, code, sem, buf, rpc, msg, dst, sent, answered>>
      /\ unasked \subseteq unasked' /\ t \in unasked'
  BY DEF Unasked, Unheard, callVars, armVars, readerVars
<1>2. PICK n \in 1 .. MaxLen : Forward([topic |-> t, to |-> Nobody, len |-> n])
  BY DEF Unasked
<1>3. [topic |-> t, to |-> Nobody, len |-> n] \in Message  BY DEF Message
<1>4. ResultInv'  BY <1>1 DEF Inv, ResultInv
<1>5. \A q \in Calls : Waiting(q) => Waiting(q)'  BY <1>1 DEF Waiting
<1>6. net' = net \/ net' = Append(net, [topic |-> t, to |-> Nobody, len |-> n])
  BY <1>2 DEF Forward
<1> QED  BY <1>1, <1>3, <1>4, <1>5, <1>6, StrayKeeps

\* The device answers a call that waits: it is the first time.
LEMMA AnswerKeeps ==
    ASSUME Inv, HoldInv', NEW r \in Calls, Answer(r)
    PROVE  Inv'
<1>1. /\ UNCHANGED <<lock, pc, result, topic, data, code, sem, buf, rpc, msg, dst, sent, unasked>>
      /\ sent[r] = Own /\ r \notin answered /\ answered' = answered \cup {r}
  BY DEF Answer, callVars, armVars, readerVars
<1>2. PICK n \in 1 .. MaxLen : Forward([topic |-> WaitOn[r], to |-> r, len |-> n])
  BY DEF Answer
<1> DEFINE m == [topic |-> WaitOn[r], to |-> r, len |-> n]
<1>3. m \in Message /\ m.to = r /\ (net' = net \/ net' = Append(net, m))
  BY <1>2 DEF Message, Forward
<1> HIDE DEF m
<1>4. ResultInv'  BY <1>1 DEF Inv, ResultInv
<1>5. SentInv'
  <2>1. SentInv /\ m.to # Nobody  BY <1>3, MqttAssumption DEF Inv
  <2>2. net' \in Seq(Message)  BY <1>3, <2>1, NetGrows DEF SentInv
  <2>3. \A i \in DOMAIN net' : net'[i].to = Nobody => net'[i].topic \in unasked'
    <3>1. CASE net' = net  BY <1>1, <2>1, <3>1 DEF SentInv
    <3>2. CASE net' = Append(net, m)
      <4> SUFFICES ASSUME NEW i \in DOMAIN net', net'[i].to = Nobody
                   PROVE  net'[i].topic \in unasked
        BY <1>1
      <4>1. i \in DOMAIN net /\ net'[i] = net[i]  BY <1>3, <2>1, <3>2, NetGrows
      <4> QED  BY <2>1, <4>1 DEF SentInv
    <3> QED  BY <1>3, <3>1, <3>2
  <2>4. \A q \in answered' : sent'[q] = Own  BY <1>1, <2>1 DEF SentInv
  <2> QED  BY <1>1, <2>1, <2>2, <2>3, <2>4 DEF SentInv
<1>6. ASSUME Calm' PROVE CalmInv'
  <2>1. Calm  BY <1>1, <1>6 DEF Calm
  <2>2. WayInv /\ PastInv /\ AnswerInv  BY <2>1 DEF Inv, CalmInv
  <2>3. pc[r] \in {"complete", "wait"}
    <3>1. sent[r] # Nobody /\ r \notin answered  BY <1>1
    <3>2. pc[r] \notin Unsent  BY <3>1 DEF Inv, SentInv
    <3> QED  BY <2>2, <3>1, <3>2 DEF PastInv, Unfinished
  <2>4. Waiting(r)' /\ \A q : Waiting(q) => Waiting(q)'  BY <1>1, <2>3 DEF Waiting
  <2>5. lock = r  BY <2>3 DEF Inv, HoldInv, Outside
  <2>6. \A q \in Calls : ~Waiting(q)
    <3>1. ASSUME NEW q \in Calls, Waiting(q) PROVE q = r
      BY <2>5, <3>1 DEF Waiting, Inv, HoldInv, Outside
    <3> QED  BY <1>1, <3>1 DEF Waiting
  <2>7. /\ \A i \in DOMAIN net : net[i].to \in Calls \cup {Nobody}
        /\ rpc \in Handling => msg.to \in Calls \cup {Nobody}
    BY MessagesTyped DEF Inv
  <2>8. sem = 0 /\ \A i \in DOMAIN net : net[i].to = Nobody  BY <2>2, <2>6, <2>7 DEF WayInv
  <2>9. rpc \notin Handling \ {"match"} /\ (rpc \in Handling => msg.to = Nobody)
    BY <2>2, <2>6, <2>7 DEF WayInv
  <2>10. \A i \in DOMAIN net' : net'[i].to # Nobody => net'[i].to = r /\ i = Len(net) + 1
    <3>1. CASE net' = net  BY <2>8, <3>1
    <3>2. CASE net' = Append(net, m)
      <4>1. \A i \in DOMAIN Append(net, m) :
               \/ i \in DOMAIN net /\ Append(net, m)[i] = net[i]
               \/ i = Len(net) + 1 /\ Append(net, m)[i] = m
        BY <1>3, NetGrows DEF Inv
      <4> QED  BY <1>3, <2>8, <3>2, <4>1
    <3> QED  BY <1>3, <3>1, <3>2
  <2>11. WayInv'
    <3> HIDE DEF Waiting
    <3> QED  BY <1>1, <2>2, <2>4, <2>8, <2>9, <2>10 DEF WayInv, Handling
  <2>12. PastInv'  BY <1>1, <2>2, <2>3 DEF PastInv, Unsent
  <2>13. AnswerInv'
    <3>1. \A q : Mine(q) => Mine(q)'  BY <1>1 DEF Mine
    <3> HIDE DEF Mine
    <3> QED  BY <1>1, <2>2, <3>1 DEF AnswerInv
  <2> QED  BY <2>11, <2>12, <2>13 DEF CalmInv
<1> QED  BY <1>4, <1>5, <1>6 DEF Inv

\* What is published is the call's own message: nobody has written to its
\* buffer so far.
LEMMA PublishKeeps ==
    ASSUME Inv, HoldInv', NEW r \in Calls, Publish(r)
    PROVE  Inv'
<1>1. /\ pc[r] = "publish" /\ pc' = [pc EXCEPT ![r] = "complete"]
      /\ sent' = [sent EXCEPT ![r] = buf[r]]
      /\ UNCHANGED <<lock, result, topic, data, code, sem, buf, rpc, msg, dst, net, answered, unasked>>
  BY DEF Publish, Goto, At, armVars, readerVars, brokerVars
<1>2. pc \in [Calls -> Places]  BY DEF Inv, HoldInv
<1>3. ResultInv'  BY <1>1, <1>2 DEF Inv, ResultInv, Unfinished, Unsent
<1>4. r \notin answered  BY <1>1 DEF Inv, SentInv, Unsent
<1>5. SentInv'  BY <1>1, <1>2, <1>4 DEF Inv, SentInv, Unsent
<1>6. ASSUME Calm' PROVE CalmInv'
  <2>1. Calm  BY <1>1, <1>6 DEF Calm
  <2>2. WayInv /\ PastInv /\ AnswerInv  BY <2>1 DEF Inv, CalmInv
  <2>3. \A q : Waiting(q)' <=> Waiting(q)
    BY <1>1, <1>2, <1>4 DEF Waiting
  <2>4. WayInv'
    <3> HIDE DEF Waiting
    <3> QED  BY <1>1, <2>2, <2>3 DEF WayInv
  <2>5. PastInv'  BY <1>1, <1>2, <2>2 DEF PastInv, Unsent, Unfinished
  <2>6. AnswerInv'
    <3>1. \A q : Mine(q)' <=> Mine(q)  BY <1>1 DEF Mine
    <3>2. \A q \in Calls : pc'[q] = "woken" => pc[q] = "woken"  BY <1>1, <1>2
    <3> HIDE DEF Mine
    <3> QED  BY <1>1, <2>2, <3>1, <3>2 DEF AnswerInv
  <2> QED  BY <2>4, <2>5, <2>6 DEF CalmInv
<1> QED  BY <1>3, <1>5, <1>6 DEF Inv

LEMMA WokenKeeps ==
    ASSUME Inv, HoldInv', NEW r \in Calls, Woken(r)
    PROVE  Inv'
<1>1. /\ pc[r] = "wait" /\ pc' = [pc EXCEPT ![r] = "woken"]
      /\ sem >= 1 /\ sem' = sem - 1
      /\ UNCHANGED <<lock, result, topic, data, code, buf, rpc, msg, dst, net, sent, answered, unasked>>
  BY DEF Woken, WokenAt, Goto, At, armVars, readerVars, brokerVars
<1>2. pc \in [Calls -> Places] /\ sem \in Nat  BY DEF Inv, HoldInv, SentInv
<1>3. ResultInv'  BY <1>1, <1>2 DEF Inv, ResultInv, Unfinished, Unsent
<1>4. SentInv'  BY <1>1, <1>2 DEF Inv, SentInv, Unsent
<1>5. ASSUME Calm' PROVE CalmInv'
  <2>1. Calm  BY <1>1, <1>5 DEF Calm
  <2>2. WayInv /\ PastInv /\ AnswerInv  BY <2>1 DEF Inv, CalmInv
  <2>3. sem = 1 /\ sem' = 0 /\ lock = r  BY <1>1, <1>2, <2>2 DEF WayInv, Inv, HoldInv, Outside
  <2>4. r \in answered
    <3>1. PICK q \in Calls : Waiting(q)  BY <2>2, <2>3 DEF WayInv
    <3>2. q = r  BY <2>3, <3>1 DEF Waiting, Inv, HoldInv, Outside
    <3> QED  BY <3>1, <3>2 DEF Waiting
  <2>5. /\ \A i \in DOMAIN net : net[i].to = Nobody
        /\ rpc \notin Handling \ {"match"} /\ (rpc \in Handling => msg.to = Nobody)
    BY <2>2, <2>3 DEF WayInv
  <2>6. WayInv'
    <3> HIDE DEF Waiting
    <3> QED  BY <1>1, <2>2, <2>3, <2>5 DEF WayInv, Handling
  <2>7. PastInv'  BY <1>1, <1>2, <2>2, <2>4 DEF PastInv, Unsent, Unfinished
  <2>8. AnswerInv'
    <3>1. \A q : Mine(q)' <=> Mine(q)  BY <1>1 DEF Mine
    <3>2. \A q \in Calls : pc'[q] = "woken" => q = r \/ pc[q] = "woken"  BY <1>1, <1>2
    <3> HIDE DEF Mine
    <3> QED  BY <1>1, <2>2, <2>3, <2>5, <3>1, <3>2 DEF AnswerInv, Handling
  <2> QED  BY <2>6, <2>7, <2>8 DEF CalmInv
<1> QED  BY <1>3, <1>4, <1>5 DEF Inv

-------------------------------------------------------------------------------
(* msgarrvd *)

LEMMA ArriveKeeps == ASSUME Inv, HoldInv', Arrive PROVE Inv'
<1>1. /\ rpc = "idle" /\ net # <<>> /\ net' = Tail(net)
      /\ \/ rpc' \in {"idle", "badtopic"}
         \/ topic \in Calls /\ rpc' = "match" /\ msg' = net[1]
      /\ UNCHANGED <<lock, pc, result, topic, data, code, sem, buf, sent, answered, unasked>>
  BY DEF Arrive, Return, callVars, armVars, Inv, SentInv
<1>2. net \in Seq(Message)  BY DEF Inv, SentInv
<1>3. /\ net' \in Seq(Message) /\ 1 \in DOMAIN net
      /\ \A i \in DOMAIN net' : i + 1 \in DOMAIN net /\ net'[i] = net[i + 1] /\ i + 1 # 1
  BY <1>1, <1>2
<1>4. ResultInv'  BY <1>1 DEF Inv, ResultInv
<1>5. SentInv'  BY <1>1, <1>3, MessagesTyped DEF Inv, SentInv, Handling
<1>6. ASSUME Calm' PROVE CalmInv'
  <2>1. Calm  BY <1>1, <1>6 DEF Calm
  <2>2. WayInv /\ PastInv /\ AnswerInv  BY <2>1 DEF Inv, CalmInv
  <2>3. \A q : Waiting(q)' <=> Waiting(q)  BY <1>1 DEF Waiting
  <2>4. \A i \in DOMAIN net' : net'[i].to # Nobody =>
           /\ Waiting(net'[i].to) /\ sem = 0 /\ net[1].to = Nobody
           /\ \A j \in DOMAIN net' : net'[j].to # Nobody => j = i
    BY <1>3, <2>2 DEF WayInv
  <2>5. net[1].to # Nobody => Waiting(net[1].to) /\ sem = 0
    BY <1>3, <2>2 DEF WayInv
  <2>6. WayInv'
    <3> HIDE DEF Waiting
    <3> QED  BY <1>1, <2>2, <2>3, <2>4, <2>5 DEF WayInv, Handling
  <2>7. PastInv'  BY <1>1, <2>2 DEF PastInv
  <2>8. AnswerInv'
    <3>1. \A q : Mine(q)' <=> Mine(q)  BY <1>1 DEF Mine
    <3> HIDE DEF Mine
    <3> QED  BY <1>1, <2>2, <3>1 DEF AnswerInv
  <2> QED  BY <2>6, <2>7, <2>8 DEF CalmInv
<1> QED  BY <1>4, <1>5, <1>6 DEF Inv

\* A message on a topic that a call waits on answers it, as long as it is calm.
LEMMA HandleKeeps ==
    ASSUME Inv, HoldInv', Match \/ CheckNull \/ Check \/ TooLong \/ Fits
    PROVE  Inv'
<1> USE DEF Reader, callVars, armVars, brokerVars
<1>1. /\ rpc \in {"match", "check", "size"}
      /\ UNCHANGED <<lock, pc, result, topic, data, sem, buf, sent, net, answered, unasked>>
  BY DEF Match, CheckNull, Check, TooLong, Fits, FitsWith
<1>2. \/ rpc' \in {"idle", "badtopic"} /\ code' = code
      \/ rpc = "match" /\ rpc' = "check" /\ WaitOn[topic] = msg.topic /\ topic # Nobody
         /\ msg' = msg /\ code' = code
      \/ rpc = "check" /\ rpc' = "post" /\ data = Nobody /\ msg' = msg
      \/ rpc = "check" /\ rpc' = "size" /\ msg' = msg /\ code' = code
      \/ rpc = "size" /\ rpc' = "post" /\ msg' = msg /\ code' = "size"
      \/ rpc = "size" /\ rpc' = "copy" /\ data # Nobody /\ msg.len < Room[data]
         /\ msg' = msg /\ code' = code
  BY DEF Match, CheckNull, Check, TooLong, Fits, FitsWith, Return
<1>3. rpc' \in Handling => rpc \in Handling /\ msg' = msg  BY <1>1, <1>2 DEF Handling
<1>4. code' \in {"ok", "param", "size", Wild} /\ (code' = "ok" => code = "ok")
  BY DEF Inv, ResultInv, Match, CheckNull, Check, TooLong, Fits, FitsWith
<1>5. ResultInv'  BY <1>1, <1>4 DEF Inv, ResultInv
<1>6. SentInv'  BY <1>1, <1>2, <1>3 DEF Inv, SentInv
<1>7. ASSUME Calm' PROVE CalmInv'
  <2>1. Calm  BY <1>1, <1>7 DEF Calm
  <2>2. WayInv /\ PastInv /\ AnswerInv  BY <2>1 DEF Inv, CalmInv
  <2>3. \A q : Waiting(q)' <=> Waiting(q)  BY <1>1 DEF Waiting
  <2>4. rpc \in Handling => msg.to \in Calls \cup {Nobody}  BY MessagesTyped DEF Inv
  <2>5. rpc' \in Handling \ {"match"} => msg.to # Nobody
    <3>1. ASSUME rpc = "match", WaitOn[topic] = msg.topic, topic # Nobody
          PROVE  msg.to # Nobody
      <4>1. topic \in Calls /\ (msg.to = Nobody => msg.topic \in unasked)
        BY <3>1 DEF Inv, SentInv, Handling
      <4> QED  BY <2>1, <3>1, <4>1 DEF Calm
    <3>2. rpc \in Handling \ {"match"} => msg.to # Nobody  BY <2>2 DEF WayInv
    <3> QED  BY <1>1, <1>2, <3>1, <3>2 DEF Handling
  <2>6. rpc' \in Handling \ {"match"} => data = msg.to
    <3>1. ASSUME rpc \in Handling, msg.to # Nobody  PROVE data = msg.to
      BY <2>2, <2>4, <3>1 DEF WayInv, Waiting, Inv, HoldInv, Armed
    <3> QED  BY <1>3, <2>5, <3>1
  <2>7. rpc' = "post" => rpc = "size" /\ code' = "size"
    BY <1>1, <1>2, <2>5, <2>6 DEF Handling
  <2>8. WayInv'
    <3> HIDE DEF Waiting
    <3> QED  BY <1>1, <1>2, <1>3, <2>2, <2>3, <2>5, <2>6 DEF WayInv, Handling
  <2>9. PastInv'  BY <1>1, <2>2 DEF PastInv
  <2>10. AnswerInv'
    <3>1. \A q : Mine(q)' <=> Mine(q)  BY <1>1 DEF Mine
    <3> HIDE DEF Mine
    <3>2. rpc' \notin Copied  BY <1>1, <1>2
    <3> HIDE DEF Copied
    <3> QED  BY <1>1, <1>4, <2>2, <2>7, <3>1, <3>2 DEF AnswerInv
  <2> QED  BY <2>8, <2>9, <2>10 DEF CalmInv
<1> QED  BY <1>5, <1>6, <1>7 DEF Inv

\* What a step of msgarrvd keeps that stores nothing outside.
LEMMA ReaderKeeps ==
    ASSUME Inv, HoldInv', rpc \in Handling \ {"match", "post"},
           rpc' \in (Handling \ {"match"}) \cup {"badwrite"}, msg' = msg,
           code' \in {code, "ok"}, buf' \in [Calls -> Message \cup {Own, Wild}],
           UNCHANGED <<lock, pc, result, topic, data, sem, sent, net, answered, unasked>>,
           Calm => /\ rpc' # "badwrite"
                   /\ rpc' \in Fitting => rpc \in Fitting
                   /\ rpc' \in {"copying", "ending"} => dst' = msg.to
                   /\ \A q \in Calls : buf'[q] # buf[q] => q = msg.to
                   /\ rpc' \in Copied \cup {"post"} => buf'[msg.to] = msg
                   /\ code' = "ok" => rpc' = "post" \/ code = "ok"
    PROVE  Inv'
<1>1. msg \in Message /\ msg.to \in Calls \cup {Nobody} /\ msg # Own
  BY MessagesTyped DEF Inv, SentInv
<1>2. ResultInv'  BY DEF Inv, ResultInv
<1>3. SentInv'  BY <1>1 DEF Inv, SentInv
<1>4. ASSUME Calm' PROVE CalmInv'
  <2>1. Calm  BY <1>4 DEF Calm
  <2>2. WayInv /\ PastInv /\ AnswerInv  BY <2>1 DEF Inv, CalmInv
  <2>3. /\ msg.to \in Calls /\ Waiting(msg.to) /\ sem = 0
        /\ \A i \in DOMAIN net : net[i].to = Nobody
    BY <1>1, <2>2 DEF WayInv
  <2>4. lock = msg.to /\ pc[msg.to] \in {"complete", "wait"} /\ msg.to \in answered
    BY <2>3 DEF Waiting, Inv, HoldInv, Outside
  <2>5. \A q : Waiting(q)' <=> Waiting(q)  BY DEF Waiting
  <2>6. WayInv'
    <3> HIDE DEF Waiting
    <3> QED  BY <2>1, <2>2, <2>3, <2>5 DEF WayInv
  <2>7. PastInv'
    <3>1. pc[msg.to] \notin Unsent  BY <2>4 DEF Unsent
    <3> QED  BY <2>1, <2>2, <2>3, <3>1 DEF PastInv
  <2>8. AnswerInv'
    <3>1. rpc' \in Copied \cup {"post"} => Mine(msg.to)' /\ buf'[msg.to] = msg
      BY <1>1, <2>1, <2>4 DEF Mine
    <3>2. \A q \in Calls : q # msg.to => (Mine(q)' <=> Mine(q))
      BY <2>1 DEF Mine
    <3>3. \A q \in Calls : lock = q => pc[q] # "woken" /\ sem # 1
      BY <2>3, <2>4
    <3>4. result[msg.to] # "ok"  BY <2>3, <2>4 DEF Inv, ResultInv, Unfinished
    <3>5. \A q \in Calls : pc[q] = "woken" => lock = q  BY DEF Inv, HoldInv, Outside
    <3> HIDE DEF Mine
    <3> QED  BY <2>2, <2>3, <3>1, <3>2, <3>3, <3>4, <3>5 DEF AnswerInv
  <2> QED  BY <2>6, <2>7, <2>8 DEF CalmInv
<1> QED  BY <1>2, <1>3, <1>4 DEF Inv

\* As long as it is calm, msgarrvd stores to the buffer it has found room in.
LEMMA InPlace ==
    ASSUME Inv, Calm, rpc \in Fitting
    PROVE  /\ msg \in Message /\ msg.to \in Calls /\ msg.to # Nobody
           /\ data = msg.to /\ msg.len < Room[msg.to]
           /\ rpc \in {"copying", "ending"} => dst = msg.to
           /\ rpc \in Copied => buf[msg.to] = msg
<1>1. WayInv /\ AnswerInv  BY DEF Inv, CalmInv
<1>2. rpc \in Handling \ {"match"}  BY DEF Handling, Fitting
<1>3. msg.to \in Calls  BY <1>1, <1>2, MessagesTyped DEF WayInv, Inv
<1>4. msg \in Message  BY <1>2 DEF Inv, SentInv
<1> QED  BY <1>1, <1>3, <1>4 DEF WayInv, AnswerInv

LEMMA FetchKeeps == ASSUME Inv, HoldInv', FetchToCopy \/ FetchToEnd PROVE Inv'
<1>1. /\ UNCHANGED <<lock, pc, result, topic, data, code, sem, buf, msg, sent, net, answered,
                     unasked>>
      /\ dst' = data
      /\ data = Nobody => rpc' = "badwrite"
      /\ data # Nobody => \/ rpc = "copy" /\ rpc' = "copying"
                          \/ rpc = "end" /\ rpc' = "ending"
      /\ rpc \in {"copy", "end"}
  BY DEF FetchToCopy, FetchToEnd, Fetch, callVars, armVars, brokerVars
<1>2. rpc \in Fitting  BY <1>1 DEF Fitting
<1>3. Calm => /\ rpc' # "badwrite" /\ dst' = msg.to
              /\ rpc' \in Copied \cup {"post"} => buf'[msg.to] = msg
  BY <1>1, <1>2, InPlace DEF Copied
<1>4. /\ rpc \in Handling \ {"match", "post"}
      /\ rpc' \in (Handling \ {"match"}) \cup {"badwrite"}
  BY <1>1 DEF Handling, Fitting, Copied
<1>5. buf' \in [Calls -> Message \cup {Own, Wild}]  BY <1>1 DEF Inv, SentInv
<1> QED  BY <1>1, <1>2, <1>3, <1>4, <1>5, ReaderKeeps

LEMMA CopyKeeps == ASSUME Inv, HoldInv', Copy PROVE Inv'
<1>1. /\ rpc = "copying" /\ msg' = msg
      /\ UNCHANGED <<lock, pc, result, topic, data, code, sem, sent, net, answered, unasked>>
      /\ \/ /\ msg.len < Room[dst] /\ rpc' = "end"
            /\ buf' = [buf EXCEPT ![dst] = msg]
         \/ /\ ~(msg.len < Room[dst]) /\ rpc' = "badwrite" /\ buf' = buf
  BY DEF Copy, callVars, armVars, brokerVars
<1>2. rpc \in Fitting  BY <1>1 DEF Fitting
<1>3. /\ rpc \in Handling \ {"match", "post"}
      /\ rpc' \in (Handling \ {"match"}) \cup {"badwrite"}
  BY <1>1 DEF Handling, Fitting, Copied
<1>4. msg \in Message /\ buf \in [Calls -> Message \cup {Own, Wild}]
  BY <1>3 DEF Inv, SentInv
<1>5. buf' \in [Calls -> Message \cup {Own, Wild}]  BY <1>1, <1>4
<1>6. ASSUME Calm
      PROVE  /\ rpc' # "badwrite" /\ rpc' \notin {"copying", "ending"}
             /\ \A q \in Calls : buf'[q] # buf[q] => q = msg.to
             /\ buf'[msg.to] = msg
  <2>1. dst = msg.to /\ msg.to \in Calls /\ msg.len < Room[msg.to]
    BY <1>1, <1>2, <1>6, InPlace
  <2>2. rpc' = "end" /\ buf' = [buf EXCEPT ![msg.to] = msg]  BY <1>1, <2>1
  <2> QED  BY <1>4, <2>1, <2>2
<1> QED  BY <1>1, <1>2, <1>3, <1>5, <1>6, ReaderKeeps

\* The 0 ends the answer that has just been copied.
LEMMA TerminateKeeps == ASSUME Inv, HoldInv', Terminate PROVE Inv'
<1>1. /\ rpc = "ending" /\ msg' = msg
      /\ UNCHANGED <<lock, pc, result, topic, data, code, sem, sent, net, answered, unasked>>
      /\ \/ /\ msg.len < Room[dst] /\ rpc' = "code"
            /\ buf' = buf \/ (buf[dst] # msg /\ buf' = [buf EXCEPT ![dst] = Wild])
         \/ /\ ~(msg.len < Room[dst]) /\ rpc' = "badwrite" /\ buf' = buf
  BY DEF Terminate, callVars, armVars, brokerVars
<1>2. rpc \in Fitting \cap Copied  BY <1>1 DEF Fitting, Copied
<1>3. /\ rpc \in Handling \ {"match", "post"}
      /\ rpc' \in (Handling \ {"match"}) \cup {"badwrite"}
  BY <1>1 DEF Handling, Fitting, Copied
<1>4. buf' \in [Calls -> Message \cup {Own, Wild}]  BY <1>1 DEF Inv, SentInv
<1>5. ASSUME Calm
      PROVE  rpc' = "code" /\ buf' = buf /\ buf'[msg.to] = msg
  BY <1>1, <1>2, <1>5, InPlace
<1>6. "code" \notin Fitting  BY DEF Fitting
<1> QED  BY <1>1, <1>3, <1>4, <1>5, <1>6, ReaderKeeps

LEMMA SetCodeKeeps == ASSUME Inv, HoldInv', SetCode PROVE Inv'
<1>1. /\ rpc = "code" /\ rpc' = "post" /\ code' = "ok"
      /\ UNCHANGED <<lock, pc, result, topic, data, sem, buf, msg, sent, net, answered, unasked>>
  BY DEF SetCode, SetCodeTo, Reader, callVars, armVars, brokerVars
<1>2. Calm => buf[msg.to] = msg  BY <1>1 DEF Inv, CalmInv, AnswerInv, Copied
<1>3. /\ rpc \in Handling \ {"match", "post"} /\ rpc' \in Handling \ {"match"}
      /\ rpc' \notin Fitting
  BY <1>1 DEF Handling, Fitting, Copied
<1>4. buf' \in [Calls -> Message \cup {Own, Wild}]  BY <1>1 DEF Inv, SentInv
<1> QED  BY <1>1, <1>2, <1>3, <1>4, ReaderKeeps

LEMMA PostKeeps == ASSUME Inv, HoldInv', Post PROVE Inv'
<1>1. /\ rpc = "post" /\ rpc' = "idle" /\ sem' = sem + 1
      /\ UNCHANGED <<lock, pc, result, topic, data, code, buf, sent, net, answered, unasked>>
  BY DEF Post, Return, callVars, armVars, brokerVars
<1>2. ResultInv'  BY <1>1 DEF Inv, ResultInv
<1>3. SentInv'  BY <1>1 DEF Inv, SentInv, Handling
<1>4. ASSUME Calm' PROVE CalmInv'
  <2>1. Calm  BY <1>1, <1>4 DEF Calm
  <2>2. WayInv /\ PastInv /\ AnswerInv  BY <2>1 DEF Inv, CalmInv
  <2>3. msg.to \in Calls /\ Waiting(msg.to) /\ sem = 0 /\ sem' = 1
    BY <1>1, <2>2, MessagesTyped DEF WayInv, Handling, Inv
  <2>4. \A i \in DOMAIN net : net[i].to = Nobody
    BY <1>1, <2>2, <2>3 DEF WayInv, Handling
  <2>5. \A q : Waiting(q)' <=> Waiting(q)  BY <1>1 DEF Waiting
  <2>6. WayInv'
    <3> HIDE DEF Waiting
    <3> QED  BY <1>1, <2>2, <2>3, <2>4, <2>5 DEF WayInv, Handling
  <2>7. PastInv'  BY <1>1, <2>2 DEF PastInv
  <2>8. AnswerInv'
    <3>1. \A q : Mine(q)' <=> Mine(q)  BY <1>1 DEF Mine
    <3>2. lock = msg.to  BY <2>3 DEF Waiting, Inv, HoldInv, Outside
    <3> HIDE DEF Mine
    <3> QED  BY <1>1, <2>2, <3>1, <3>2 DEF AnswerInv
  <2> QED  BY <2>6, <2>7, <2>8 DEF CalmInv
<1> QED  BY <1>2, <1>3, <1>4 DEF Inv

\* What is on the line may be lost; the user and the subscriptions do not matter.
LEMMA RestKeeps ==
    ASSUME Inv, HoldInv',
           \/ Lose \/ UNCHANGED vars
           \/ \E t \in UserTopics : UserSubscribes(t) \/ UserUnsubscribes(t)
    PROVE  Inv'
<1>1. /\ UNCHANGED <<lock, pc, result, topic, data, code, sem, buf, rpc, msg, dst, sent, answered,
                     unasked>>
      /\ net' = net \/ net' = <<>>
  BY DEF Lose, UserSubscribes, UserUnsubscribes, vars, callVars, armVars, readerVars, brokerVars
<1>2. ResultInv'  BY <1>1 DEF Inv, ResultInv
<1>3. SentInv'
  <2>1. CASE net' = net  BY <1>1, <2>1 DEF Inv, SentInv
  <2>2. CASE net' = <<>>
    <3>1. net' \in Seq(Message) /\ DOMAIN net' = {}  BY <2>2
    <3> QED  BY <1>1, <3>1 DEF Inv, SentInv
  <2> QED  BY <1>1, <2>1, <2>2
<1>4. ASSUME Calm' PROVE CalmInv'
  <2>1. Calm  BY <1>1, <1>4 DEF Calm
  <2>2. WayInv /\ PastInv /\ AnswerInv  BY <2>1 DEF Inv, CalmInv
  <2>3. \A q : (Waiting(q)' <=> Waiting(q)) /\ (Mine(q)' <=> Mine(q))
    BY <1>1 DEF Waiting, Mine
  <2> HIDE DEF Waiting, Mine
  <2>4. WayInv'  BY <1>1, <2>2, <2>3 DEF WayInv
  <2>5. PastInv'  BY <1>1, <2>2 DEF PastInv
  <2>6. AnswerInv'  BY <1>1, <2>2, <2>3 DEF AnswerInv
  <2> QED  BY <2>4, <2>5, <2>6 DEF CalmInv
<1> QED  BY <1>2, <1>3, <1>4 DEF Inv

LEMMA StepKeeps == Inv /\ [Next]_vars => Inv'
<1> SUFFICES ASSUME Inv, [Next]_vars PROVE Inv'
  OBVIOUS
<1>1. HoldInv'  BY BeginKeeps, InsideKeeps, OthersKeep DEF Next, Quiet, Inv
<1>2. ASSUME NEW r \in Calls, Take(r) \/ TakePush(r) \/ Busy(r) \/ CallStep(r) \/ Answer(r)
      PROVE  Inv'
  BY <1>1, <1>2, PlainCallKeeps, SubscribeKeeps, PublishKeeps, WokenKeeps, AnswerKeeps
     DEF CallStep
<1>3. CASE ReaderStep
  BY <1>1, <1>3, ArriveKeeps, HandleKeeps, FetchKeeps, CopyKeeps,
     TerminateKeeps, SetCodeKeeps, PostKeeps DEF ReaderStep
<1> QED  BY <1>1, <1>2, <1>3, UnaskedKeeps, RestKeeps DEF Next, Quiet

LEMMA InvAlways == Spec => []Inv
<1>1. Init => Inv
  BY DEF Init, Inv, HoldInv, Places, Outside, Armed, ResultInv, SentInv, CalmInv, WayInv, PastInv,
     AnswerInv, Unfinished, Unsent, Handling, Waiting, Mine
<1> QED  BY <1>1, StepKeeps, PTL DEF Spec

\* "Send a message and wait for the reply" (pushOneMessageWait): a call that
\* succeeds has sent its own message and has the reply to it, whoever else waits
\* on the topic, until a message comes there that answers nobody or a call
\* gives up.
THEOREM AlwaysMine == Spec => []AnswerIsMine
<1>1. Inv => AnswerIsMine
  BY DEF Inv, AnswerIsMine, CalmInv, AnswerInv, Mine, SentInv
<1> QED  BY <1>1, InvAlways, PTL

\* As long, msgarrvd (mqttPahocClient.c:43) writes through no NULL pointer and
\* not beyond the buffer that waits, though it reads waitData and waitDataLen
\* again without lockmsg.
THEOREM AlwaysWritesInside == Spec => []WritesInside
<1>1. Inv => WritesInside  BY DEF Inv, WritesInside, CalmInv, WayInv
<1> QED  BY <1>1, InvAlways, PTL

\* As long, the call whose buffer msgarrvd has taken for memcpy or for the 0
\* (mqttPahocClient.c:43-44) still has lockmsg and is not woken: no call
\* returns with its buffer about to be written.
THEOREM AlwaysWritesToHolder == Spec => []WritesToHolder
<1>1. ASSUME Inv, Calm, rpc \in {"copying", "ending"}
      PROVE  lock = dst /\ pc[dst] \in {"complete", "wait"} /\ sem = 0
  <2>1. rpc \in Fitting /\ rpc \in Handling \ {"match"}  BY <1>1 DEF Handling, Fitting
  <2>2. dst = msg.to /\ dst \in Calls /\ dst # Nobody  BY <1>1, <2>1, InPlace
  <2>3. Waiting(dst) /\ sem = 0  BY <1>1, <2>1, <2>2 DEF Inv, CalmInv, WayInv
  <2> QED  BY <1>1, <2>2, <2>3 DEF Waiting, Inv, HoldInv, Outside
<1>2. Inv => WritesToHolder  BY <1>1 DEF WritesToHolder
<1> QED  BY <1>2, InvAlways, PTL
===============================================================================
