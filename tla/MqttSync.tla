------------------------------- MODULE MqttSync -------------------------------
(***************************************************************************)
(* src/mqtt/mqttPahocClient.c: calls of pushOneMessageWait and             *)
(* pushOneMessage, the callbacks msgarrvd and connlost that the Paho       *)
(* library runs in its own thread, and the broker with the device that     *)
(* answers.  The callers exclude each other with lockmsg; the callback     *)
(* shares waitTopic, waitData, waitDataLen and waitRetCode with them       *)
(* without a lock, and the semaphore waitRspTopic.                         *)
(*                                                                         *)
(* waitTopic and waitData are represented by the call whose topic and      *)
(* buffer they point to.  waitDataLen is set and reset next to waitData:   *)
(* what msgarrvd does between the two it also does before or after.  The   *)
(* Makefile asks for no optimisation: each use of a field reads it again,  *)
(* and what is read is stored through a step later, when the call whose    *)
(* buffer it was may have returned.                                        *)
(* Reconnecting is left to the callback of the user and is not modelled.   *)
(***************************************************************************)
EXTENDS Naturals, Sequences, FiniteSets

CONSTANTS
    Calls,       \* calls of pushOneMessageWait or pushOneMessage
    Nobody,
    Own,         \* in a buffer: the message its call wants to send
    Wild,        \* what malloc left in waitTopic and waitRetCode; a damaged message
    Topics,
    UserTopics,  \* those subscribeTopic and unSubscribeTopic are called for
    WaitOn,      \* the waitTopic of each call
    Room,        \* the messageLen of each call
    MaxLen,      \* longest payload the device sends
    MaxUnasked   \* topics on which a message comes that answers no call

Message == [topic : Topics, to : Calls \cup {Nobody}, len : 1 .. MaxLen]

ASSUME MqttAssumption ==
    /\ Nobody \notin Calls /\ Wild \notin Calls /\ Wild # Nobody
    /\ Own \notin {Nobody, Wild} /\ {Own, Wild} \cap Message = {}
    /\ UserTopics \subseteq Topics
    /\ WaitOn \in [Calls -> Topics] /\ Room \in [Calls -> Nat \ {0}]
    /\ MaxLen \in Nat \ {0} /\ MaxUnasked \in Nat

VARIABLES
    lock,     \* the call that holds lockmsg
    topic,    \* waitTopic
    data,     \* waitData
    code,     \* waitRetCode
    sem,      \* waitRspTopic
    pc,       \* where each call is
    result,   \* what it is about to return
    buf,      \* what is in the buffer of each call
    rpc,      \* where msgarrvd is
    msg,      \* its message, freed when it returns
    dst,      \* the buffer it is about to store to: waitData, as it was read
    up,       \* the connection stands
    subs,     \* topics the broker forwards
    net,      \* messages the broker has forwarded and msgarrvd has not seen
    sent,     \* what each call published to be answered
    answered, \* calls the device has answered
    unasked   \* topics on which a message came that answers no call

callVars == <<lock, pc, result>>
armVars == <<topic, data>>
readerVars == <<rpc, msg, dst>>
brokerVars == <<up, subs, net, answered, unasked>>
vars == <<callVars, armVars, code, sem, buf, readerVars, sent, brokerVars>>

\* A client createMqttclient has connected.  It leaves waitTopic and waitRetCode as
\* malloc did.
Init ==
    /\ lock = Nobody /\ topic \in {Nobody, Wild} /\ data = Nobody
    /\ code = Wild /\ sem = 0
    /\ pc = [r \in Calls |-> "start"]
    /\ result = [r \in Calls |-> "none"]
    /\ buf = [r \in Calls |-> Own]
    /\ sent = [r \in Calls |-> Nobody]
    /\ rpc = "idle" /\ msg = Nobody /\ dst = Nobody
    /\ up = TRUE /\ subs = {} /\ net = <<>>
    /\ answered = {} /\ unasked = {}

-------------------------------------------------------------------------------
(* pushOneMessageWait and pushOneMessage *)

\* The process is gone: msgarrvd has read waitTopic when it pointed nowhere, or
\* written through waitData where it must not.
Crashed == rpc \in {"badtopic", "badwrite"}

At(r, at) == pc[r] = at /\ ~Crashed
Goto(r, from, to) == At(r, from) /\ pc' = [pc EXCEPT ![r] = to]
Fail(r, why) == result' = [result EXCEPT ![r] = why]

\* pushOneMessageWait and pushOneMessage begin.
TakeTo(r, next) ==
    /\ Goto(r, "start", next)
    /\ lock = Nobody /\ lock' = r
    /\ UNCHANGED <<result, armVars, code, sem, buf, readerVars, sent, brokerVars>>

Take(r) == TakeTo(r, "subscribe")
TakePush(r) == TakeTo(r, "push")

\* 50 attempts at lockmsg have failed.
Busy(r) ==
    /\ Goto(r, "start", "done") /\ Fail(r, "unsent")
    /\ lock # Nobody
    /\ UNCHANGED <<lock, armVars, code, sem, buf, readerVars, sent, brokerVars>>

\* A message may come on t that answers no call.
Unheard(t) ==
    /\ Cardinality(unasked) < MaxUnasked
    /\ t \notin unasked /\ unasked' = unasked \cup {t}

\* The broker grants the subscription, and may have a retained message; or it
\* refuses, which MQTTClient_subscribe reports with 0x80: not less than 0.
Subscribe(r) ==
    /\ Goto(r, "subscribe", "topic")
    /\ up
    /\ \/ subs' = subs \cup {WaitOn[r]} /\ UNCHANGED <<net, unasked>>
       \/ /\ Unheard(WaitOn[r])
          /\ subs' = subs \cup {WaitOn[r]}
          /\ \E n \in 1 .. MaxLen :
                net' = Append(net, [topic |-> WaitOn[r], to |-> Nobody, len |-> n])
       \/ UNCHANGED <<subs, net, unasked>>
    /\ UNCHANGED <<lock, result, armVars, code, sem, buf, readerVars, sent, up, answered>>

SubscribeFails(r) ==
    /\ Goto(r, "subscribe", "unlock") /\ Fail(r, "unsent")
    /\ UNCHANGED <<lock, armVars, code, sem, buf, readerVars, sent, brokerVars>>

SetTopic(r) ==
    /\ Goto(r, "topic", "data")
    /\ topic' = r
    /\ UNCHANGED <<lock, result, data, code, sem, buf, readerVars, sent, brokerVars>>

SetData(r) ==
    /\ Goto(r, "data", "publish")
    /\ data' = r
    /\ UNCHANGED <<lock, result, topic, code, sem, buf, readerVars, sent, brokerVars>>

\* The payload is the buffer waitData points to: what is in it by now is sent.
Publish(r) ==
    /\ Goto(r, "publish", "complete")
    /\ up
    /\ sent' = [sent EXCEPT ![r] = buf[r]]
    /\ UNCHANGED <<lock, result, armVars, code, sem, buf, readerVars, brokerVars>>

\* pushOneMessage asks for no reply.
Push(r) ==
    /\ Goto(r, "push", "flush")
    /\ up
    /\ UNCHANGED <<lock, result, armVars, code, sem, buf, readerVars, sent, brokerVars>>

PublishFails(r) ==
    /\ Goto(r, "publish", "untopic") \/ Goto(r, "push", "unlock")
    /\ Fail(r, "unsent")
    /\ UNCHANGED <<lock, armVars, code, sem, buf, readerVars, sent, brokerVars>>

\* MQTTClient_waitForCompletion.
Complete(r) ==
    /\ Goto(r, "complete", "wait")
    /\ up
    /\ UNCHANGED <<lock, result, armVars, code, sem, buf, readerVars, sent, brokerVars>>

Flush(r) ==
    /\ Goto(r, "flush", "unlock") /\ Fail(r, "pushed")
    /\ up
    /\ UNCHANGED <<lock, armVars, code, sem, buf, readerVars, sent, brokerVars>>

\* It times out, or the connection is lost.
CompleteFails(r) ==
    /\ Goto(r, "complete", "untopic") \/ Goto(r, "flush", "unlock")
    /\ Fail(r, "timeout")
    /\ UNCHANGED <<lock, armVars, code, sem, buf, readerVars, sent, brokerVars>>

WokenAt(r, least, taken) ==
    /\ Goto(r, "wait", "woken")
    /\ sem >= least /\ sem' = sem - taken
    /\ UNCHANGED <<lock, result, armVars, code, buf, readerVars, sent, brokerVars>>

WokenAnyway(r) == WokenAt(r, 0, 0)   \* mutant
Woken(r) == WokenAt(r, 1, 1)

\* The deadline passes, or is no valid time: tv_nsec may exceed a second.
Timeout(r) ==
    /\ Goto(r, "wait", "untopic") /\ Fail(r, "timeout")
    /\ sem = 0
    /\ UNCHANGED <<lock, armVars, code, sem, buf, readerVars, sent, brokerVars>>

ReadCode(r) ==
    /\ Goto(r, "woken", "untopic") /\ Fail(r, code)
    /\ UNCHANGED <<lock, armVars, code, sem, buf, readerVars, sent, brokerVars>>

ClearTopic(r) ==
    /\ Goto(r, "untopic", "undata")
    /\ topic' = Nobody
    /\ UNCHANGED <<lock, result, data, code, sem, buf, readerVars, sent, brokerVars>>

ClearData(r) ==
    /\ Goto(r, "undata", "unsub")
    /\ data' = Nobody
    /\ UNCHANGED <<lock, result, topic, code, sem, buf, readerVars, sent, brokerVars>>

\* A call that got past its subscription ends it, whoever else wants it.
Unlock(r) ==
    /\ pc[r] \in {"unsub", "unlock"} /\ ~Crashed
    /\ pc' = [pc EXCEPT ![r] = "done"]
    /\ lock' = Nobody
    /\ subs' = IF pc[r] = "unsub" THEN subs \ {WaitOn[r]} ELSE subs
    /\ UNCHANGED <<result, armVars, code, sem, buf, readerVars, sent, up, net, answered,
                   unasked>>

-------------------------------------------------------------------------------
(* msgarrvd *)

Reader(from, to) == rpc = from /\ rpc' = to /\ UNCHANGED <<msg, dst>>

Return == rpc' = "idle" /\ msg' = Nobody /\ dst' = Nobody

\* The library calls msgarrvd.  No call waits: the callback of setCallBack
\* gets the message.  A wild waitTopic may be read without harm, or not.
Arrive ==
    /\ rpc = "idle" /\ net # <<>>
    /\ net' = Tail(net)
    /\ \/ topic \in {Nobody, Wild} /\ Return
       \/ topic = Wild /\ rpc' = "badtopic" /\ UNCHANGED <<msg, dst>>
       \/ topic \in Calls /\ rpc' = "match" /\ msg' = Head(net) /\ UNCHANGED dst
    /\ UNCHANGED <<callVars, armVars, code, sem, buf, sent, up, subs, answered, unasked>>

\* memcmp with waitTopic, read again: NULL crashes, and what is on another
\* topic goes to the callback of setCallBack.
Match ==
    /\ rpc = "match"
    /\ \/ topic = Nobody /\ Reader("match", "badtopic")
       \/ topic # Nobody /\ WaitOn[topic] # msg.topic /\ Return
       \/ topic # Nobody /\ WaitOn[topic] = msg.topic /\ Reader("match", "check")
    /\ UNCHANGED <<callVars, armVars, code, sem, buf, sent, brokerVars>>

CheckNull ==
    /\ Reader("check", "post")
    /\ data = Nobody
    /\ code' = "param"
    /\ UNCHANGED <<callVars, armVars, sem, buf, sent, brokerVars>>

Check ==
    /\ Reader("check", "size")
    /\ data # Nobody
    /\ UNCHANGED <<callVars, armVars, code, sem, buf, sent, brokerVars>>

\* The payload and the terminating 0 do not fit, or waitDataLen is 0 again.
TooLong ==
    /\ Reader("size", "post")
    /\ data # Nobody => msg.len >= Room[data]
    /\ code' = "size"
    /\ UNCHANGED <<callVars, armVars, sem, buf, sent, brokerVars>>

FitsWith(len) ==
    /\ Reader("size", "copy")
    /\ data # Nobody /\ len < Room[data]
    /\ UNCHANGED <<callVars, armVars, code, sem, buf, sent, brokerVars>>

FitsUnterminated == FitsWith(msg.len - 1)   \* mutant
Fits == FitsWith(msg.len)

\* waitData is read again, for memcpy and for the terminating 0: by now it may
\* be NULL, or the buffer of the next call.
Fetch(from, to) ==
    /\ rpc = from
    /\ dst' = data
    /\ rpc' = IF data = Nobody THEN "badwrite" ELSE to
    /\ UNCHANGED <<msg, callVars, armVars, code, sem, buf, sent, brokerVars>>

FetchToCopy == Fetch("copy", "copying")
FetchToEnd == Fetch("end", "ending")

\* memcpy.  The call it writes to may have given up and returned.
Copy ==
    /\ rpc = "copying"
    /\ IF msg.len < Room[dst]
       THEN rpc' = "end" /\ buf' = [buf EXCEPT ![dst] = msg]
       ELSE rpc' = "badwrite" /\ UNCHANGED buf
    /\ UNCHANGED <<msg, dst, callVars, armVars, code, sem, sent, brokerVars>>

\* The 0 after the payload.  In the buffer of another call it may cut what that
\* call wants to send.
Terminate ==
    /\ rpc = "ending"
    /\ IF msg.len < Room[dst]
       THEN /\ rpc' = "code"
            /\ \/ UNCHANGED buf
               \/ buf[dst] # msg /\ buf' = [buf EXCEPT ![dst] = Wild]
       ELSE rpc' = "badwrite" /\ UNCHANGED buf
    /\ UNCHANGED <<msg, dst, callVars, armVars, code, sem, sent, brokerVars>>

SetCodeTo(newCode) ==
    /\ Reader("code", "post")
    /\ code' = newCode
    /\ UNCHANGED <<callVars, armVars, sem, buf, sent, brokerVars>>

KeepCode == SetCodeTo(code)   \* mutant
SetCode == SetCodeTo("ok")

Post ==
    /\ rpc = "post" /\ Return
    /\ sem' = sem + 1
    /\ UNCHANGED <<callVars, armVars, code, buf, sent, brokerVars>>

-------------------------------------------------------------------------------
(* The user, the broker and the device *)

\* subscribeTopic; unSubscribeTopic.
UserSubscribes(t) ==
    /\ ~Crashed /\ up
    /\ subs' = subs \cup {t}
    /\ UNCHANGED <<callVars, armVars, code, sem, buf, readerVars, sent, up, net, answered, unasked>>

UserUnsubscribes(t) ==
    /\ ~Crashed /\ up
    /\ subs' = subs \ {t}
    /\ UNCHANGED <<callVars, armVars, code, sem, buf, readerVars, sent, up, net, answered,
                   unasked>>

Forward(m) == net' = IF m.topic \in subs THEN Append(net, m) ELSE net

\* The device answers a request it has got.
Answer(r) ==
    /\ up /\ sent[r] = Own /\ r \notin answered
    /\ answered' = answered \cup {r}
    /\ \E n \in 1 .. MaxLen : Forward([topic |-> WaitOn[r], to |-> r, len |-> n])
    /\ UNCHANGED <<callVars, armVars, code, sem, buf, readerVars, sent, up, subs, unasked>>

\* Somebody publishes on a topic this client has subscribed to.
Unasked(t) ==
    /\ up /\ t \in subs /\ Unheard(t)
    /\ \E n \in 1 .. MaxLen : Forward([topic |-> t, to |-> Nobody, len |-> n])
    /\ UNCHANGED <<callVars, armVars, code, sem, buf, readerVars, sent, up, subs, answered>>

\* The connection is lost; connlost only tells the user.
Lose ==
    /\ up
    /\ up' = FALSE /\ net' = <<>> /\ subs' = {}
    /\ UNCHANGED <<callVars, armVars, code, sem, buf, readerVars, sent, answered, unasked>>

-------------------------------------------------------------------------------
CallStep(r) ==
    \/ Subscribe(r) \/ SubscribeFails(r) \/ SetTopic(r) \/ SetData(r)
    \/ Publish(r) \/ Push(r) \/ PublishFails(r)
    \/ Complete(r) \/ Flush(r) \/ CompleteFails(r)
    \/ Woken(r) \/ Timeout(r) \/ ReadCode(r)
    \/ ClearTopic(r) \/ ClearData(r) \/ Unlock(r)

ReaderStep ==
    \/ Arrive \/ Match \/ CheckNull \/ Check \/ TooLong \/ Fits
    \/ FetchToCopy \/ Copy \/ FetchToEnd \/ Terminate \/ SetCode \/ Post

Quiet ==
    /\ Crashed \/ \A r \in Calls : pc[r] = "done"
    /\ UNCHANGED vars

Next ==
    \/ \E r \in Calls : Take(r) \/ TakePush(r) \/ Busy(r) \/ CallStep(r) \/ Answer(r)
    \/ ReaderStep
    \/ \E t \in UserTopics : UserSubscribes(t) \/ UserUnsubscribes(t)
    \/ \E t \in Topics : Unasked(t)
    \/ Lose
    \/ Quiet

\* Threads keep running, and every wait of a call has a deadline.  Only the
\* holder of lockmsg has a step to take, so one condition covers all calls.
Fairness == WF_vars(ReaderStep) /\ WF_vars(\E r \in Calls : CallStep(r))

Spec == Init /\ [][Next]_vars
FairSpec == Spec /\ Fairness

-------------------------------------------------------------------------------
(* Properties *)

TypeOK ==
    /\ lock \in Calls \cup {Nobody}
    /\ topic \in Calls \cup {Nobody, Wild} /\ data \in Calls \cup {Nobody}
    /\ code \in {"ok", "param", "size", Wild} /\ sem \in Nat
    /\ pc \in [Calls -> {"start", "push", "flush", "subscribe", "topic", "data", "publish",
                         "complete", "wait", "woken", "untopic", "undata", "unsub", "unlock",
                         "done"}]
    /\ result \in [Calls -> {"none", "unsent", "timeout", "pushed", "ok", "param", "size", Wild}]
    /\ \A r \in Calls : buf[r] \in Message \cup {Own, Wild}
    /\ \A r \in Calls : sent[r] \in Message \cup {Own, Wild, Nobody}
    /\ rpc \in {"idle", "match", "check", "size", "copy", "copying", "end", "ending", "code",
                "post", "badtopic", "badwrite"}
    /\ msg \in Message \cup {Nobody} /\ dst \in Calls \cup {Nobody} /\ net \in Seq(Message)
    /\ up \in BOOLEAN /\ subs \subseteq Topics
    /\ answered \subseteq Calls /\ unasked \subseteq Topics

\* So far only answers have come on the topics calls wait on, and no call has
\* given up on an answer that may still come.
Calm ==
    /\ \A r \in Calls : WaitOn[r] \notin unasked
    /\ \A r \in Calls : result[r] # "timeout"

\* "Send a message and wait for the reply on the given topic": a call that
\* succeeds has sent its message and has the reply to it in its buffer.
AnswerIsMine ==
    Calm => \A r \in Calls :
        pc[r] = "done" /\ result[r] = "ok" =>
            sent[r] = Own /\ buf[r] # Own /\ buf[r].to = r

\* As long as it is calm, msgarrvd writes through no NULL pointer and not beyond
\* a buffer, whatever comes on other topics.
WritesInside == Calm => rpc # "badwrite"

\* As long as it is calm, msgarrvd is about to write only to the buffer of the
\* call that has lockmsg and waits: not to one the user has got back, and not to
\* one whose message is still to be sent.
WritesToHolder ==
    Calm /\ rpc \in {"copying", "ending"} =>
        lock = dst /\ pc[dst] \in {"complete", "wait"} /\ sem = 0

\* An answer msgarrvd has put in the buffer makes its call succeed, unless the
\* call gives up first or the process is gone.
AnswerReturns ==
    \A r \in Calls :
        rpc = "post" /\ Calm /\ buf[r] = msg
            ~> (pc[r] = "done" /\ result[r] = "ok") \/ ~Calm \/ Crashed
===============================================================================
