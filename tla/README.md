# Verification of open_lib

open_lib is a collection of small C libraries for embedded Linux: a thread pool,
a shared linked list, a serial line with synchronous calls, MQTT with
synchronous calls, file transfer and device discovery on the local network, an
asynchronous log port with rotated files, DHCP
clients, and thin wrappers of system calls and of other
libraries. This directory holds TLA+ modules that model the parts of it that
have state and concurrency, the configurations with which TLC checks them, and
the theorems about them with proofs that TLAPS checks.

    tlc -config TaskCoreSettled.cfg MCTaskCore.tla      # one run
    tlapm TaskCoreProofs.tla                            # one set of proofs

Contents: 1 inventory, 2 modules and how they correspond to the code,
3 runs and bounds, 4 fairness, 5 proofs, 6 disagreements found, 7 what is left
out, 8 plan.

## 1. Inventory

Own code of the repository is about 6000 lines of C. The rest of the tree is
third-party (paho.mqtt.c, zip30, cJSON, mongoose, EasyLogger's demos) or build
material. The own components, with the most stateful first:

**task_core (`src/task_core/core`)**: thread pool.
State: per worker a status word (RUN, BUSY, PICK), the bound task and a
semaphore; a queue of tasks (a `dstruct/linkedlist`); `lock_threads`; the number
of workers. Operations: `start_task_core`, `stop_task_core`, `commit_task`
(queue or thread), and the loop `do_thread` of each worker with
`hand_queue_task` (worker 0) or `hand_other_task` (the others).
Interaction: any thread commits; caller and worker meet in the status word, the
bound task and the semaphore; the queue is shared through the list's lock.
Hard: the status word is changed by both sides, half of the time without the
lock; the queue worker drains without counting its wakeups; locks are asked for
twice and then given up; stop cancels threads anywhere. Correct when: no task
is lost, run twice or freed twice; queued tasks run in order, one at a time; a
picked worker is not picked again; no wakeup is lost; stop leaves no thread.

**dstruct/linkedlist (`src/dstruct/linkedlist`)**: doubly linked ring with a
lock. State: `next`, `pre`, `nodecount`, `lock_linked`. Operations:
`insert_lknode`, `insert_head`, `insert_tail`, `remove_lknode`,
`foreach_lklist`. Used by task_core. Hard: each call gives up after two
attempts at the lock; an index is compared with a counter that other threads
change. Correct when: the ring stays one ring with `nodecount` nodes; a node
has one owner; a call touches the node its index names; the lock is left.

**obj_serial/uart (`src/obj_serial/uart`)**: serial line.
State: `sync_buff`, `sync_buff_len`, `sync_flag`, `wait_code`, the semaphore
`wait_recv`, `lockmsg`, the reader's `rcvbuff`. Operations:
`send_byte_uart_wait` in any thread, the thread `wait_uart`, the callback of
`set_uart_ck`, start and stop. Hard: nothing but a flag ties an answer to a
call; caller and reader share unlocked fields; deadlines race answers; a message
ends where 10 ms pass without a byte, which may be in its middle. Correct
when: a call returns the reply to its own message, whole; no wakeup is left over;
nothing is written after the call gave up; every call returns.

**socket_obj/tcpIp/socket_file**: file transfer over TCP, frame by frame, each
acknowledged. State: the two ends' indices and positions, the bytes on their
way, the file written. Operations: `sock_send_file`, `sock_recv_file`; the
listener `waitTcpMsg` that hands a connection to a handler once. Hard: TCP does
not keep the boundaries of frames, nor of their headers; either end may close, or
be killed by SIGPIPE; a write may fail; the last frame. Correct when: what is
written is a beginning of the file; the ends agree on success; what is acknowledged
is written; neither waits for ever.

**mqtt (`src/mqtt/mqttPahocClient.c`)**: publish and wait for the reply on
another topic. State: `waitTopic`, `waitData`, `waitRetCode`, the semaphore,
`lockmsg`. Operations: `pushOneMessageWait`, `pushOneMessage`, `subscribeTopic`,
`unSubscribeTopic`, the library's callbacks `msgarrvd` and `connlost`. Hard: the
same race of deadline and answer as in uart, with subscribe and publish between;
messages of the user's own topics pass through the same callback. Correct when:
a call that succeeds has sent its message and has the reply to it; nobody's
buffer is written after its call has returned.

**easyLogger_obj/test/log, `elog_async.c`**: ring buffer between the threads that
log and an output thread. State: `log_buf` with `write_index`, `read_index`,
`buf_is_full`, `buf_is_empty`; the semaphore `output_notice`; `thread_running`;
the flags that enable output; `output_lock` of `elog.c`. Operations:
`elog_async_output` (put and notify), `async_output` (get and show), and
`elog_init`, `elog_start`, `elog_stop`, `elog_deinit`. Hard: full and empty are
flags beside two indices; a log is cut where the ring wraps; the thread drains
without counting notices and looks at `thread_running` only between two rounds.
Correct when: bytes come out once and in order, only what does not fit is
dropped, the thread never sleeps on bytes, and deinit returns.

**easyLogger_obj/test/log, `elog_file.c` and `elog_file_port.c`**: a log file that
is rotated through `xxx.log.0`, `xxx.log.1`, ..., by processes that exclude each
other with a System V semaphore. State: the semaphore (value, `sem_otime`), each
process's `semid` and `fp`, names and files. Operations: `elog_file_init`,
`elog_file_write` with `elog_file_rotate`, `elog_file_deinit`. Hard: processes are
killed anywhere and the kernel undoes what they did to the semaphore; one process
makes the semaphore while others look for it; a rotation is many calls, any of
which may be the last or fail; others have the file open. Correct when: one
process at a time is at the files; the last logs are kept, in order; files stay
short; nobody waits for ever.

**socket_obj/link, `net_dhcp.c`** with `exeShellWait` of `mixShell.c`: DHCP
clients. State: a table of two entries (flag DIRTY, interface, thread id, command
string). Operations: `start_dhcp` and `stop_dhcp`, called by one thread, and the
detached threads `run_dhcp`, each of which runs udhcpc as a child. Hard: the
thread clears the flag that its starter sets; it is detached, and then joined; it
shares its entry with whoever starts the next; every thread waits for any child of
the process; udhcpc with a lease goes to the background and serves on. Correct when:
one client per interface looks for a lease; dirty entries are those in use; stop
ends the client; every client ends.

**dev_scan (`src/dev_scan`) over socket_obj/tcpIp/multicast**: a device answers
multicast commands, some of which arm the TCP listener. At this commit `main` of
`scan_recv.c` starts the ARP listener and then sleeps for ever (lines 217-218): the
command thread and the listener, which would share the handler's pointer, are
never started, and the ARP handler keeps nothing. There is nothing to model.

**socket_obj/link, `net_netlink.c`**: a listener thread with a flag RUNNING that
it sets itself. Its stop passes the number of a socket to `pthread_cancel` and
`pthread_join`, which is undefined; not modelled. The other files of `link` are
system calls and text files.

**curl_obj, exeShell_obj, obj_cstring, crc, time, misc, rand_obj, fileOpt_obj,
obj_mmc, json_parse, openssl, mongoose_boj**: one call at a time, no state that
outlives it; wrappers or pure functions.

`PROJECT.json` lists every component with its status, and the hazards of each
at their lines.

## 2. Modules and code

A module holds one component; its constants are declared with their assumption,
and its actions carry the names of the steps of the code. `MCx` instantiates
`x` for TLC, `xProofs` holds its theorems. Definitions marked "mutant" are
plausible faults of the definition that follows them; nothing uses them but the
sensitivity checks listed in `PROJECT.json`.

| module | models | actions |
|---|---|---|
| `Executor` | what the pool promises | accept, drop, start, finish, close, abandon, discard |
| `TaskCore` | `task_core.c` | see below |
| `ListSpec` | what the list promises | insert, remove |
| `LinkedList` | `linkedlist.c` | see below |
| `UartSync` | `uart_moudle.c` and, external, the device | see below |
| `MqttSync` | `mqttPahocClient.c` and, external, the broker and the device | see below |
| `FileTransfer` | `socket_file.c`, both ends and, external, the connection | see below |
| `LogQueue` | what asynchronous output promises | accept, take, show |
| `ElogAsync` | `elog_async.c`, and from `elog.c` init, start, stop, deinit and the lock | see below |
| `ElogFile` | `elog_file.c`, `elog_file_port.c` and, external, the semaphore and the files | see below |
| `DhcpClients` | `net_dhcp.c`, `exeShellWait` and, external, udhcpc | see below |

**TaskCore.** `mpc` is the thread that starts and stops the pool, `wpc` and
`cpc` the places of workers and callers. Every read and every write of the
status word is a step of its own, since `|=` and `&=` are both: `seen` is the
word read and not yet written back (`Run`/`Unbusy`, `LockThreads`/`Unpick`,
`Wake`/`Busy`, `ScanHit`/`Pick`). Where a caller might write back the word the
scan read or read it again, both are allowed. `lock_threads` is `tlock`, the
list's lock `qlock`. The list itself is a sequence here: `LinkedList` shows that
its calls happen at once and in order. `Miss…` and `GiveUp` are the two attempts
at a lock. `Join` cancels a worker where POSIX lets it be cancelled
(`CancelPoints`) and joins it; `Clear` frees what is left. `runs`, `frees` and
`lost` are history. A step that dereferences a NULL body is `Crashed`, after
which nothing happens; `NeverCrashes` says it is never reached.

**LinkedList.** Cells point to cells through `next` and `pre`; the head is a
cell without an owner. A call is `Call…` (with the checks made before the
lock), `Lock…`, `Walk` once per turn of its loop, and `Link` or `Unlink`, which
makes the four (two) pointer writes in their order by `Splice` (`UnlinkAt`).
These are one step since every operation that follows a pointer holds the lock;
the index test of `insert_lknode`, the only access without it, is in
`CallInsert`, before the lock. `insert_head` is `insert_lknode` with index 0.

**UartSync.** `pc` is the place of each call in `send_byte_uart_wait`, `rpc`
that of `wait_uart`. Every access of `wait_uart` to `sync_buff`, `sync_flag` and
`wait_code` is a step; the Makefiles ask for no optimisation, so each use of
`sync_buff` reads it again (`Check`, `FetchToCopy`, `FetchToEnd`), and the write
through it (`Copy`, `Terminate`) comes after, to the buffer that was read (`dst`).
The assignments of `Arm` and `Reset` are one step each, for the reason the module
gives. A byte is represented by the request it answers, which is what the
properties tell apart. The device answers a request once, ignores it, or speaks
unasked, one message after the other, of the lengths in `Frames`; the bytes of a
message arrive in any parts (`Arrive`). When nothing has arrived within 10 ms
(`Silence`) what has been read goes out as a message, also when the rest is still
due: then `cut` is set, as by a read that fails in the middle of one.
The variable `calm` is chosen at the start. When it is TRUE the line is used the way
the code is made for: a call starts on a silent line, no answer is later than the
deadline, the device speaks unasked only between calls and does not pause inside a
message, and read fails only between messages. Otherwise all of this is dropped, for
the calls in `Hasty` and the messages `HastySent` and `HastyFrames` (bounds). What
is said of answers holds on a calm line, and on any line while it is `Undisturbed`:
no call has failed to write or timed out, nothing came unasked, and no message was
cut.

**MqttSync.** `pc` is the place of each call in `pushOneMessageWait` (or, by
`TakePush`, in `pushOneMessage`), `rpc` that of `msgarrvd`. `topic`, `data`,
`code` and `sem` are `waitTopic`, `waitData`, `waitRetCode` and `waitRspTopic`;
setting and resetting the first two are steps of their own, as is every use of
them in `msgarrvd`: the tests (`Arrive`, `Match`, `Check`, `Fits`), reading `waitData`
for memcpy and the write that follows (`FetchToCopy`, `Copy`), the same for the
terminating 0 (`FetchToEnd`, `Terminate`), and `waitRetCode` (`SetCode`). Between any two of them
the call may give up, return, and the next one arm; `dst` is the buffer that was read. The buffer of a call
holds its own message (`Own`) until a received one overwrites it, and `Publish`
sends what it holds by then. `createMqttclient` leaves `waitTopic` to malloc: it is
NULL or wild at first. The broker grants a subscription, with or without a
retained message, or refuses it with a code the call takes for success; the
device answers once; others publish on the topics; the connection may be lost.
There is no calm mode: the properties say themselves until when they hold
(`Calm`: no stray message on a reply topic, no wait given up).

**FileTransfer.** The stream holds headers, each of two elements (its head and its
tail), and bytes; a byte is its position in the file, or 0 for padding, so the model
can tell whether the file is right. `Recv` takes any part of what has arrived up to
the size of a frame, as TCP does. What `fframe` holds then is `Overwrite`: a chunk
that starts within a frame has bytes of the file for a header ("junk": its index is
any number, and its sizes are none the receiver expects); of a header that is cut it
has some new bytes, and otherwise those of the header before, which may make it pass
the tests again. With less than a header `datasize` wraps ("less"): the write fails,
puts other bytes into the file, or ends the process (`WrittenAs`, `ReceiverKilled`).
`filesize`, `framecount` and `laseframesize` travel together. A write may fail
unnoticed; a send to an end that is gone fails or raises SIGPIPE (`SendFails`,
`ReceiverKilled`, after which only a part of what was written is in the file); the
connection may break at any step. `trouble` is history: a recv
that was short, one that cut a header, a write that was lost.

**ElogAsync.** `cpc`, `tpc` and `mpc` are the places of the threads that log, of
`async_output`, and of the thread that starts and stops the logger. A byte is its
number in the order of acceptance. `elog_async_get_log` is one step (`TakeLog`,
`TakeNothing`) since all uses of the ring hold the lock; putting (`Put`), posting
(`Notify`) and unlocking are steps of their own. `elog_deinit` is called after
`elog_stop`, once no thread logs, and joins the thread; the lock is never
disabled, and `pthread_create` does not fail. Bytes put between the thread's last
look and deinit stay in the ring, which no init clears, until the next put after
the next init: `left` remembers them. `elog_cfg.h` leaves out `elog_buf.c` and
line mode. `LogQueue` is the bounded queue that `ElogAsync` implements.

**ElogFile.** A log is its number in the order of writing and has size 1. Name 0
is `xxx.log` and name n is `xxx.log.(n-1)`; a file is known by its number in the order
of creation, so a process keeps its `fp` (the file) whatever becomes of the name. Making the
semaphore (`Create`) and the first post (`Stamp`) are two steps, between which
others poll `sem_otime` (`Find`, `Poll`) and may give up (`PollGivesUp`), after
which every lock of theirs does nothing. A rotation is `Rotate`, then `Remove` and
`Rename` per name, then `Reopen`; `RenameFails` is the error path. `Crash` kills a
process anywhere outside "off"; SEM_UNDO gives back what it is inside of. fopen,
fwrite and the calls on the semaphore do not fail; remove and rename are one step
with the fopen that looks for the file before. `strayed` (xxx.log was renamed
while another process had it open) and `lockless` (a process went without the
semaphore) are history. `elog_port.c` calls `elog_file_write` for what `ElogAsync` shows; the two
modules are not composed, since the file's behaviour depends on nothing of the
ring but the order of logs.

**DhcpClients.** `mpc`, `i` and `index` are the calling thread and its loop over
the entries, one step per entry (`Look`, `PassOver`); `pc` the places of the
threads it started. DIRTY is the only bit of its flag, so setting and clearing are
plain writes. `Create` fills the entry and starts the thread, `Mark` sets DIRTY after it. Ids
of detached threads that have ended may be given again (`tid`), so `Cancel` hits
whoever has the id now. A cancelled thread ends where it waits or prints (`Die`).
A child `runs`, is a `zombie`, or is reaped: by its thread's pclose, or by any
thread's `Wait`. It ends (`ChildEnds`), or has a lease, ends in the foreground and
serves on in the background (`ChildServes`), where it is no child of the process any
more; `daemons` are the threads that have left one there. It ends some time
(`DaemonEnds`), not before its thread, which would be like `ChildEnds`.
popen and `pthread_create` do not fail. `asked` and `stopped` are history.

## 3. Runs and bounds

| run | config | shows |
|---|---|---|
| `taskcore` | `TaskCoreSettled.cfg` | with callers that commit once the workers have reached `sem_wait`: every body is in one place at most (`TaskHasOnePlace`), no bound task is overwritten (`PickIsExclusive`), no NULL body (`NeverCrashes`), no lost wakeup (`NoLostWakeup`), a clean stop (`StopIsClean`), and the pool implements `Executor` (`KeepsPromise`) |
| `taskcore_live` | `TaskCoreLive.cfg` | an accepted task runs (`AcceptedTaskRuns`); a worker can be picked again (`WorkersComeBack`) |
| `taskcore_cold` | `TaskCoreCold.cfg` | violation: a commit right after `start_task_core` (disagreement 1) |
| `list` | `LinkedList.cfg` | one ring (`IsRing`), one owner (`OneOwner`), `remove_lknode` takes the node asked for (`RemovesWhatWasAsked`), traversal in order (`VisitsInOrder`), and calls happen at once (`KeepsPromise`, against `ListSpec`) |
| `list_stale` | `LinkedListStale.cfg` | violation: stale index (disagreement 2) |
| `uart` | `Uart.cfg` | on a calm line, and on any line until it is disturbed: the answer is mine (`AnswerIsMine`), no wakeup is left over (`NoStaleWakeup`), copies stay inside the buffer of a call that waits (`WritesInside`); on every line calls return (`CallsReturn`); on a calm one answers make their call return (`AnswerReturns`) and messages that fit in `rcvbuff` let the reader go on (`KeepsListening`) |
| `mqtt` | `Mqtt.cfg` | until the first stray message on a reply topic or given up wait (`Calm`): writes of `msgarrvd` only go to the call that holds the lock and waits (`WritesToHolder`), copies stay inside its buffer (`WritesInside`), the answer is mine (`AnswerIsMine`) and makes its call succeed (`AnswerReturns`) |
| `file` | `FileTransfer.cfg` | unless a write fails, what is written is a beginning of what is sent, but for one last write of other bytes where a header was cut or nothing is sent, and all of it on success if every recv was whole (`ReceivedIsWhole`); what is acknowledged, but for the last frame, is written (`AcknowledgedIsWritten`); success is agreed (`BothSucceed`); both ends return (`BothReturn`) |
| `file_full` | `FileTransferFull.cfg` | violation: the last full frame (disagreement 3) |
| `elog` | `ElogAsync.cfg` | flags, indices and bytes agree (`InOrder`), the output thread does not sleep on bytes (`NothingIsStuck`), bytes come out (`LogsComeOut`), deinit returns (`DeinitReturns`), and the ring implements `LogQueue` (`KeepsPromise`) |
| `elogfile` | `ElogFile.cfg` | one process at a time at the files (`AloneInside`), the last logs in order (`InOrderUntilStrayed`) and enough of them (`KeepsEnough`), short files (`Bounded`), everyone gets the semaphore (`WritesEnd`), with a kill and a failing rename anywhere |
| `dhcp` | `Dhcp.cfg` | until a client is stopped, one udhcpc per interface, the one asked for, beside those in the background whose threads have ended (`OneSeeks`); every client ends (`ClientsEnd`) |

The passing runs range from 10^4 to 6 * 10^5 distinct states. Why the bounds are
enough for the cases that matter:

- *Pool:* three workers, so that besides the queue worker there are two to
  choose from and a scan passes a picked one; two callers, so that both locks
  are contended and both give up; two tasks of each kind, so that the order of
  the queue can be wrong, a worker is used twice, and a scan finds none idle.
  The liveness run has two workers and three tasks.
- *List:* three nodes and two threads: removing neighbours, the first, the last
  and the only node, and indices from -3 to 3, one more than a list of two has.
  Nodes and threads are symmetric (no property names one, none is liveness).
- *Serial line:* a receive buffer and callers' buffers of 3 bytes and messages of
  2, 3 and 4 bytes: shorter than the buffers, exactly as long (too long with the
  terminating 0), and longer than `rcvbuff`, which stops the reader. Three calls, so
  one may fail, one succeed and one follow; one unasked message. On a line that is
  not calm two calls (`Hasty`) and two messages of 2 bytes (`HastySent`,
  `HastyFrames`) are enough for trouble: each may be cut, and two do not fit into
  `rcvbuff`.
- *MQTT:* two calls on one topic, in either order, so that a message may reach the
  wrong one; messages of one byte and buffers of 2 and 1, so that one has room for
  the terminating 0 and the other has not; one message that answers no call, on
  the reply topic or on one the user has subscribed to.
- *Transfer:* sizes from 0 to 11 in frames of 3: up to four frames with every
  remainder, 0 and full last frames included; cuts anywhere in the stream; one byte
  of padding (4 where `long` has 64 bits, none where it has 32, as in
  `FileTransferFull.cfg`).
- *Asynchronous log:* a ring of 3 bytes and an output buffer of 2, so that they do not
  divide each other; logs of 1, 2 and 4 bytes: one that never fits, and those that
  fill it exactly or wrap. Six bytes go twice around; two lives of the logger, so that
  bytes are left over. Two threads that log.
- *Log file:* two processes; files of 2 logs (`MaxSize = 1`: a file is rotated when it
  is longer) and two older names; 7 logs, so that the first file is dropped
  and one more rotation follows; 3 logs once a file has strayed or a process goes
  without the semaphore, where little is claimed. One kill and one failure; in a
  behaviour with both `KeepsEnough` claims nothing, since two older names less one for
  each are none.
- *DHCP:* two interfaces and two entries (as in the code); three threads started and
  tries repeated in all (`MaxStarts`), so that entries and thread ids are used again; two
  once a client is stopped (`MaxStopped`).
- Deadlock is checked in every run that ends in a known final state (`Quiet`,
  `Returned`, `Off` stutter there) or in which somebody may always act.
  It is off only in `TaskCoreCold.cfg`, where the
  process may crash, after which nothing happens.

## 4. Fairness

- *Pool:* `WF` of the starting and stopping thread, each worker and each caller:
  the scheduler lets every thread run, and callbacks return. Locks are asked for
  with trylock, sleep, trylock (or lock); weak fairness is enough since an
  attempt that fails ends the call or waits for a lock that is always released.
  Nobody has to commit or to stop.
- *Serial line:* `WF` of each call (its deadline passes, it is woken, it returns)
  and of the reader; `SF` of `Read`, i.e. a read that is tried again and again
  does not fail every time; `WF` of `Arrive`: a message that was begun comes whole
  some time. The device has answered or ignored a request
  eventually (`WF` of `Ignore`), which says that the deadline passes: on a calm
  line a deadline waits for the answer. Nobody has to call or to speak.
- *MQTT:* `WF` of the callback's thread and of the calls: each wait of a call
  (subscription, completion, reply) has a deadline. The broker, the device and
  those who begin a call owe nothing.
- *Transfer:* `WF` of both ends: what is sent arrives, or the connection breaks
  and both ends learn of it. The code has no timeouts, so a cut that neither end
  learns of would block it for ever; that is excluded here.
- *Asynchronous log:* `WF` of the threads that are inside a call, of
  `async_output`, and of the rest of a deinit that was begun; `SF` of `GetLog`:
  a pthread mutex asked for again and again is got. Nobody has to log, start or
  stop.
- *Log file:* `WF` of each process inside a call, `SF` of entering: the kernel wakes
  those that wait for a System V semaphore in turn. Nobody has to log, and
  processes may be killed.
- *DHCP:* `WF` of each thread and of each udhcpc leaving the foreground: it is given a
  timeout, or gets a lease and goes to the background. Without a timeout and without a lease, the end of another
  interface's client is held up as well, by `exeShellWait`'s wait for any child.

## 5. Proofs

TLAPS proves, for every number of workers, callers, tasks, nodes and threads that
satisfies the modules' assumptions (`TaskCoreAssumption`,
`LinkedListAssumption`: the sets of names are disjoint, there is a worker). Every
safety property of a passing run has a theorem, and so has every refinement:

`TaskCoreProofs`

- `TypeCorrect`: `TypeOK`. Not inductive by itself: a task is dereferenced by
  the caller's place, so `TypeInv` adds `HandInv` (a caller in the middle of
  `commit_task` has a task) and `PickInv` (its index names a worker).
- `NoLostWakeupAlways`. A wakeup may be missing while the worker is awake, so the
  inductive statement `WakeInv` lists everything that may still drain the queue:
  a pending wakeup, the worker inside `hand_queue_task` or about to be, or a
  caller between insertion and post. When the worker gives up because the lock is
  taken, the lock's holder is such a caller: that is `QLockInv`. Holds without
  `Settled`: the queue is safe even in a pool that has just been started.
- `PickIsExclusiveAlways` and `NeverCrashesAlways`, with `Settled`. The invariant
  `RoundInv` says that every worker is in one of four phases, each relating its
  place, its status bits, the word it is about to write back, its task, its
  semaphore and the callers about to post it: `Idle`, `Bound`, `AtWork`, `Back`.
  `TLockInv` keeps two callers from choosing the same idle worker, `StartInv`
  says that no phase but `Idle` exists when the pool opens (this is where
  `Settled` enters, and what fails in `taskcore_cold`), `StopInv` that nobody is
  inside `commit_task` once it closes, and `ServeInv` carries the fact about a
  bound task through the stop. `RoundFrame` and `RoundStep` show once what a step
  of a caller or of one worker has to establish.
- `OnePlaceAlways`, with `Settled`. The property counts; its proof does not. `HomeInv`
  says of each task that it is in a single kind of place at most (`OneHome`: the
  hands of one caller, the queue, one worker, freed, or thrown away) and there only
  once (no task twice in the queue, none both read and bound elsewhere), and
  `KindInv` which tasks each place can hold (the body of worker 0 is the queue's own
  callback, not a task). One lemma per action (`...KeepsHome`) moves one task and
  `HomeFrame` leaves the others; `AtMostOne` turns the statement into the count.
- `StopIsCleanAlways`, with `Settled`, from `JoinInv`: the workers `pthread_join` has
  waited for have ended and have no task in hand, and in the end the queue is empty.
  A committed task is then in none of the places where a task can be but freed or
  thrown away.
- `KeepsPromiseAlways`, with `Settled`: `TaskCore` implements `Executor`. `StateOf`
  of a task is fixed by the place it is in (`PlaceTells`), and an action moves one
  task (`MoveOne`): `Link` and `Pick` are `Accept`, `GiveUp` is `Drop`, `CallQueued` is
  `StartQueued`, `CallOther` is `StartOnce`, the end of a callback is `Finish`, a `Join`
  that finds a task in a worker's hands is `Abandon`, `Clear` is `Discard`, and `Stop`
  or a start that fails is `Close`. The other actions move none (`StateFrame`,
  `QuietRefines`). It needs the invariants above together (`PoolInv`): a task in two
  places would have two states.

`LinkedListProofs`

- `AlwaysTyped`, `AlwaysARing`, `AlwaysOneOwner`, `AlwaysLeft`, `AlwaysInOrder`,
  `AlwaysRemovesWhatWasAsked` and `AlwaysInsertsWhereItFits` all follow from one invariant: `TypeInv` (types,
  the lock is held exactly by the thread inside, arguments agree with the call)
  and `RingInv`: there is one order of the nodes that the pointers match
  (`Matches`), in which every walking thread is where its walk says (`WalkInv`)
  and whose nodes are nobody's (`OwnInv`). `LinkKeepsRing` and `UnlinkKeepsRing`
  give the order after an insertion and a removal, `RemoveAt` that leaving out one
  place of an order keeps it an order. An insertion with a stale index still walks
  on the ring, so all of this holds in spite of disagreement 2.
  `AlwaysInsertsWhereItFits` says how far that one reaches: an insertion is where its index
  asks whenever the list is still that long at the lock.
- `AlwaysKeepsPromise`: `LinkedList` implements `ListSpec`. The list of the abstract
  specification is the order the pointers have, so there must be only one: two
  orders that the same pointers match would part at a first place, and `next` of the
  place before leads to one cell (`OneOrder`; the first place is the library's
  well-foundedness of the numbers, `Smallest`, and no induction rule is needed).
  `Link` is then Insert (`LinkIsInsert`), `Unlink` is Remove (`UnlinkIsRemove`), and
  every other step leaves both the order and the owners alone.

`ElogAsyncProofs`, for any sizes of ring, output buffer and logs and any number of
threads (`ElogAssumption`)

- `AlwaysTyped`, `AlwaysInOrder` and `NeverStuck` from one inductive invariant (`ThreadInv`,
  `FlagsInv`, `BytesInv`): the flags tell the two ways in which equal indices can be meant, the ring holds
  the numbers that come next, and a thread that has put but not yet notified, or
  a pending notice, stands for every byte the sleeping thread has not seen.
- `Implements`: `Spec => KeepsPromise`. Put is Accept, TakeLog is Take, Show is
  Show, and everything else a stutter of `LogQueue`.

`ElogFileProofs`, for any number of processes, names and logs, and of kills
(`ElogFileAssumption`)

- `AlwaysAlone`. `AloneInside` is not inductive: `CountInv` relates the
  semaphore's value to who is inside (at most 1, and 0 while somebody holds it), and
  `CreationInv` says that nobody uses it before it is stamped and that one process
  at most is between `Create` and `Stamp`.
  A crash of the process inside gives back 1, any other nothing.
- `AlwaysBounded` rests on it: `OneInside` says that as long as all keep to the
  semaphore there is one process inside, so a file found short is still
  short when it is written to and a name freed still free when it is opened
  (`SizeInv`), together with the types of names and files (`FileInv`).
- `AlwaysInOrder` and `AlwaysKeepsEnough`, until a process strays or goes without the
  semaphore. In `OrderInv`, `Chain(top)` cuts the logs at the numbers `top`: the file
  of name m holds those after `top[m + 1]` up to `top[m]` (`Slice`), and what is older
  than the last cut is lost (`Covers`). `Dense` counts: between the current file and
  an older log there are full files, but for one for each kill and each
  failed rename, and one more while files are moved (`Gaps`, `Moved`), which is what a
  kill in the middle of a rotation leaves behind. `PlaceInv` says that a file that
  is rotated is full and that a name is free before a file is moved to it.

`UartSyncProofs`, for any number of calls and any sizes (`UartAssumption`)

- `AlwaysWritesInside`, `NeverStale` and `AlwaysMine`, on a calm line or as long as
  it is undisturbed, in whatever parts messages arrive. `ArmInv` ties `sync_buff` and
  `sync_flag` to the holder of `lockmsg`; `SizeInv` says that what is copied fits. The
  rest (`TrustInv`) says what the reader, the line and the semaphore may hold in every
  state of the holder: nothing when the lock is free (`FreeInv`); only bytes that answer
  the holder, as many of them as its answer has in what was read, has arrived and is
  due together, and one wakeup at most, not before all were read (`HeldInv`); nothing of those that have
  returned (`PastInv`); and the whole answer in the buffer once a wakeup is pending with
  "ok" (`AnswerInv`). A pause inside a message breaks the count, which is where
  `Undisturbed` enters.

`MqttSyncProofs`, for any number of calls, topics and messages (`MqttAssumption`)

- `AlwaysMine`, `AlwaysWritesInside` and `AlwaysWritesToHolder`, until a message comes on
  an awaited topic that was not asked for, or a call gives up waiting (`Calm`). `HoldInv`:
  `waitData` is that of the lock's holder or NULL. As on the serial line the invariant
  then says what may be under way in every state of the holder: only answers to it, with
  `waitData` still its own from the test to the last use (`WayInv`, `SentInv`), none to a
  call that has returned (`PastInv`), and its answer, of the length that was noted, in
  the buffer once the semaphore is posted (`AnswerInv`, `ResultInv`). `MqttAssumption`
  says that what lies in a buffer before the answer is no message.

`DhcpClientsProofs`, for any number of interfaces, entries and starts
(`DhcpAssumption`): `TypeCorrect`, and `OneSeeksAlways` from `EntryInv` (of the living
threads no two share an entry or an interface, and the entry's fields are theirs),
`CallInv` (what the scan has passed is still so, since flags are only cleared
during it) and `ChildInv` (a child that runs is that of a thread that reads its output;
it and what serves in the background are at the interface that was asked for), all as
long as `stopped` is FALSE. Of two at one interface one thread has ended, and all it can
have left is in the background.

`FileTransferProofs`, for files, frames and padding of any size (`FileAssumption`)

- `AlwaysAgree`. `PosInv` ties the sender's position to its index (`FrameArithmetic`
  and `ReadMoves` show that the frames add up to the file), `SuccessInv` adds that
  whoever is told that the last frame is written is told so by a receiver that has
  returned 0, and that the sender ends well only when it was told so.
- `AlwaysWhole` and `AlwaysWritten`, for any padding. `ByteAt` says which byte of the
  stream is which of the file (`FilledIs`: the frames are its parts).
  The invariant `WholeInv` says, as long as no write has failed: what is written is
  a beginning of what is sent (`FileInv`); what the receiver is about to write goes on from
  there, or is of a header that was cut, or does not pass (`CheckInv`); and a recv finds
  nothing, the whole frame that comes next, or the rest of one of which a part, be it of
  the header, was taken before (`LineInv`), since the two ends count the same frames
  (`TurnInv`, `RspInv`). The sizes 0 and one frame, of which nothing is sent, are kept apart by `NothingInv`: the receiver compares headers that were
  never set and does not succeed. `AlwaysWritten` adds `CountInv`: the sender has been told
  of no more frames than the receiver has counted, all of which but the last are in
  the file (`Holds`), since after a short recv none is accepted any more.

`AlwaysTyped`, `TypeCorrect` and `AlwaysLeft` are types and lock discipline that the
runs do not repeat as properties.

Only model-checked: liveness, since the prover has no rule for `ENABLED` and so none for
fairness (`AcceptedTaskRuns`, `WorkersComeBack`, `AnswerReturns`, `CallsReturn`,
`KeepsListening`, `BothReturn`, `LogsComeOut`, `DeinitReturns`, `WritesEnd`,
`ClientsEnd`). What the runs that expect a violation refute is no theorem; of two
of them the theorems say when it does hold (`PickIsExclusiveAlways` with `Settled`,
`AlwaysInsertsWhereItFits`). No recursive operator is used.

## 6. Disagreements between code and text

Shown by a run that expects a violation:

1. `task_core.c:66`: `start_task_core` returns when the workers have set RUN, but
   each worker still has its PICK bit to clear before it sleeps. A caller that
   picks it in that window is undone, the worker is picked again, and the first
   task is overwritten. `task_core.h:48` promises that a picked worker is not
   chosen again. Until the code clears PICK before RUN, let the workers settle.
2. `linkedlist.c:43`: `insert_lknode` compares its index before it locks;
   `remove_lknode` does it after (line 111). After a removal in between the node
   goes elsewhere than `linkedlist.h:36` says. The ring is not damaged.
3. `socket_file.c:116`: a file whose size is a multiple of 1024 never has its last
   frame sent, and `sock_send_file` returns 0; `socket_file.c:119` and `:127` say
   the file has been sent. An empty file is a special case that sends nothing.

`BothSucceed` leaves out the sizes of 3 by name, so that it says something about the
others; of the sizes of which nothing is sent, `ReceivedIsWhole` allows one write of
bytes that are not of the file. It excludes a failed write (line 193), which is
acknowledged and leaves a gap, and for success also a recv that was short, after which
both ends may report success for a truncated file (line 158). `AcknowledgedIsWritten`
excludes the failed write, a receiver that is killed before stdio has written, and the
frame acknowledged last, of which a short recv may have left a part. `trouble` records
what has happened.

Stated in a module, not an invariant of it, and not among the runs. TLC refutes each
when it is given as the INVARIANT of the named configuration with the specification `Spec`:

4. `elog_file.c:104`, `OlderHasHigherNumber` (`ElogFile.cfg` with `MaxStrayed = 7`
   and no crash or failure): a rotation reopens the file of its own process only. Another process
   goes on with what is `xxx.log.0` by now, finds it too long (line 120) and rotates an
   `xxx.log` that is not full; the order of line 65 is lost, with every process
   holding the semaphore as it should.
5. `net_dhcp.c:100`, `DirtyIsServed` (`Dhcp.cfg`): DIRTY is set after `pthread_create`,
   so a client that has ended by then leaves its entry dirty for good ("back to clean",
   line 63), and its interface gets no other client.
6. `net_dhcp.c:126`, `StoppedHasEnded` (`Dhcp.cfg`): `stop_dhcp` "waits for the
   thread to end" (line 125), but the thread is detached (line 97), the join
   returns at once, and the old client goes on with an entry that may be given away. This is why
   `OneSeeks` speaks of the time before the first stop.
7. `net_dhcp.c:65`, `OneServes` (`Dhcp.cfg`): udhcpc with a lease goes to the background
   and its thread clears DIRTY, so the next start, which is to "look whether the dhcp of
   ifname has been started" (line 79), finds the interface free and runs a second
   udhcpc beside the first.
8. `uart_moudle.c:73`, `NeverStuck` (`Uart.cfg`): a message longer than `rcvbuff` stops
   `wait_uart` on a calm line too. `read` is asked for 0 bytes, and what it leaves keeps
   select ready, so the loop never ends; line 49 names the case.

Seen in the models, where the properties say until when they hold:

- `uart_moudle.c:86`: anything that arrives while a call waits is its reply, and
  `wait_recv` is not drained: after a timeout the late answer is the next call's.
  `uart_moudle.c:85` notes that a rule is needed. (`Undisturbed`.)
- `uart_moudle.c:65`: a pause of more than 10 ms inside a reply splits it (line 49 names
  this too). The first part is returned as the answer; the rest posts a second
  wakeup, and may be between the test and the copy when the woken caller resets
  `sync_buff`. (`Undisturbed`, `cut`.)
- `uart_moudle.c:101`: after a deadline the copy goes through NULL or into the buffer of
  the next call. (`Undisturbed`.)
- `mqttPahocClient.c`: the same for a late reply, at lines 43 and 44; also into a buffer
  whose call has returned, or whose message is still to be sent; a topic that is reset
  between the test and `memcmp`; a `waitTopic` that is not initialised. (`Calm`, `Init`,
  `Match`.)
- `socket_file.c:165`: with less than a header `datasize` is negative and taken as
  unsigned. (`Overwrite`, `WrittenAs`.)
- `socket_file.c:64`: where `long` has 64 bits the padding of `FILE_FRAME` is sent with
  each full frame, and written. (`Padding`, `AsSent`.)
- `elog_file_port.c:106-157`: a process that finds the semaphore made but not yet
  used for 100 ms goes without it from then on, since nobody reports the error.
  (`lockless`.)

Seen in the code only: `net_dhcp.c:95` tests `pthread_create` for a negative result, which it never
returns; `task_core.c:40` frees the argument of queued tasks,
which `task_core.h:10` leaves to the callback, and not of others.

## 7. What the models leave out

- Time: a deadline may pass whenever the model allows it; how
  `send_byte_uart_wait` computes it (microseconds for nanoseconds) is not modelled.
- Out of memory and NULL arguments, which end a call before it changes anything.
- Pool: a `sem_wait` that ends with EINTR (`task_core.c:70`, where no return value is
  looked at; without signal handlers, or with SA_RESTART, it does not); the callback's
  argument and who frees it; the return value of a dropped commit; what the C library does on a destroyed mutex (a lock call returns).
  `Stop` is called when no thread is inside `commit_task`.
- List: `free_linkedlist` and the unlocked macros, which only `stop_task_core`
  uses, after its threads are gone; foreach's callback as such.
- Serial line: `start_uart`, of which only what it leaves behind is modelled (`Init`): it
  creates the thread before the mutex and the semaphore (lines 141-152), but `calloc` has
  cleared `sync_flag`, so a message that comes in between goes to the callback, and
  callers get the entry when both are made. `stop_uart` and `set_uart`; errors and EINTR
  of select; a line that hangs up, whose reads of 0 bytes keep select ready; a NULL
  callback.
- MQTT: `destroyMqttclient`, the failing paths of `createMqttclient`, `setCallBack`
  while messages arrive, duplicates (there is no reconnection after which the
  broker would repeat one), and what a user does in its callbacks.
- Logs: filters, levels, colours and the text of a log; `elog_output_lock_enabled`;
  `elog_buf.c` and line mode, which `elog_cfg.h` leaves out; failing calls but
  rename; threads of one process that log into the file without the asynchronous output.
- DHCP: what udhcpc says and sets, and what else it does in the background; callers in
  several threads (the table has no lock); failing popen and pthread_create.
- Transfer: bytes of a file that imitate a header the receiver expects; a reply that
  arrives in parts; a file that grows or shrinks while it is sent; the progress
  callbacks; a silent cut.
- Components with status `not_modelled` in `PROJECT.json`, with their reasons:
  code that is never started (dev_scan), undefined use of threads (netlink), pure
  functions of one call, wrappers of system calls and libraries, examples, and
  third-party code, which is nine tenths of the tree.

## 8. Plan

Done: the pool and the list; the serial line, MQTT and file transfer; the
asynchronous log, the rotated log file and the DHCP clients; theorems about each.

Left, in this order:

1. An abstract "call and answer" specification that `UartSync` (calm) and `MqttSync`
   both implement.
2. Theorems: `SentIsWhole` for the sizes it holds for, `BothSucceed` with it; the
   serial line and MQTT implement the specification of 1.
3. Serial line: start and stop.
4. Pure algorithms: CRC, hexadecimal conversion, the reply buffer of HTTP, against
   reference definitions over bounded inputs.
5. dev_scan, should its threads be started again: the handler that was armed is the
   one that runs, composed with the outcome of `FileTransfer`.
