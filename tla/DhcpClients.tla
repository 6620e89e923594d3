------------------------------ MODULE DhcpClients -----------------------------
(***************************************************************************)
(* src/socket_obj/link/net_dhcp.c: start_dhcp and stop_dhcp, called by one *)
(* thread, the detached threads run_dhcp they start and cancel, and        *)
(* exeShellWait of src/exeShell_obj/mixShell.c, in which each of these     *)
(* runs udhcpc as a child of the process.                                  *)
(*                                                                         *)
(* DIRTY is the only bit of flag, so that setting and clearing it are      *)
(* plain writes.  A scan reads the flag of an entry up to twice; flags are *)
(* only cleared during a scan, so one read gives all the outcomes.  The id *)
(* of a detached thread may be given again to a later thread once it has   *)
(* ended.  popen and pthread_create do not fail.                           *)
(***************************************************************************)
EXTENDS Naturals

CONSTANTS
    Interfaces,
    None,
    Entries,    \* MAX_DHCP_COUNT
    MaxStarts,  \* a bound: threads started, and answers of NET_DHCP_AGAIN
    MaxStopped  \* a bound: the same, when a thread is stopped and after

ASSUME DhcpAssumption ==
    /\ None \notin Interfaces
    /\ Entries \in Nat \ {0}
    /\ MaxStarts \in Nat /\ MaxStopped \in 0 .. MaxStarts

VARIABLES
    mpc, arg,    \* where the calling thread is, and ifname
    i, index,    \* its loop over the entries, and the clean one it found, or 0
    dirty, name, \* DIRTY_FLAG and ifname of each entry
    cmd, pid,    \* the interface in its cmdstr, and its pid
    starts,      \* threads started
    pc,          \* where each of them is
    entry, tid,  \* the entry it works on, and its id
    child,       \* the state of its udhcpc
    iface,       \* and the interface that serves
    daemons,     \* threads whose udhcpc serves it in the background
    cancelled,   \* threads with a cancellation pending
    agains,
    asked,       \* history: the interface each was started for
    stopped      \* history: stop_dhcp has cancelled a thread

callVars == <<mpc, arg, i, index>>
entryVars == <<name, pid>>
threadVars == <<entry, tid, starts, asked>>
childVars == <<child, iface, daemons>>
vars == <<callVars, dirty, cmd, entryVars, threadVars, pc, childVars, cancelled, agains, stopped>>

Threads == 1 .. MaxStarts

Init ==
    /\ mpc = "idle" /\ arg = None /\ i = 0 /\ index = 0
    /\ dirty = [e \in 1 .. Entries |-> FALSE] /\ name = [e \in 1 .. Entries |-> None]
    /\ cmd = [e \in 1 .. Entries |-> None] /\ pid = [e \in 1 .. Entries |-> 0]
    /\ starts = 0 /\ pc = [c \in Threads |-> "none"]
    /\ entry = [c \in Threads |-> 0] /\ tid = [c \in Threads |-> 0]
    /\ child = [c \in Threads |-> "none"] /\ iface = [c \in Threads |-> None]
    /\ daemons = {}
    /\ cancelled = {} /\ agains = 0
    /\ asked = [c \in Threads |-> None] /\ stopped = FALSE

Lives(c) == pc[c] \notin {"none", "ended"}

-------------------------------------------------------------------------------
(* start_dhcp *)

Calls(from, to) == mpc = from /\ mpc' = to
Returns(from) == Calls(from, "idle") /\ arg' = None /\ i' = 0 /\ index' = 0
Serves(e) == dirty[e] /\ name[e] = arg

Start(f) ==
    /\ Calls("idle", "scan")
    /\ starts + agains < IF stopped THEN MaxStopped ELSE MaxStarts
    /\ arg' = f /\ i' = 1 /\ index' = 0
    /\ UNCHANGED <<dirty, cmd, entryVars, threadVars, pc, childVars, cancelled, agains, stopped>>

\* -NETERR_DHCP_HASTHREAD
HasThread ==
    /\ Returns("scan")
    /\ i <= Entries /\ Serves(i)
    /\ UNCHANGED <<dirty, cmd, entryVars, threadVars, pc, childVars, cancelled,
                   agains, stopped>>

Look ==
    /\ Calls("scan", "scan")
    /\ i <= Entries /\ ~Serves(i)
    /\ i' = i + 1
    /\ index' = IF index = 0 /\ ~dirty[i] THEN i ELSE index
    /\ UNCHANGED <<arg, dirty, cmd, entryVars, threadVars, pc, childVars, cancelled, agains,
                   stopped>>

\* -NETERR_FINDNO_ENTRY, of start_dhcp and of stop_dhcp
NoEntry ==
    /\ (Returns("scan") /\ index = 0) \/ Returns("find")
    /\ i > Entries
    /\ UNCHANGED <<dirty, cmd, entryVars, threadVars, pc, childVars, cancelled,
                   agains, stopped>>

\* The entry is filled, and run_dhcp created and detached.
CreateFrom(least) ==
    LET c == starts + 1
    IN  /\ Calls("scan", "mark")
        /\ i > least /\ index # 0
        /\ name' = [name EXCEPT ![index] = arg]
        /\ starts' = c
        /\ pc' = [pc EXCEPT ![c] = "begin"]
        /\ entry' = [entry EXCEPT ![c] = index]
        /\ asked' = [asked EXCEPT ![c] = arg]
        /\ \E t \in {c} \cup {tid[d] : d \in {d \in 1 .. starts : ~Lives(d)}} :
              /\ \A d \in 1 .. starts : tid[d] = t => ~Lives(d)
              /\ tid' = [tid EXCEPT ![c] = t]
              /\ pid' = [pid EXCEPT ![index] = t]
        /\ UNCHANGED <<arg, i, index, dirty, cmd, childVars, cancelled, agains, stopped>>

CreateAtFirst == CreateFrom(1)   \* mutant
Create == CreateFrom(Entries)

Mark ==
    /\ Returns("mark")
    /\ dirty' = [dirty EXCEPT ![index] = TRUE]
    /\ UNCHANGED <<cmd, entryVars, threadVars, pc, childVars, cancelled, agains,
                   stopped>>

-------------------------------------------------------------------------------
(* stop_dhcp *)

Stop(f) ==
    /\ Calls("idle", "find")
    /\ starts + agains <= MaxStopped \/ \A c \in Threads : ~Lives(c)
    /\ arg' = f /\ i' = 1
    /\ UNCHANGED <<index, dirty, cmd, entryVars, threadVars, pc, childVars, cancelled, agains,
                   stopped>>

PassOver ==
    /\ Calls("find", "find")
    /\ i <= Entries /\ ~Serves(i)
    /\ i' = i + 1
    /\ UNCHANGED <<arg, index, dirty, cmd, entryVars, threadVars, pc, childVars, cancelled,
                   agains, stopped>>

Found ==
    /\ Calls("find", "cancel")
    /\ i <= Entries /\ Serves(i)
    /\ UNCHANGED <<arg, i, index, dirty, cmd, entryVars, threadVars, pc, childVars, cancelled,
                   agains, stopped>>

\* pthread_cancel of whichever thread has the id now ...
Cancel ==
    /\ Calls("cancel", "unmark")
    /\ \E c \in Threads :
          /\ Lives(c) /\ tid[c] = pid[i]
          /\ cancelled' = cancelled \cup {c}
    /\ stopped' = TRUE
    /\ UNCHANGED <<arg, i, index, dirty, cmd, entryVars, threadVars, pc, childVars, agains>>

\* ... or of one that has ended: undefined, 0 or ESRCH with the C libraries
\* it is built for.
CancelEnded ==
    /\ (Calls("cancel", "unmark") /\ UNCHANGED <<arg, i, index>>) \/ Returns("cancel")
    /\ \A c \in Threads : Lives(c) => tid[c] # pid[i]
    /\ UNCHANGED <<dirty, cmd, entryVars, threadVars, pc, childVars, cancelled,
                   agains, stopped>>

\* pthread_join of a detached thread returns at once, with EINVAL.
Unmark ==
    /\ Returns("unmark")
    /\ dirty' = [dirty EXCEPT ![i] = FALSE]
    /\ UNCHANGED <<cmd, entryVars, threadVars, pc, childVars, cancelled, agains,
                   stopped>>

-------------------------------------------------------------------------------
(* run_dhcp *)

Goes(c, from, to) == pc[c] = from /\ pc' = [pc EXCEPT ![c] = to]

\* The command is put together, in the entry.
Begin(c) ==
    /\ Goes(c, "begin", "shell")
    /\ cmd' = [cmd EXCEPT ![entry[c]] = name[entry[c]]]
    /\ UNCHANGED <<callVars, dirty, entryVars, threadVars, childVars, cancelled, agains, stopped>>

\* exeShellWait: popen
Run(c) ==
    /\ Goes(c, "shell", "read")
    /\ child' = [child EXCEPT ![c] = "runs"]
    /\ iface' = [iface EXCEPT ![c] = cmd[entry[c]]]
    /\ UNCHANGED <<callVars, dirty, cmd, entryVars, threadVars, daemons, cancelled, agains,
                   stopped>>

\* All of its output is read, and pclose waits for the child, which may have
\* been reaped.  A cancellation may come after the last read.
Pclose(c) ==
    /\ Goes(c, "read", "wait")
    /\ child[c] # "runs"
    /\ child' = [child EXCEPT ![c] = "none"]
    /\ UNCHANGED <<callVars, dirty, cmd, entryVars, threadVars, iface, daemons, cancelled, agains,
                   stopped>>

\* wait: for any child of the process, as long as there is one.
WaitUnless(c, none) ==
    /\ Goes(c, "wait", "decide")
    /\ c \notin cancelled
    /\ \/ \E d \in Threads :
             child[d] = "zombie" /\ child' = [child EXCEPT ![d] = "none"]
       \/ none /\ UNCHANGED child
    /\ UNCHANGED <<callVars, dirty, cmd, entryVars, threadVars, iface, daemons, cancelled, agains,
                   stopped>>

NoChild == \A d \in Threads : child[d] = "none"

WaitForOne(c) == WaitUnless(c, FALSE)   \* mutant
Wait(c) == WaitUnless(c, NoChild)

\* udhcpc has said "No lease, failing", and the callback wants it again ...
Again(c) ==
    /\ Goes(c, "decide", "shell")
    /\ c \notin daemons
    /\ starts + agains < MaxStarts /\ agains' = agains + 1
    /\ UNCHANGED <<callVars, dirty, cmd, entryVars, threadVars, childVars, cancelled, stopped>>

\* ... or does not, or there was nothing of the kind.
Exit(c) ==
    /\ Goes(c, "decide", "clear")
    /\ UNCHANGED <<callVars, dirty, cmd, entryVars, threadVars, childVars, cancelled, agains,
                   stopped>>

Clear(c) ==
    /\ Goes(c, "clear", "ended")
    /\ dirty' = [dirty EXCEPT ![entry[c]] = FALSE]
    /\ UNCHANGED <<callVars, cmd, entryVars, threadVars, childVars, cancelled, agains, stopped>>

\* A cancelled thread ends where it waits or prints, and leaves its child and
\* its entry as they are.
Die(c) ==
    /\ pc[c] \in {"begin", "read", "wait", "decide"}
    /\ pc' = [pc EXCEPT ![c] = "ended"]
    /\ c \in cancelled
    /\ UNCHANGED <<callVars, dirty, cmd, entryVars, threadVars, childVars, cancelled, agains,
                   stopped>>

\* udhcpc ends, without a lease or because somebody ends it ...
ChildLeaves(c) ==
    /\ child[c] = "runs"
    /\ child' = [child EXCEPT ![c] = "zombie"]
    /\ UNCHANGED <<callVars, dirty, cmd, entryVars, threadVars, pc, iface, cancelled,
                   agains, stopped>>

ChildEnds(c) == ChildLeaves(c) /\ UNCHANGED daemons

\* ... or it has a lease, and as it is run without -q it only ends in the
\* foreground.  What goes on in the background, to renew the lease, is no child
\* of the process.
ChildServes(c) == ChildLeaves(c) /\ daemons' = daemons \cup {c}

\* It ends some time, but not before its thread: nothing else would be seen of it.
DaemonEnds(c) ==
    /\ c \in daemons /\ ~Lives(c)
    /\ daemons' = daemons \ {c}
    /\ UNCHANGED <<callVars, dirty, cmd, entryVars, threadVars, pc, child, iface, cancelled,
                   agains, stopped>>

UdhcpcStep(c) == ChildEnds(c) \/ ChildServes(c) \/ DaemonEnds(c)

-------------------------------------------------------------------------------
CallStep ==
    \/ HasThread \/ Look \/ NoEntry \/ Create \/ Mark
    \/ PassOver \/ Found \/ Cancel \/ CancelEnded \/ Unmark

ThreadStep(c) ==
    \/ Begin(c) \/ Run(c) \/ Pclose(c) \/ Wait(c)
    \/ Again(c) \/ Exit(c) \/ Clear(c) \/ Die(c)

Next ==
    \/ \E f \in Interfaces : Start(f) \/ Stop(f)
    \/ CallStep
    \/ \E c \in Threads : ThreadStep(c) \/ UdhcpcStep(c)

\* Threads keep running, and each udhcpc leaves the foreground: it was given a
\* timeout, or it gets a lease.  Nobody has to start or to stop.
Fairness == \A c \in Threads : WF_vars(ThreadStep(c)) /\ WF_vars(ChildEnds(c) \/ ChildServes(c))

Spec == Init /\ [][Next]_vars
FairSpec == Spec /\ Fairness

-------------------------------------------------------------------------------
(* Properties *)

TypeOK ==
    /\ mpc \in {"idle", "scan", "mark", "find", "cancel", "unmark"}
    /\ arg \in Interfaces \cup {None} /\ i \in 0 .. Entries + 1 /\ index \in 0 .. Entries
    /\ dirty \in [1 .. Entries -> BOOLEAN]
    /\ name \in [1 .. Entries -> Interfaces \cup {None}]
    /\ cmd \in [1 .. Entries -> Interfaces \cup {None}]
    /\ pid \in [1 .. Entries -> 0 .. MaxStarts]
    /\ starts \in 0 .. MaxStarts
    /\ pc \in [Threads -> {"none", "begin", "shell", "read", "wait", "decide", "clear", "ended"}]
    /\ entry \in [Threads -> 0 .. Entries] /\ tid \in [Threads -> 0 .. MaxStarts]
    /\ child \in [Threads -> {"none", "runs", "zombie"}]
    /\ iface \in [Threads -> Interfaces \cup {None}]
    /\ daemons \subseteq Threads
    /\ cancelled \subseteq Threads /\ agains \in 0 .. MaxStarts
    /\ asked \in [Threads -> Interfaces \cup {None}] /\ stopped \in BOOLEAN

\* The udhcpc that c runs, or has left in the background, is at its interface.
Uses(c) == child[c] = "runs" \/ c \in daemons

\* net_errno.h: "a DHCP thread has been made for this interface".  As long as
\* none was stopped, an interface has one udhcpc that looks for a lease, or
\* whose thread has not ended: of two, one serves in the background, for a
\* thread that has ended.  Each is at the interface its thread was started for.
OneSeeks ==
    stopped \/ \A c, d \in Threads :
        /\ Uses(c) => iface[c] = asked[c]
        /\ Uses(c) /\ Uses(d) /\ iface[c] = iface[d] /\ c # d =>
              \E b \in {c, d} : child[b] # "runs" /\ ~Lives(b)

\* A thread comes to an end, although it waits for the children of others,
\* which others may have waited for.
ClientsEnd == \A c \in Threads : pc[c] = "begin" ~> pc[c] = "ended"

-------------------------------------------------------------------------------
(* What the comments say and the code does not keep: invariants of neither *)

\* net_dhcp.c: "look whether the dhcp of ifname has been started".  As long as
\* none was stopped, no interface has two udhcpc.
OneServes ==
    stopped \/ \A c, d \in Threads : Uses(c) /\ Uses(d) /\ iface[c] = iface[d] => c = d

\* net_dhcp.c: "back to clean".  Between two calls a dirty entry is that of a
\* thread that runs, as long as none was stopped.
DirtyIsServed ==
    mpc = "idle" /\ ~stopped =>
        \A e \in 1 .. Entries : dirty[e] => \E c \in Threads : Lives(c) /\ entry[c] = e

\* net_dhcp.c: "wait for the thread to end".  When stop_dhcp returns, the
\* thread it has cancelled runs no more.
StoppedHasEnded == mpc = "idle" => \A c \in cancelled : ~Lives(c)
===============================================================================
