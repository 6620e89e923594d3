--------------------------- MODULE DhcpClientsProofs --------------------------
(***************************************************************************)
(* OneSeeks, for any number of interfaces, entries and threads.  As long   *)
(* as no thread was stopped, a live thread has an entry for itself, which  *)
(* is dirty or about to be marked: that is what keeps start_dhcp from      *)
(* giving the entry away or running udhcpc twice before one has a lease.   *)
(***************************************************************************)
EXTENDS DhcpClients, TLAPS

USE DhcpAssumption

\* Types, and where the calling thread is in its loops.
TypeInv ==
    /\ TypeOK
    /\ mpc = "scan" => starts < MaxStarts /\ i >= 1 /\ arg \in Interfaces /\ index < i
    /\ mpc = "mark" => index >= 1
    /\ mpc \in {"find", "cancel", "unmark"} => i >= 1
    /\ mpc \in {"cancel", "unmark"} => i <= Entries
    /\ \A c \in Threads : entry[c] = 0 <=> pc[c] = "none"
    /\ \A c \in Threads : pc[c] = "none" <=> c > starts
    /\ cancelled # {} => stopped

\* A live thread is the only one at its entry, and of its interface.
EntryInv ==
    /\ \A c \in Threads : Lives(c) =>
          /\ name[entry[c]] = asked[c] /\ pid[entry[c]] = tid[c]
          /\ dirty[entry[c]] \/ (mpc = "mark" /\ index = entry[c])
    /\ \A c, d \in Threads :
          Lives(c) /\ Lives(d) /\ (entry[c] = entry[d] \/ asked[c] = asked[d]) => c = d

\* What the calling thread has found out holds until it acts on it.
CallInv ==
    /\ mpc = "scan" =>
          /\ \A e \in 1 .. Entries : e < i /\ dirty[e] => name[e] # arg
          /\ index # 0 => ~dirty[index]
    /\ mpc = "unmark" => \A c \in Threads : Lives(c) => entry[c] # i

\* udhcpc is in the foreground while its thread reads, and serves the interface
\* asked for there and in the background.
ChildInv ==
    \A c \in Threads :
        /\ pc[c] \notin {"none", "begin", "ended"} => cmd[entry[c]] = asked[c]
        /\ child[c] = "runs" => pc[c] = "read" /\ iface[c] = asked[c]
        /\ c \in daemons => pc[c] \notin {"none", "begin", "shell"} /\ iface[c] = asked[c]

Inv == TypeInv /\ (~stopped => EntryInv /\ CallInv /\ ChildInv)

-------------------------------------------------------------------------------
LEMMA InitInv == Init => Inv
  <1> SUFFICES ASSUME Init PROVE Inv
    OBVIOUS
  <1> USE DEF Init, Lives
  <1>1. agains \in 0 .. MaxStarts /\ starts \in 0 .. MaxStarts /\ i \in 0 .. Entries + 1
    BY SMT
  <1>2. /\ asked \in [Threads -> Interfaces \cup {None}]
        /\ cancelled \subseteq Threads /\ daemons \subseteq Threads
    BY Zenon
  <1>3. /\ dirty \in [1 .. Entries -> BOOLEAN] /\ stopped \in BOOLEAN
        /\ name \in [1 .. Entries -> Interfaces \cup {None}]
        /\ cmd \in [1 .. Entries -> Interfaces \cup {None}]
    BY Zenon
  <1>4. /\ pid \in [1 .. Entries -> 0 .. MaxStarts]
        /\ entry \in [Threads -> 0 .. Entries] /\ tid \in [Threads -> 0 .. MaxStarts]
    BY SMT
  <1>5. /\ pc \in [Threads -> {"none", "begin", "shell", "read", "wait", "decide", "clear", "ended"}]
        /\ child \in [Threads -> {"none", "runs", "zombie"}]
        /\ iface \in [Threads -> Interfaces \cup {None}]
    BY Zenon
  <1>6. index \in 0 .. Entries /\ arg = None /\ mpc = "idle"
    BY SMT
  <1>7. TypeOK
    BY <1>1, <1>2, <1>3, <1>4, <1>5, <1>6, Zenon DEF TypeOK
  <1>8. TypeInv
    BY <1>7, SMT DEF TypeInv, Threads
  <1>9. EntryInv /\ CallInv /\ ChildInv
    BY SMT DEF EntryInv, CallInv, ChildInv, Threads
  <1> QED BY <1>8, <1>9 DEF Inv

\* Each part, kept by the steps of the calling thread and by those of the others.
LEMMA CallTypes ==
  ASSUME TypeInv, (\E f \in Interfaces : Start(f) \/ Stop(f)) \/ CallStep
  PROVE  TypeInv'
  <1> USE DEF TypeInv, TypeOK, Lives, Calls, Returns, Serves, entryVars, threadVars,
              childVars
  <1>1. CASE \E f \in Interfaces : Start(f)
    BY <1>1, SMTT(30) DEF Start
  <1>2. CASE \E f \in Interfaces : Stop(f)
    BY <1>2, SMTT(30) DEF Stop
  <1>3. CASE HasThread
    BY <1>3, SMTT(30) DEF HasThread
  <1>4. CASE Look
    BY <1>4, SMTT(30) DEF Look
  <1>5. CASE NoEntry
    BY <1>5, SMTT(30) DEF NoEntry
  <1>6. CASE PassOver
    BY <1>6, SMTT(30) DEF PassOver
  <1>7. CASE Found
    BY <1>7, SMTT(30) DEF Found
  <1>8. CASE Cancel
    BY <1>8, SMTT(30) DEF Cancel
  <1>9. CASE CancelEnded
    BY <1>9, SMTT(30) DEF CancelEnded
  <1>10. CASE Create
    BY <1>10, SMTT(30) DEF Create, CreateFrom, Threads
  <1>11. CASE Mark
    BY <1>11, SMTT(30) DEF Mark
  <1>12. CASE Unmark
    BY <1>12, SMTT(30) DEF Unmark
  <1> QED BY <1>1, <1>2, <1>3, <1>4, <1>5, <1>6, <1>7, <1>8, <1>9, <1>10, <1>11, <1>12 DEF CallStep

\* wait only takes a child off.
LEMMA Reaped ==
  ASSUME NEW d \in Threads, NEW f \in [Threads -> {"none", "runs", "zombie"}]
  PROVE  [f EXCEPT ![d] = "none"] \in [Threads -> {"none", "runs", "zombie"}]
  OBVIOUS

LEMMA ThreadTypes ==
  ASSUME TypeInv, NEW c \in Threads, ThreadStep(c) \/ UdhcpcStep(c)
  PROVE  TypeInv'
  <1> USE DEF TypeInv, TypeOK, Lives, Goes, callVars, entryVars, threadVars, childVars
  <1>1. CASE Begin(c)
    BY <1>1, SMTT(30) DEF Begin
  <1>2. CASE Run(c)
    BY <1>2, SMTT(30) DEF Run
  <1>3. CASE Pclose(c)
    BY <1>3, SMTT(30) DEF Pclose
  <1>4. CASE Wait(c)
    <2>1. /\ child' = child \/ \E d \in Threads : child' = [child EXCEPT ![d] = "none"]
          /\ pc' = [pc EXCEPT ![c] = "decide"] /\ pc[c] = "wait"
          /\ UNCHANGED <<callVars, dirty, cmd, entryVars, threadVars, iface, daemons, cancelled,
                         agains, stopped>>
      BY <1>4, Zenon DEF Wait, WaitUnless
    <2>2. child' \in [Threads -> {"none", "runs", "zombie"}]
      <3>1. child \in [Threads -> {"none", "runs", "zombie"}]
        OBVIOUS
      <3> QED BY <2>1, <3>1, Reaped, Zenon
    <2>3. UNCHANGED <<mpc, arg, i, index, dirty, name, pid, cmd, entry, tid, starts, asked, iface,
                      daemons, cancelled, agains, stopped>>
      BY <2>1
    <2> HIDE DEF TypeInv, TypeOK
    <2>4. TypeOK'
      <3>1. pc' \in [Threads -> {"none", "begin", "shell", "read", "wait", "decide", "clear",
                                 "ended"}]
        BY <2>1, SMT DEF TypeInv, TypeOK
      <3> QED BY <3>1, <2>2, <2>3 DEF TypeInv, TypeOK
    <2>5. pc'[c] = "decide" /\ \A d \in Threads : d # c => pc'[d] = pc[d]
      BY <2>1, SMT DEF TypeInv, TypeOK
    <2> QED BY <2>1, <2>3, <2>4, <2>5, SMTT(30) DEF TypeInv
  <1>5. CASE Again(c)
    BY <1>5, SMTT(30) DEF Again
  <1>6. CASE Exit(c)
    BY <1>6, SMTT(30) DEF Exit
  <1>7. CASE Clear(c)
    BY <1>7, SMTT(30) DEF Clear
  <1>8. CASE Die(c)
    BY <1>8, SMTT(30) DEF Die
  <1>9. CASE ChildEnds(c)
    BY <1>9, SMTT(30) DEF ChildEnds, ChildLeaves
  <1>10. CASE ChildServes(c)
    BY <1>10, SMTT(30) DEF ChildServes, ChildLeaves
  <1>11. CASE DaemonEnds(c)
    BY <1>11, SMTT(30) DEF DaemonEnds
  <1> QED BY <1>1, <1>2, <1>3, <1>4, <1>5, <1>6, <1>7, <1>8, <1>9, <1>10, <1>11
         DEF ThreadStep, UdhcpcStep

LEMMA CallEntry ==
  ASSUME TypeInv, EntryInv, CallInv, ChildInv, ~stopped',
         (\E f \in Interfaces : Start(f) \/ Stop(f)) \/ CallStep
  PROVE  EntryInv'
  <1> USE DEF EntryInv, CallInv, TypeInv, TypeOK, Lives, Calls, Returns, Serves, entryVars, threadVars,
              childVars
  <1>1. CASE \E f \in Interfaces : Start(f)
    BY <1>1, SMTT(30) DEF Start
  <1>2. CASE \E f \in Interfaces : Stop(f)
    BY <1>2, SMTT(30) DEF Stop
  <1>3. CASE HasThread
    BY <1>3, SMTT(30) DEF HasThread
  <1>4. CASE Look
    BY <1>4, SMTT(30) DEF Look
  <1>5. CASE NoEntry
    BY <1>5, SMTT(30) DEF NoEntry
  <1>6. CASE PassOver
    BY <1>6, SMTT(30) DEF PassOver
  <1>7. CASE Found
    BY <1>7, SMTT(30) DEF Found
  <1>8. CASE Cancel
    BY <1>8, SMTT(30) DEF Cancel
  <1>9. CASE CancelEnded
    BY <1>9, SMTT(30) DEF CancelEnded
  <1>10. CASE Create
    <2> DEFINE c == starts + 1
    <2>1. /\ c \in Threads /\ index \in 1 .. Entries /\ pc[c] = "none"
          /\ mpc = "scan" /\ mpc' = "mark" /\ index' = index /\ dirty' = dirty /\ ~dirty[index]
      BY <1>10, SMT DEF Create, CreateFrom, Threads
    <2>2. /\ name' = [name EXCEPT ![index] = arg] /\ asked' = [asked EXCEPT ![c] = arg]
          /\ pc' = [pc EXCEPT ![c] = "begin"] /\ entry' = [entry EXCEPT ![c] = index]
      BY <1>10 DEF Create, CreateFrom
    <2>3. PICK t : tid' = [tid EXCEPT ![c] = t] /\ pid' = [pid EXCEPT ![index] = t]
      BY <1>10 DEF Create, CreateFrom
    <2>4. ASSUME NEW d \in Threads, d # c, Lives(d)
          PROVE  entry[d] \in 1 .. Entries /\ dirty[entry[d]] /\ entry[d] # index /\ asked[d] # arg
      <3>1. entry[d] \in 1 .. Entries
        BY <2>4, SMT
      <3>2. dirty[entry[d]] /\ asked[d] = name[entry[d]]
        BY <2>1, <2>4
      <3>3. name[entry[d]] # arg
        BY <1>10, <3>1, <3>2, <2>1, SMT DEF Create, CreateFrom
      <3> QED BY <3>1, <3>2, <3>3, <2>1
    <2> HIDE DEF c
    <2>5. ASSUME NEW d \in Threads, Lives(d)'
          PROVE  /\ name'[entry'[d]] = asked'[d] /\ pid'[entry'[d]] = tid'[d]
                 /\ dirty'[entry'[d]] \/ index' = entry'[d]
      BY <2>1, <2>2, <2>3, <2>4, <2>5, SMT
    <2>6. ASSUME NEW d \in Threads, NEW e \in Threads, Lives(d)', Lives(e)',
                 entry'[d] = entry'[e] \/ asked'[d] = asked'[e]
          PROVE  d = e
      BY <2>1, <2>2, <2>4, <2>6, SMT
    <2> QED BY <2>1, <2>5, <2>6
  <1>11. CASE Mark
    BY <1>11, SMTT(30) DEF Mark
  <1>12. CASE Unmark
    BY <1>12, SMTT(30) DEF Unmark
  <1> QED BY <1>1, <1>2, <1>3, <1>4, <1>5, <1>6, <1>7, <1>8, <1>9, <1>10, <1>11, <1>12 DEF CallStep

LEMMA ThreadEntry ==
  ASSUME TypeInv, EntryInv, CallInv, ChildInv, ~stopped',
         NEW c \in Threads, ThreadStep(c) \/ UdhcpcStep(c)
  PROVE  EntryInv'
  <1> USE DEF EntryInv, CallInv, TypeInv, TypeOK, Lives, Goes, callVars, entryVars, threadVars, childVars
  <1>1. CASE Begin(c)
    BY <1>1, SMTT(30) DEF Begin
  <1>2. CASE Run(c)
    BY <1>2, SMTT(30) DEF Run
  <1>3. CASE Pclose(c)
    BY <1>3, SMTT(30) DEF Pclose
  <1>4. CASE Wait(c)
    BY <1>4, SMTT(30) DEF Wait, WaitUnless
  <1>5. CASE Again(c)
    BY <1>5, SMTT(30) DEF Again
  <1>6. CASE Exit(c)
    BY <1>6, SMTT(30) DEF Exit
  <1>7. CASE Clear(c)
    BY <1>7, SMTT(30) DEF Clear
  <1>8. CASE Die(c)
    BY <1>8, SMTT(30) DEF Die
  <1>9. CASE ChildEnds(c)
    BY <1>9, SMTT(30) DEF ChildEnds, ChildLeaves
  <1>10. CASE ChildServes(c)
    BY <1>10, SMTT(30) DEF ChildServes, ChildLeaves
  <1>11. CASE DaemonEnds(c)
    BY <1>11, SMTT(30) DEF DaemonEnds
  <1> QED BY <1>1, <1>2, <1>3, <1>4, <1>5, <1>6, <1>7, <1>8, <1>9, <1>10, <1>11
         DEF ThreadStep, UdhcpcStep

LEMMA CallCall ==
  ASSUME TypeInv, EntryInv, CallInv, ChildInv, ~stopped',
         (\E f \in Interfaces : Start(f) \/ Stop(f)) \/ CallStep
  PROVE  CallInv'
  <1> USE DEF CallInv, EntryInv, TypeInv, TypeOK, Lives, Calls, Returns, Serves, entryVars, threadVars,
              childVars
  <1>1. CASE \E f \in Interfaces : Start(f)
    BY <1>1, SMTT(30) DEF Start
  <1>2. CASE \E f \in Interfaces : Stop(f)
    BY <1>2, SMTT(30) DEF Stop
  <1>3. CASE HasThread
    BY <1>3, SMTT(30) DEF HasThread
  <1>4. CASE Look
    BY <1>4, SMTT(30) DEF Look
  <1>5. CASE NoEntry
    BY <1>5, SMTT(30) DEF NoEntry
  <1>6. CASE PassOver
    BY <1>6, SMTT(30) DEF PassOver
  <1>7. CASE Found
    BY <1>7, SMTT(30) DEF Found
  <1>8. CASE Cancel
    BY <1>8, SMTT(30) DEF Cancel
  <1>9. CASE CancelEnded
    BY <1>9, SMTT(30) DEF CancelEnded
  <1>10. CASE Create
    BY <1>10, SMTT(30) DEF Create, CreateFrom, Threads
  <1>11. CASE Mark
    BY <1>11, SMTT(30) DEF Mark
  <1>12. CASE Unmark
    BY <1>12, SMTT(30) DEF Unmark
  <1> QED BY <1>1, <1>2, <1>3, <1>4, <1>5, <1>6, <1>7, <1>8, <1>9, <1>10, <1>11, <1>12 DEF CallStep

LEMMA ThreadCall ==
  ASSUME TypeInv, EntryInv, CallInv, ChildInv, ~stopped',
         NEW c \in Threads, ThreadStep(c) \/ UdhcpcStep(c)
  PROVE  CallInv'
  <1> USE DEF CallInv, EntryInv, TypeInv, TypeOK, Lives, Goes, callVars, entryVars, threadVars, childVars
  <1>1. CASE Begin(c)
    BY <1>1, SMTT(30) DEF Begin
  <1>2. CASE Run(c)
    BY <1>2, SMTT(30) DEF Run
  <1>3. CASE Pclose(c)
    BY <1>3, SMTT(30) DEF Pclose
  <1>4. CASE Wait(c)
    BY <1>4, SMTT(30) DEF Wait, WaitUnless
  <1>5. CASE Again(c)
    BY <1>5, SMTT(30) DEF Again
  <1>6. CASE Exit(c)
    BY <1>6, SMTT(30) DEF Exit
  <1>7. CASE Clear(c)
    BY <1>7, SMTT(30) DEF Clear
  <1>8. CASE Die(c)
    BY <1>8, SMTT(30) DEF Die
  <1>9. CASE ChildEnds(c)
    BY <1>9, SMTT(30) DEF ChildEnds, ChildLeaves
  <1>10. CASE ChildServes(c)
    BY <1>10, SMTT(30) DEF ChildServes, ChildLeaves
  <1>11. CASE DaemonEnds(c)
    BY <1>11, SMTT(30) DEF DaemonEnds
  <1> QED BY <1>1, <1>2, <1>3, <1>4, <1>5, <1>6, <1>7, <1>8, <1>9, <1>10, <1>11
         DEF ThreadStep, UdhcpcStep

LEMMA CallChild ==
  ASSUME TypeInv, EntryInv, CallInv, ChildInv, ~stopped',
         (\E f \in Interfaces : Start(f) \/ Stop(f)) \/ CallStep
  PROVE  ChildInv'
  <1> USE DEF ChildInv, EntryInv, TypeInv, TypeOK, Lives, Calls, Returns, Serves, entryVars, threadVars,
              childVars
  <1>1. CASE \E f \in Interfaces : Start(f)
    BY <1>1, SMTT(30) DEF Start
  <1>2. CASE \E f \in Interfaces : Stop(f)
    BY <1>2, SMTT(30) DEF Stop
  <1>3. CASE HasThread
    BY <1>3, SMTT(30) DEF HasThread
  <1>4. CASE Look
    BY <1>4, SMTT(30) DEF Look
  <1>5. CASE NoEntry
    BY <1>5, SMTT(30) DEF NoEntry
  <1>6. CASE PassOver
    BY <1>6, SMTT(30) DEF PassOver
  <1>7. CASE Found
    BY <1>7, SMTT(30) DEF Found
  <1>8. CASE Cancel
    BY <1>8, SMTT(30) DEF Cancel
  <1>9. CASE CancelEnded
    BY <1>9, SMTT(30) DEF CancelEnded
  <1>10. CASE Create
    BY <1>10, SMTT(30) DEF Create, CreateFrom, Threads
  <1>11. CASE Mark
    BY <1>11, SMTT(30) DEF Mark
  <1>12. CASE Unmark
    BY <1>12, SMTT(30) DEF Unmark
  <1> QED BY <1>1, <1>2, <1>3, <1>4, <1>5, <1>6, <1>7, <1>8, <1>9, <1>10, <1>11, <1>12 DEF CallStep

LEMMA ThreadChild ==
  ASSUME TypeInv, EntryInv, CallInv, ChildInv, ~stopped',
         NEW c \in Threads, ThreadStep(c) \/ UdhcpcStep(c)
  PROVE  ChildInv'
  <1> USE DEF ChildInv, EntryInv, TypeInv, TypeOK, Lives, Goes, callVars, entryVars, threadVars, childVars
  <1>1. CASE Begin(c)
    BY <1>1, SMTT(30) DEF Begin
  <1>2. CASE Run(c)
    BY <1>2, SMTT(30) DEF Run
  <1>3. CASE Pclose(c)
    BY <1>3, SMTT(30) DEF Pclose
  <1>4. CASE Wait(c)
    BY <1>4, SMTT(30) DEF Wait, WaitUnless
  <1>5. CASE Again(c)
    BY <1>5, SMTT(30) DEF Again
  <1>6. CASE Exit(c)
    BY <1>6, SMTT(30) DEF Exit
  <1>7. CASE Clear(c)
    BY <1>7, SMTT(30) DEF Clear
  <1>8. CASE Die(c)
    BY <1>8, SMTT(30) DEF Die
  <1>9. CASE ChildEnds(c)
    BY <1>9, SMTT(30) DEF ChildEnds, ChildLeaves
  <1>10. CASE ChildServes(c)
    BY <1>10, SMTT(30) DEF ChildServes, ChildLeaves
  <1>11. CASE DaemonEnds(c)
    BY <1>11, SMTT(30) DEF DaemonEnds
  <1> QED BY <1>1, <1>2, <1>3, <1>4, <1>5, <1>6, <1>7, <1>8, <1>9, <1>10, <1>11
         DEF ThreadStep, UdhcpcStep

LEMMA StutterKeeps == ASSUME Inv, UNCHANGED vars PROVE Inv'
  BY DEF Inv, TypeInv, TypeOK, EntryInv, CallInv, ChildInv, Lives, Threads, vars,
         callVars, entryVars, threadVars, childVars

LEMMA StepKeeps == ASSUME Inv, [Next]_vars PROVE Inv'
  <1>1. CASE (\E f \in Interfaces : Start(f) \/ Stop(f)) \/ CallStep
    <2>1. ~stopped' => ~stopped
      BY <1>1 DEF CallStep, Start, Stop, HasThread, Look, NoEntry, Create, CreateFrom, Mark,
                  PassOver, Found, Cancel, CancelEnded, Unmark
    <2>2. TypeInv'
      BY <1>1, CallTypes DEF Inv
    <2>3. ~stopped' => EntryInv' /\ CallInv' /\ ChildInv'
      BY <1>1, <2>1, CallEntry, CallCall, CallChild DEF Inv
    <2> QED BY <2>2, <2>3 DEF Inv
  <1>2. CASE \E c \in Threads : ThreadStep(c) \/ UdhcpcStep(c)
    <2> PICK c \in Threads : ThreadStep(c) \/ UdhcpcStep(c)
      BY <1>2
    <2>1. stopped' = stopped
      BY DEF ThreadStep, UdhcpcStep, ChildEnds, ChildServes, ChildLeaves,
             DaemonEnds, Begin, Run, Pclose, Wait, WaitUnless, Again, Exit, Clear, Die
    <2>2. TypeInv'
      BY ThreadTypes DEF Inv
    <2>3. ~stopped' => EntryInv' /\ CallInv' /\ ChildInv'
      BY <2>1, ThreadEntry, ThreadCall, ThreadChild DEF Inv
    <2> QED BY <2>2, <2>3 DEF Inv
  <1>3. CASE UNCHANGED vars
    BY <1>3, StutterKeeps
  <1> QED BY <1>1, <1>2, <1>3 DEF Next, CallStep

LEMMA Invariant == Spec => []Inv
  BY InitInv, StepKeeps, PTL DEF Spec

\* Every variable keeps its type, whoever is stopped.
THEOREM TypeCorrect == Spec => []TypeOK
  <1>1. Inv => TypeOK
    BY DEF Inv, TypeInv
  <1> QED BY <1>1, Invariant, PTL

\* net_errno.h: as long as none was stopped, an interface has at most one udhcpc
\* that looks for a lease or whose thread has not ended: start_dhcp, run_dhcp and
\* exeShellWait only let a second one join one that serves in the background, for
\* a thread that has ended.  Each is at the interface its thread was started for.
THEOREM OneSeeksAlways == Spec => []OneSeeks
  <1>1. ASSUME Inv, ~stopped, NEW c \in Threads, NEW d \in Threads
        PROVE  /\ Uses(c) => iface[c] = asked[c]
               /\ Uses(c) /\ Uses(d) /\ iface[c] = iface[d] /\ c # d =>
                     \E b \in {c, d} : child[b] # "runs" /\ ~Lives(b)
    <2>1. EntryInv /\ ChildInv
      BY <1>1 DEF Inv
    <2>2. \A b \in {c, d} : /\ Uses(b) => iface[b] = asked[b]
                            /\ child[b] = "runs" => Lives(b)
      BY <2>1 DEF ChildInv, Lives, Uses
    <2>3. Lives(c) /\ Lives(d) /\ asked[c] = asked[d] => c = d
      BY <2>1 DEF EntryInv
    <2>4. ASSUME Uses(c), Uses(d), iface[c] = iface[d], c # d
          PROVE  \E b \in {c, d} : child[b] # "runs" /\ ~Lives(b)
      <3>1. ~Lives(c) \/ ~Lives(d)
        BY <2>2, <2>3, <2>4
      <3> QED BY <2>2, <3>1
    <2> QED BY <2>2, <2>4
  <1>2. Inv => OneSeeks
    BY <1>1 DEF OneSeeks
  <1> QED BY <1>2, Invariant, PTL
===============================================================================
