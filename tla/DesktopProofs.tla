--------------------------- MODULE DesktopProofs ---------------------------
(***************************************************************************)
(* What is proved of the servers of a port, the file that names one of     *)
(* them and the commands beside them, alone and with the desktop           *)
(* application, for any number of servers and commands.                    *)
(***************************************************************************)
EXTENDS Desktop, TLAPS

-----------------------------------------------------------------------------
(* The servers of a port *)

\* One process holds the port; a process writes the file while it holds it, and whoever
\* read the file read a process that wrote it.
Holds(p) == doing[p] \in {"named", "serving", "told", "draining", "gone"}

OneHolder == \A p, q \in Proc : doing[p] \in Listening /\ doing[q] \in Listening => p = q
Written ==
    /\ \A p \in Proc : wrote[p] => p \in Own /\ Holds(p)
    /\ pidfile # Nobody => wrote[pidfile]
    /\ \A x \in Proc \cup Tool :
          /\ pid[x] # Nobody => wrote[pid[x]]
          /\ doing[x] \in {"checks", "signals", "waits", "stopped"} => pid[x] # Nobody
Named ==
    \A p \in Own : doing[p] \in {"named", "serving", "told"} /\ wrote[p] => pidfile \in {p, Nobody}
SignalHeard ==
    \A t \in Tool : doing[t] \in {"waits", "stopped"} =>
        doing[pid[t]] \in {"told", "draining", "gone"}

DaemonInv == DaemonTypeOK /\ OneHolder /\ Written /\ Named /\ SignalHeard /\ StopIsTrue

LEMMA DaemonStarts == DaemonInit => DaemonInv
  BY DaemonAssumption
  DEF DaemonInit, DaemonInv, DaemonTypeOK, OneHolder, Written, Named, SignalHeard, StopIsTrue,
      Proc, Running, Looking, Listening, Holds

LEMMA LaunchKeeps == ASSUME DaemonInv, NEW p \in Proc, Launch(p) PROVE DaemonInv'
  BY DaemonAssumption, SMTT(30) DEF Launch, To, DaemonInv, DaemonTypeOK, OneHolder, Written, Named, SignalHeard, StopIsTrue,
      Proc, Running, Looking, Listening, Holds

LEMMA BindKeeps == ASSUME DaemonInv, NEW p \in Proc, Bind(p) PROVE DaemonInv'
  BY DaemonAssumption DEF Bind, To, Free, DaemonInv, DaemonTypeOK, OneHolder, Written, Named, SignalHeard, StopIsTrue,
      Proc, Running, Looking, Listening, Holds

LEMMA InUseKeeps == ASSUME DaemonInv, NEW p \in Proc, InUse(p) PROVE DaemonInv'
  BY DaemonAssumption DEF InUse, To, DaemonInv, DaemonTypeOK, OneHolder, Written, Named, SignalHeard, StopIsTrue,
      Proc, Running, Looking, Listening, Holds

\* The one that writes the file holds the port, so no other that wrote it serves.
LEMMA RecordKeeps == ASSUME DaemonInv, NEW p \in Proc, Record(p) PROVE DaemonInv'
<1>1. doing' = [doing EXCEPT ![p] = "named"] /\ pid' = pid /\ doing[p] = "bound"
  BY DEF Record, To
<1>2. \/ p \in Own /\ pidfile' = p /\ wrote' = [wrote EXCEPT ![p] = TRUE]
      \/ pidfile' = pidfile /\ wrote' = wrote
  BY DEF Record
<1>3. DaemonTypeOK'
  BY <1>1, <1>2, DaemonAssumption DEF DaemonInv, DaemonTypeOK, Proc, Running, Looking, Listening
<1>4. OneHolder'
  BY <1>1 DEF DaemonInv, DaemonTypeOK, OneHolder, Proc, Listening
<1>5. Written'
  <2>1. \A q \in Proc : wrote'[q] => q \in Own /\ Holds(q)'
    BY <1>1, <1>2 DEF DaemonInv, DaemonTypeOK, Written, Holds, Proc
  <2>2. pidfile' # Nobody => wrote'[pidfile']
    BY <1>1, <1>2 DEF DaemonInv, DaemonTypeOK, Written, Proc
  <2>3. \A x \in Proc \cup Tool : pid[x] # Nobody => wrote'[pid[x]]
    BY <1>2 DEF DaemonInv, DaemonTypeOK, Written, Proc
  <2>4. \A x \in Proc \cup Tool :
           doing'[x] \in {"checks", "signals", "waits", "stopped"} => pid[x] # Nobody
    BY <1>1 DEF DaemonInv, DaemonTypeOK, Written, Proc
  <2> QED BY <1>1, <2>1, <2>2, <2>3, <2>4 DEF Written
<1>6. Named'
  BY <1>1, <1>2
  DEF DaemonInv, DaemonTypeOK, OneHolder, Written, Holds, Named, Proc, Listening
<1>7. SignalHeard' /\ StopIsTrue'
  BY <1>1, DaemonAssumption DEF DaemonInv, DaemonTypeOK, SignalHeard, StopIsTrue, Proc, Written
<1> QED BY <1>3, <1>4, <1>5, <1>6, <1>7 DEF DaemonInv

LEMMA ReadyKeeps == ASSUME DaemonInv, NEW p \in Proc, Ready(p) PROVE DaemonInv'
  BY DaemonAssumption DEF Ready, To, DaemonInv, DaemonTypeOK, OneHolder, Written, Named, SignalHeard, StopIsTrue,
      Proc, Running, Looking, Listening, Holds

LEMMA InterruptKeeps == ASSUME DaemonInv, NEW p \in Proc, Interrupt(p) PROVE DaemonInv'
  BY DaemonAssumption DEF Interrupt, To, DaemonInv, DaemonTypeOK, OneHolder, Written, Named, SignalHeard, StopIsTrue,
      Proc, Running, Looking, Listening, Holds

LEMMA CloseListenerKeeps == ASSUME DaemonInv, NEW p \in Proc, CloseListener(p) PROVE DaemonInv'
  BY DaemonAssumption DEF CloseListener, To, DaemonInv, DaemonTypeOK, OneHolder, Written, Named, SignalHeard, StopIsTrue,
      Proc, Running, Looking, Listening, Holds

LEMMA ExitKeeps == ASSUME DaemonInv, NEW p \in Proc, Exit(p) PROVE DaemonInv'
  BY DaemonAssumption DEF Exit, To, DaemonInv, DaemonTypeOK, OneHolder, Written, Named, SignalHeard, StopIsTrue,
      Proc, Running, Looking, Listening, Holds

LEMMA DiesKeeps == ASSUME DaemonInv, NEW p \in Proc, Dies(p) PROVE DaemonInv'
  BY DaemonAssumption DEF Dies, To, DaemonInv, DaemonTypeOK, OneHolder, Written, Named, SignalHeard, StopIsTrue,
      Proc, Running, Looking, Listening, Holds

LEMMA ReadFileKeeps == ASSUME DaemonInv, NEW x \in Proc \cup Tool, ReadFile(x) PROVE DaemonInv'
  BY DaemonAssumption DEF ReadFile, To, NoneFound, DaemonInv, DaemonTypeOK, OneHolder, Written, Named, SignalHeard, StopIsTrue,
      Proc, Running, Looking, Listening, Holds

LEMMA CheckKeeps == ASSUME DaemonInv, NEW x \in Proc \cup Tool, Check(x) PROVE DaemonInv'
  BY DaemonAssumption DEF Check, To, DaemonInv, DaemonTypeOK, OneHolder, Written, Named, SignalHeard, StopIsTrue,
      Proc, Running, Looking, Listening, Holds

LEMMA RemoveStaleKeeps == ASSUME DaemonInv, NEW x \in Proc \cup Tool, RemoveStale(x) PROVE DaemonInv'
  BY DaemonAssumption DEF RemoveStale, To, NoneFound, DaemonInv, DaemonTypeOK, OneHolder, Written, Named, SignalHeard, StopIsTrue,
      Proc, Running, Looking, Listening, Holds

LEMMA StartsKeeps == ASSUME DaemonInv, NEW t \in Tool, Starts(t) PROVE DaemonInv'
  BY DaemonAssumption DEF Starts, To, DaemonInv, DaemonTypeOK, OneHolder, Written, Named, SignalHeard, StopIsTrue,
      Proc, Running, Looking, Listening, Holds

LEMMA SpawnServerKeeps == ASSUME DaemonInv, NEW t \in Tool, SpawnServer(t) PROVE DaemonInv'
  BY DaemonAssumption DEF SpawnServer, To, DaemonInv, DaemonTypeOK, OneHolder, Written, Named, SignalHeard, StopIsTrue,
      Proc, Running, Looking, Listening, Holds

LEMMA PolledKeeps == ASSUME DaemonInv, NEW t \in Tool, Polled(t) PROVE DaemonInv'
  BY DaemonAssumption DEF Polled, To, DaemonInv, DaemonTypeOK, OneHolder, Written, Named, SignalHeard, StopIsTrue,
      Proc, Running, Looking, Listening, Holds

LEMMA StopsKeeps == ASSUME DaemonInv, NEW t \in Tool, Stops(t) PROVE DaemonInv'
  BY DaemonAssumption DEF Stops, To, DaemonInv, DaemonTypeOK, OneHolder, Written, Named, SignalHeard, StopIsTrue,
      Proc, Running, Looking, Listening, Holds

LEMMA SignalKeeps == ASSUME DaemonInv, NEW t \in Tool, Signal(t) PROVE DaemonInv'
  BY DaemonAssumption, SMTT(30) DEF Signal, To, Told, DaemonInv, DaemonTypeOK, OneHolder, Written, Named, SignalHeard, StopIsTrue,
      Proc, Running, Looking, Listening, Holds

LEMMA StoppedKeeps == ASSUME DaemonInv, NEW t \in Tool, Stopped(t) PROVE DaemonInv'
  BY DaemonAssumption DEF Stopped, To, Free, DaemonInv, DaemonTypeOK, OneHolder, Written, Named, SignalHeard, StopIsTrue,
      Proc, Running, Looking, Listening, Holds

LEMMA StopEndsKeeps == ASSUME DaemonInv, NEW t \in Tool, StopEnds(t) PROVE DaemonInv'
  BY DaemonAssumption DEF StopEnds, To, DaemonInv, DaemonTypeOK, OneHolder, Written, Named, SignalHeard, StopIsTrue,
      Proc, Running, Looking, Listening, Holds


LEMMA DaemonStutters == ASSUME DaemonInv, UNCHANGED daemonVars PROVE DaemonInv'
  BY DEF daemonVars, DaemonInv, DaemonTypeOK, OneHolder, Written, Named, SignalHeard,
      StopIsTrue, Proc, Running, Looking, Listening, Holds

LEMMA DaemonSteps == DaemonInv /\ [DaemonNext]_daemonVars => DaemonInv'
<1> SUFFICES ASSUME DaemonInv, [DaemonNext]_daemonVars PROVE DaemonInv'
  OBVIOUS
<1>1. ASSUME NEW p \in Proc,
             Launch(p) \/ Bind(p) \/ InUse(p) \/ Record(p) \/ Ready(p)
             \/ Interrupt(p) \/ CloseListener(p) \/ Exit(p) \/ Dies(p)
      PROVE  DaemonInv'
  BY <1>1, LaunchKeeps, BindKeeps, InUseKeeps, RecordKeeps, ReadyKeeps, InterruptKeeps,
     CloseListenerKeeps, ExitKeeps, DiesKeeps
<1>2. ASSUME NEW x \in Proc \cup Tool, ReadFile(x) \/ Check(x) \/ RemoveStale(x)
      PROVE  DaemonInv'
  BY <1>2, ReadFileKeeps, CheckKeeps, RemoveStaleKeeps
<1>3. ASSUME NEW t \in Tool,
             Starts(t) \/ SpawnServer(t) \/ Polled(t)
             \/ Stops(t) \/ Signal(t) \/ Stopped(t) \/ StopEnds(t)
      PROVE  DaemonInv'
  BY <1>3, StartsKeeps, SpawnServerKeeps, PolledKeeps, StopsKeeps, SignalKeeps, StoppedKeeps,
     StopEndsKeeps
<1> QED BY <1>1, <1>2, <1>3, DaemonStutters DEF DaemonNext, ServeNext, LookNext, CommandNext

\* DaemonInv holds in every reachable state, for any number of servers and commands.
THEOREM DaemonInvariance == DaemonSpec => []DaemonInv
<1> QED BY DaemonStarts, DaemonSteps, PTL DEF DaemonSpec

\* Every variable of the servers and their commands keeps its type.
THEOREM DaemonTyped == DaemonSpec => []DaemonTypeOK
<1>1. DaemonInv => DaemonTypeOK
  BY DEF DaemonInv
<1> QED BY <1>1, DaemonInvariance, PTL

\* The file names the server that serves or none, whatever starts, loses the port, crashes
\* or is stopped beside it: a stop signals no other server of this user's.
THEOREM FileNamesNewest == DaemonSpec => []NamesNewest
<1>1. DaemonInv => NamesNewest
  BY DEF DaemonInv, Named, NamesNewest
<1> QED BY <1>1, DaemonInvariance, PTL

\* A stop that says it stopped a server told one that holds the port no longer.
THEOREM StopsAreTrue == DaemonSpec => []StopIsTrue
<1>1. DaemonInv => StopIsTrue
  BY DEF DaemonInv
<1> QED BY <1>1, DaemonInvariance, PTL

-----------------------------------------------------------------------------
(* The application beside the commands *)

\* The application does to the servers what a command does.
LEMMA AppIsACommand == [Next]_vars => [DaemonNext]_daemonVars
<1> SUFFICES ASSUME [Next]_vars PROVE [DaemonNext]_daemonVars
  OBVIOUS
<1>1. CASE Opens
  BY <1>1, AppAssumption DEF Opens, DaemonNext, CommandNext
<1>2. CASE TrayNext
  BY <1>2 DEF TrayNext, Started, Looks, Lists, Draws, Rebuilds
<1>3. CASE Clicks
  BY <1>3 DEF Clicks
<1>4. CASE UNCHANGED vars
  BY <1>4 DEF vars
<1> QED BY <1>1, <1>2, <1>3, <1>4 DEF Next

LEMMA AppImplements == Spec => DaemonSpec
<1>1. Init => DaemonInit
  BY DEF Init
<1> QED BY <1>1, AppIsACommand, PTL DEF Spec, DaemonSpec

\* Beside the application, too, the file names the server that serves or none.
THEOREM AppKeepsNewest == Spec => []NamesNewest
BY AppImplements, FileNamesNewest, PTL

\* And a stop of the application, which runs the command, says it stopped a server only
\* when it told one that holds the port no longer.
THEOREM AppKeepsStops == Spec => []StopIsTrue
BY AppImplements, StopsAreTrue, PTL

\* What was recorded as drawn is what the items show, so a pass that leaves the menu alone
\* leaves it right; and a snapshot is of one server at most, that runs.
OfOneServer(s) == (s.loaded # {} => s.running) /\ \A p, q \in s.loaded : p = q
TrayInv ==
    /\ TypeOK
    /\ drawn # Nobody => menu = drawn
    /\ OfOneServer(now) /\ OfOneServer(menu)
    /\ tray = "lists" => now.running

LEMMA BlankIsSnapshot == Blank \in Snapshot /\ OfOneServer(Blank) /\ ~Blank.running
BY DEF Blank, Snapshot, OfOneServer

LEMMA TraySteps == TrayInv /\ DaemonInv /\ DaemonInv' /\ [Next]_vars => TrayInv'
<1> SUFFICES ASSUME TrayInv, DaemonInv, DaemonInv', [Next]_vars PROVE TrayInv'
  OBVIOUS
<1> USE DEF TrayInv, TypeOK
<1>0. DaemonTypeOK'
  BY DEF DaemonInv
<1>1. CASE UNCHANGED trayVars
  BY <1>0, <1>1 DEF trayVars
<1>2. CASE Opens \/ Started \/ Clicks
  BY <1>0, <1>2 DEF Opens, Started, Clicks
<1>3. CASE Looks
  BY <1>0, <1>3, BlankIsSnapshot DEF Looks, Blank, Snapshot, OfOneServer
<1>4. CASE Lists
  <2>1. now' = [now EXCEPT !.loaded = Answering] /\ tray' = "draws" /\ now.running
    BY <1>4 DEF Lists
  <2>2. Answering \subseteq Proc /\ \A p, q \in Answering : p = q
    BY DEF Answering, DaemonInv, OneHolder, Listening
  <2>3. now' \in Snapshot /\ now'.running /\ now'.loaded = Answering
    BY <2>1, <2>2 DEF Snapshot
  <2> QED BY <1>0, <1>4, <2>1, <2>2, <2>3 DEF Lists, OfOneServer
<1>5. CASE Draws
  <2>1. CASE Kept /\ Updated
    <3>1. menu = drawn /\ menu.running = now.running
      BY <2>1 DEF Kept, SameItems
    <3>2. menu' = now
      BY <2>1, <3>1 DEF Updated, Snapshot
    <3> QED BY <1>0, <1>5, <2>1, <3>2, BlankIsSnapshot DEF Draws, Updated, Sleeps
  <2>2. CASE ~Kept
    BY <1>0, <1>5, <2>2, BlankIsSnapshot DEF Draws, Sleeps
  <2> QED BY <1>5, <2>1, <2>2 DEF Draws
<1>6. CASE Rebuilds
  BY <1>0, <1>6, BlankIsSnapshot DEF Rebuilds, Sleeps
<1> QED BY <1>1, <1>2, <1>3, <1>4, <1>5, <1>6 DEF Next, TrayNext, vars

THEOREM TrayInvariance == Spec => []TrayInv
<1>1. Init => TrayInv
  <2>1. DaemonInit => DaemonTypeOK
    BY DaemonStarts DEF DaemonInv
  <2> QED BY <2>1, BlankIsSnapshot DEF Init, TrayInv, TypeOK
<1> QED BY <1>1, TraySteps, AppImplements, DaemonInvariance, PTL DEF Spec

\* The menu never shows what two servers have loaded, nor anything loaded as that of a
\* server that does not run, though its snapshot takes two reads between which servers
\* stop and start; and what it was last given is what it shows.
MenuIsOfOne == OfOneServer(menu) /\ (drawn # Nobody => menu = drawn)

\* MenuIsOfOne holds in every state the application reaches.
THEOREM MenuNeverMixes == Spec => []MenuIsOfOne
<1>1. TrayInv => MenuIsOfOne
  BY DEF TrayInv, MenuIsOfOne
<1> QED BY <1>1, TrayInvariance, PTL

\* Every variable of the application keeps its type.
THEOREM DesktopTyped == Spec => []TypeOK
<1>1. TrayInv => TypeOK
  BY DEF TrayInv
<1> QED BY <1>1, TrayInvariance, PTL
=============================================================================
