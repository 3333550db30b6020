------------------------------- MODULE Daemon -------------------------------
(***************************************************************************)
(* The servers of one port, the file that names this user's server, and    *)
(* the commands that start and stop it.                                    *)
(*                                                                         *)
(* A process holds the port from its bind to the drop of its listener, is  *)
(* `ollaya serve` to ps until it exits, and answers while it accepts.  A   *)
(* server that loses the bind looks the winner up as a stop does.          *)
(***************************************************************************)
EXTENDS FiniteSets

CONSTANTS
    Own,        \* processes of this user, each started at most once
    Other,      \* processes of another user, whose file is in another home
    Tool,       \* commands, and the desktop application's requests
    Nobody      \* no process

Proc == Own \cup Other

ASSUME DaemonAssumption ==
    /\ Own \cap Other = {} /\ Proc \cap Tool = {} /\ Nobody \notin Proc

VARIABLES
    doing,      \* where each process and each command is
    pid,        \* the process each has read in the file
    wrote,      \* whether a process has written the file
    pidfile     \* server.<port>.pid

daemonVars == <<doing, pid, wrote, pidfile>>

Looking == {"reads", "checks", "removes"}
Listening == {"bound", "named", "serving", "told"}
Running == {"starting", "lost"} \cup Looking \cup Listening \cup {"draining"}

DaemonTypeOK ==
    /\ doing \in [Proc \cup Tool -> Running \cup {"none", "gone", "idle", "spawns", "polls",
                                               "signals", "waits", "stopped"}]
    /\ \A p \in Proc : doing[p] \in Running \cup {"none", "gone"}
    /\ \A t \in Tool : doing[t] \notin Running \ Looking /\ doing[t] \notin {"none", "gone"}
    /\ pid \in [Proc \cup Tool -> Own \cup {Nobody}]
    /\ wrote \in [Proc -> BOOLEAN]
    /\ pidfile \in Own \cup {Nobody}

DaemonInit ==
    /\ doing = [x \in Proc \cup Tool |-> IF x \in Tool THEN "idle" ELSE "none"]
    /\ pid = [x \in Proc \cup Tool |-> Nobody]
    /\ wrote = [p \in Proc |-> FALSE]
    /\ pidfile = Nobody

\* The heartbeat and the version: answered, or refused.  One sent to a server that does
\* not accept yet waits.
Answering == {p \in Proc : doing[p] \in {"serving", "told"}}
Answers == Answering # {}
Free == \A p \in Proc : doing[p] \notin Listening

\* What a command or a process that ends has read is forgotten.
To(x, where) ==
    /\ doing' = [doing EXCEPT ![x] = where]
    /\ pid' = IF where \in {"idle", "gone"} THEN [pid EXCEPT ![x] = Nobody] ELSE pid
-----------------------------------------------------------------------------
(* ollaya serve *)

\* In a terminal, by systemd, by another user.
Launch(p) == doing[p] = "none" /\ To(p, "starting") /\ UNCHANGED <<wrote, pidfile>>

BindAfterFile(p) ==
    /\ doing[p] = "starting"
    /\ pidfile' = IF p \in Own THEN p ELSE pidfile
    /\ wrote' = [wrote EXCEPT ![p] = p \in Own]
    /\ To(p, IF Free THEN "bound" ELSE "lost")

Bind(p) ==
    /\ doing[p] = "starting"
    /\ To(p, IF Free THEN "bound" ELSE "lost")
    /\ UNCHANGED <<wrote, pidfile>>

\* in_use: a server answers there, and its file says whose it is; or none does.
InUse(p) ==
    /\ doing[p] = "lost"
    /\ \/ Answers /\ To(p, IF p \in Own THEN "reads" ELSE "gone")
       \/ Free /\ To(p, "gone")
    /\ UNCHANGED <<wrote, pidfile>>

\* The file is written, or could not be and is left alone.
Record(p) ==
    /\ doing[p] = "bound" /\ To(p, "named")
    /\ \/ p \in Own /\ pidfile' = p /\ wrote' = [wrote EXCEPT ![p] = TRUE]
       \/ UNCHANGED <<pidfile, wrote>>

\* The server's state is built, or cannot be.
Ready(p) ==
    /\ doing[p] = "named"
    /\ To(p, "serving") \/ To(p, "draining")
    /\ UNCHANGED <<wrote, pidfile>>

\* SIGTERM, by a command or by somebody else.  A server that does not listen for it yet
\* dies of it; one that has heard it hears no more.
Told(p) == IF doing[p] = "serving" THEN "told"
           ELSE IF doing[p] \in {"told", "draining"} THEN doing[p] ELSE "gone"

Interrupt(p) == doing[p] = "serving" /\ To(p, "told") /\ UNCHANGED <<wrote, pidfile>>

\* The listener goes first, then connections and runners get their time.
CloseListener(p) ==
    doing[p] = "told" /\ To(p, "draining") /\ UNCHANGED <<wrote, pidfile>>

Exit(p) ==
    /\ doing[p] = "draining" /\ To(p, "gone")
    /\ pidfile' = IF wrote[p] THEN Nobody ELSE pidfile
    /\ UNCHANGED wrote

\* A crash, a kill, or on Windows any stop.
Dies(p) ==
    doing[p] \in Running /\ To(p, "gone") /\ UNCHANGED <<wrote, pidfile>>
-----------------------------------------------------------------------------
(* own_server, by a stop or by a server that lost the bind *)

NoneFound(x) == To(x, IF x \in Tool THEN "idle" ELSE "gone")

ReadFile(x) ==
    /\ doing[x] = "reads"
    /\ IF pidfile = Nobody THEN NoneFound(x)
       ELSE /\ doing' = [doing EXCEPT ![x] = "checks"]
            /\ pid' = [pid EXCEPT ![x] = pidfile]
    /\ UNCHANGED <<wrote, pidfile>>

Check(x) ==
    /\ doing[x] = "checks"
    /\ To(x, IF doing[pid[x]] \notin Running THEN "removes"
               ELSE IF x \in Tool THEN "signals" ELSE "gone")
    /\ UNCHANGED <<wrote, pidfile>>

RemoveStale(x) ==
    /\ doing[x] = "removes" /\ pidfile' = Nobody
    /\ NoneFound(x)
    /\ UNCHANGED wrote
-----------------------------------------------------------------------------
(* Commands *)

\* client, start_server_now: nothing answers, so a server is spawned and asked until it
\* answers or 30 seconds have passed.
Starts(t) == doing[t] = "idle" /\ Free /\ To(t, "spawns") /\ UNCHANGED <<wrote, pidfile>>

SpawnServer(t) ==
    /\ doing[t] = "spawns"
    /\ \E p \in Own :
          doing[p] = "none" /\ doing' = [doing EXCEPT ![t] = "polls", ![p] = "starting"]
    /\ UNCHANGED <<pid, wrote, pidfile>>

Polled(t) == doing[t] = "polls" /\ To(t, "idle") /\ UNCHANGED <<wrote, pidfile>>

\* stop_server, and the application's stop_server_now, which runs it.
Stops(t) == doing[t] = "idle" /\ Answers /\ To(t, "reads") /\ UNCHANGED <<wrote, pidfile>>

\* kill fails on a process that has gone.
Signal(t) ==
    /\ doing[t] = "signals"
    /\ \/ /\ doing[pid[t]] \in Running
          /\ doing' = [doing EXCEPT ![t] = "waits", ![pid[t]] = Told(pid[t])]
          /\ UNCHANGED pid
       \/ doing[pid[t]] = "gone" /\ To(t, "idle")
    /\ UNCHANGED <<wrote, pidfile>>

StoppedAtOnce(t) ==
    doing[t] = "waits" /\ To(t, "stopped") /\ UNCHANGED <<wrote, pidfile>>

Stopped(t) ==
    doing[t] = "waits" /\ Free /\ To(t, "stopped") /\ UNCHANGED <<wrote, pidfile>>

\* It says so and ends, or gives up after 15 seconds.
StopEnds(t) ==
    doing[t] \in {"waits", "stopped"} /\ To(t, "idle") /\ UNCHANGED <<wrote, pidfile>>

ServeNext ==
    \E p \in Proc :
        \/ Launch(p) \/ Bind(p) \/ InUse(p) \/ Record(p) \/ Ready(p)
        \/ Interrupt(p) \/ CloseListener(p) \/ Exit(p) \/ Dies(p)

LookNext == \E x \in Proc \cup Tool : ReadFile(x) \/ Check(x) \/ RemoveStale(x)

CommandNext ==
    \E t \in Tool :
        \/ Starts(t) \/ SpawnServer(t) \/ Polled(t)
        \/ Stops(t) \/ Signal(t) \/ Stopped(t) \/ StopEnds(t)

DaemonNext == ServeNext \/ LookNext \/ CommandNext

DaemonSpec == DaemonInit /\ [][DaemonNext]_daemonVars
-----------------------------------------------------------------------------
\* daemon.rs, 5: the file names the server that serves: never an earlier one, nor one that
\* started beside it and lost the port, so a stop signals no other server of this user.
NamesNewest ==
    \A p \in Own : doing[p] \in {"serving", "told"} /\ wrote[p] => pidfile \in {p, Nobody}

\* daemon.rs, 166: a stop that says it stopped a server has told a process that holds the
\* port no longer, though others start, stop, lose the port and crash meanwhile.
StopIsTrue ==
    \A t \in Tool : doing[t] = "stopped" => doing[pid[t]] \in {"draining", "gone"}

\* daemon.rs, 5: a running server records its process ID in the file.
RunningIsNamed ==
    \A p \in Own : doing[p] \in {"serving", "told"} /\ wrote[p] => pidfile = p
=============================================================================
