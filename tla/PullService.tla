---------------------------- MODULE PullService ----------------------------
(***************************************************************************)
(* Pulls shared by their clients.                                          *)
(*                                                                         *)
(* Ollaya::pull joins the pull in flight of the same name, refuses one of  *)
(* the same tag under another digest, and else starts a task.  The task    *)
(* races the download against a poll that finds no receiver, then leaves   *)
(* the table, then reports; each client reads the events from a bounded    *)
(* broadcast channel and turns them into its HTTP response.                *)
(*                                                                         *)
(* What the download does is in ModelStore; here it sends progress and     *)
(* ends.  The 250 ms of the poll are abstracted: it may look at any time.  *)
(***************************************************************************)
EXTENDS Integers, Sequences, FiniteSets

CONSTANTS
    Client,      \* requests of POST /api/pull, one at a time for each
    Key,         \* names with their digest, if any
    File,        \* manifest files
    FileOf,      \* the manifest file a key writes
    Pull,        \* identities of pulls, reused once everyone has dropped them
    None,        \* no pull, no key
    Capacity,    \* slots of the broadcast channel
    MaxLines     \* bound on the progress events of a pull

ASSUME PullAssumption ==
    /\ FileOf \in [Key -> File]
    /\ None \notin Pull \cup Key
    /\ Capacity \in Nat \ {0}
    /\ MaxLines \in Nat

VARIABLES
    pulls,      \* the table of pulls in flight, by manifest file
    creating,   \* the manifest files a create is writing
    task,       \* what the task of each pull is doing, and how its download ended
    sent,       \* the events each pull has sent, the channel's last ones readable
    client      \* what each client is doing, and its place in the channel

vars == <<pulls, creating, task, sent, client>>

-----------------------------------------------------------------------------
Event == {"line", "layer", "success", "done", "failed"}

\* A task runs its download, has left the select, or has left the table too;
\* closed: it has dropped its end of the channel.
TaskState ==
    [at     : {"pulling", "ended", "report", "closed"},
     key    : Key \cup {None},
     result : {"ok", "failed", "abandoned"}]

\* A client reads the head of its response, then streams lines or waits quietly.
Attached == {"head", "lines", "quiet"}
Told == {"success", "failed", "cut"}

ClientState ==
    [at     : {"idle"} \cup Attached \cup Told,
     pull   : Pull \cup {None},
     next   : Nat]                      \* index of the next event to read

TypeOK ==
    /\ pulls \in [File -> Pull \cup {None}]
    /\ creating \subseteq File
    /\ task \in [Pull -> TaskState]
    /\ sent \in [Pull -> Seq(Event)]
    /\ client \in [Client -> ClientState]

Closed == [at |-> "closed", key |-> None, result |-> "abandoned"]
Away   == [at |-> "idle", pull |-> None, next |-> 1]

Init ==
    /\ pulls = [f \in File |-> None]
    /\ creating = {}
    /\ task = [p \in Pull |-> Closed]
    /\ sent = [p \in Pull |-> <<>>]
    /\ client = [c \in Client |-> Away]

Receivers(p) == {c \in Client : client[c].at \in Attached /\ client[c].pull = p}

FileOfPull(p) == FileOf[task[p].key]
-----------------------------------------------------------------------------
(* A client asks for a pull: one critical section of the table *)

Attach(c, p, i) ==
    client' = [client EXCEPT ![c] = [at |-> "head", pull |-> p, next |-> i]]

Waiting(c) == client[c].at \notin Attached

\* A fault: the creates are not looked at.
StartUnchecked(c, k) ==
    /\ Waiting(c)
    /\ pulls[FileOf[k]] = None
    /\ \E p \in Pull :
          /\ task[p].at = "closed" /\ Receivers(p) = {}
          /\ pulls' = [pulls EXCEPT ![FileOf[k]] = p]
          /\ task' = [task EXCEPT ![p] =
                         [at |-> "pulling", key |-> k, result |-> "abandoned"]]
          /\ sent' = [sent EXCEPT ![p] = <<>>]
          /\ Attach(c, p, 1)
    /\ UNCHANGED creating

Start(c, k) ==
    /\ Waiting(c)
    /\ pulls[FileOf[k]] = None /\ FileOf[k] \notin creating
    /\ \E p \in Pull :
          /\ task[p].at = "closed" /\ Receivers(p) = {}
          /\ pulls' = [pulls EXCEPT ![FileOf[k]] = p]
          /\ task' = [task EXCEPT ![p] =
                         [at |-> "pulling", key |-> k, result |-> "abandoned"]]
          /\ sent' = [sent EXCEPT ![p] = <<>>]
          /\ Attach(c, p, 1)
    /\ UNCHANGED creating

\* The client hears what is sent from now on.  A pull of the tag under another
\* digest is busy instead (HTTP 409, no step).
Join(c, k) ==
    /\ Waiting(c)
    /\ LET p == pulls[FileOf[k]] IN
          /\ p # None /\ task[p].key = k
          /\ Attach(c, p, Len(sent[p]) + 1)
    /\ UNCHANGED <<pulls, creating, task, sent>>

CreateStarts(f) ==
    /\ pulls[f] = None /\ f \notin creating
    /\ creating' = creating \cup {f}
    /\ UNCHANGED <<pulls, task, sent, client>>

\* The claim goes when the create ends, whichever way.
CreateEnds(f) ==
    /\ f \in creating
    /\ creating' = creating \ {f}
    /\ UNCHANGED <<pulls, task, sent, client>>

-----------------------------------------------------------------------------
(* The task of a pull *)

Send(p, e) == sent' = [sent EXCEPT ![p] = Append(@, e)]

\* The select has its branch: the download's result, or none.
Ends(p, how) == task' = [task EXCEPT ![p] = [@ EXCEPT !.at = "ended", !.result = how]]

Progress(p) ==
    /\ task[p].at = "pulling"
    /\ Len(sent[p]) < MaxLines
    /\ \E e \in {"line", "layer"} : Send(p, e)
    /\ UNCHANGED <<pulls, creating, task, client>>

\* A fault: the return is not preceded by the success line.
PullOkSilent(p) ==
    /\ task[p].at = "pulling"
    /\ Ends(p, "ok")
    /\ UNCHANGED <<pulls, creating, sent, client>>

\* Puller::pull reports success as it returns.
PullOk(p) ==
    /\ task[p].at = "pulling"
    /\ Send(p, "success")
    /\ Ends(p, "ok")
    /\ UNCHANGED <<pulls, creating, client>>

PullFails(p) ==
    /\ task[p].at = "pulling"
    /\ Ends(p, "failed")
    /\ UNCHANGED <<pulls, creating, sent, client>>

\* A fault: the receivers are counted where progress is reported.
AbandonOnProgress(p) ==
    /\ task[p].at = "pulling"
    /\ Receivers(p) = {}
    /\ Len(sent[p]) < MaxLines
    /\ Send(p, "line")
    /\ Ends(p, "abandoned")
    /\ UNCHANGED <<pulls, creating, client>>

\* The poll finds no receiver: the download is dropped where it is.
Abandon(p) ==
    /\ task[p].at = "pulling"
    /\ Receivers(p) = {}
    /\ Ends(p, "abandoned")
    /\ UNCHANGED <<pulls, creating, sent, client>>

\* A fault: a pull that failed keeps its entry.
LeaveTableOnSuccess(p) ==
    /\ task[p].at = "ended"
    /\ pulls' = IF task[p].result = "failed" THEN pulls
                ELSE [pulls EXCEPT ![FileOfPull(p)] = None]
    /\ task' = [task EXCEPT ![p].at = "report"]
    /\ UNCHANGED <<creating, sent, client>>

LeaveTable(p) ==
    /\ task[p].at = "ended"
    /\ pulls' = [pulls EXCEPT ![FileOfPull(p)] = None]
    /\ task' = [task EXCEPT ![p].at = "report"]
    /\ UNCHANGED <<creating, sent, client>>

Free(p) ==
    /\ task' = [task EXCEPT ![p] = Closed]
    /\ sent' = [sent EXCEPT ![p] = <<>>]

Outcome(p) == IF task[p].result = "ok" THEN "done" ELSE task[p].result

\* An abandoned pull reports nothing.  The channel goes when its sender and its last
\* receiver have; an event sent to no receiver is not kept.
Report(p) ==
    /\ task[p].at = "report"
    /\ IF Receivers(p) = {}
       THEN Free(p)
       ELSE /\ sent' = IF task[p].result = "abandoned" THEN sent
                       ELSE [sent EXCEPT ![p] = Append(@, Outcome(p))]
            /\ task' = [task EXCEPT ![p].at = "closed"]
    /\ UNCHANGED <<pulls, creating, client>>

-----------------------------------------------------------------------------
(* A client reads its channel *)

\* Where a client may go that hears e.  The head of a response ends at its first
\* layer, and goes on as the request asked, in lines or quietly.  The stream of lines
\* takes "done" for an end it has already written.
Hears(at, e) ==
    CASE e = "failed"  -> {"failed"}
      [] e = "success" -> {"success"}
      [] e = "done"    -> IF at = "lines" THEN {"cut"} ELSE {"success"}
      [] e = "layer" /\ at = "head" -> {"lines", "quiet"}
      [] OTHER         -> {at}

\* The oldest event the channel still holds: a receiver that lags skips to it.
Oldest(p) == IF Len(sent[p]) > Capacity THEN Len(sent[p]) - Capacity + 1 ELSE 1

Place(c) == LET s == client[c] IN IF s.next < Oldest(s.pull) THEN Oldest(s.pull) ELSE s.next

\* A client that has been told the end, or leaves, drops its receiver.
Detach(c, at) ==
    LET p == client[c].pull IN
    /\ client' = [client EXCEPT ![c] = [Away EXCEPT !.at = at]]
    /\ IF task[p].at = "closed" /\ Receivers(p) = {c} THEN Free(p) ELSE UNCHANGED <<task, sent>>

Receive(c) ==
    /\ client[c].at \in Attached
    /\ LET p == client[c].pull IN
          /\ Place(c) <= Len(sent[p])
          /\ \E at \in Hears(client[c].at, sent[p][Place(c)]) :
                IF at \in Told
                THEN Detach(c, at)
                ELSE /\ client' = [client EXCEPT ![c] = [@ EXCEPT !.at = at, !.next = Place(c) + 1]]
                     /\ UNCHANGED <<task, sent>>
    /\ UNCHANGED <<pulls, creating>>

\* Nothing left to read and no sender: HTTP 500, or a stream that just stops.
ReceiveClosed(c) ==
    /\ client[c].at \in Attached
    /\ LET p == client[c].pull IN task[p].at = "closed" /\ Place(c) > Len(sent[p])
    /\ Detach(c, "cut")
    /\ UNCHANGED <<pulls, creating>>

\* The connection closes.
Leave(c) ==
    /\ client[c].at \in Attached
    /\ Detach(c, "idle")
    /\ UNCHANGED <<pulls, creating>>

-----------------------------------------------------------------------------
Next ==
    \/ \E c \in Client :
          \/ \E k \in Key : Start(c, k) \/ Join(c, k)
          \/ Receive(c) \/ ReceiveClosed(c) \/ Leave(c)
    \/ \E f \in File : CreateStarts(f) \/ CreateEnds(f)
    \/ \E p \in Pull :
          \/ Progress(p) \/ PullOk(p) \/ PullFails(p) \/ Abandon(p)
          \/ LeaveTable(p) \/ Report(p)

Spec == Init /\ [][Next]_vars

\* The poll's timer fires, tasks are scheduled, and a client that stays reads on.
\* Nothing is assumed of the registry: a download may hang.
FairSpec ==
    /\ Spec
    /\ \A p \in Pull : WF_vars(Abandon(p)) /\ WF_vars(LeaveTable(p)) /\ WF_vars(Report(p))
    /\ \A c \in Client : WF_vars(Receive(c)) /\ WF_vars(ReceiveClosed(c))

-----------------------------------------------------------------------------
(* Properties *)

\* The task that holds a file's entry is the one that claimed it and has not left the
\* table, so an entry removed by file is always the remover's own; and no file is
\* claimed by a pull and a create, or by two pulls, at once.
TableExact ==
    /\ \A p \in Pull : task[p].at \in {"pulling", "ended"} <=>
          task[p].key \in Key /\ pulls[FileOfPull(p)] = p
    /\ \A f \in File : pulls[f] # None =>
          f \notin creating /\ task[pulls[f]].key \in Key /\ FileOfPull(pulls[f]) = f

\* What a client is told is how its pull ended, however far it lagged behind and
\* whenever it joined: success only if the model was stored, an error only if it was
\* not, and a response with no ending only if the pull was given up.
TellsOutcome ==
    [][\A c \in Client :
          LET p == client[c].pull IN
          client[c].at \in Attached /\ client'[c].at \in Told =>
              client'[c].at = (CASE task[p].result = "ok" -> "success"
                                 [] task[p].result = "failed" -> "failed"
                                 [] task[p].result = "abandoned" -> "cut")]_vars

\* docs/api.md, 10: when the last client of a pull leaves, the pull stops, whatever
\* the registry does.
AbandonedStops ==
    \A p \in Pull : (task[p].at = "pulling" /\ Receivers(p) = {}) ~>
                        (task[p].at # "pulling" \/ Receivers(p) # {})

\* Once the download has ended, every client still attached is told, and the name
\* can be pulled again.
EndedIsHeard ==
    \A p \in Pull : task[p].at = "ended" ~>
        (Receivers(p) = {} /\ \A f \in File : pulls[f] # p)
-----------------------------------------------------------------------------
(* The inductive invariant *)

\* Progress comes first in a channel, the end after it.
Plain(s, n) == \A i \in 1..n : s[i] \in {"line", "layer"}

\* What a channel holds while its task or a receiver has it.
ChannelShape(p) ==
    LET s == sent[p]  n == Len(s)  how == task[p].result IN
    /\ task[p].at = "pulling" => Plain(s, n)
    /\ task[p].at \in {"ended", "report"} /\ how = "ok" =>
          n >= 1 /\ s[n] = "success" /\ Plain(s, n - 1)
    /\ task[p].at \in {"ended", "report"} /\ how # "ok" => Plain(s, n)
    /\ task[p].at = "closed" /\ Receivers(p) # {} =>
          /\ how = "ok" => n >= 2 /\ s[n] = "done" /\ s[n - 1] = "success" /\ Plain(s, n - 2)
          /\ how = "failed" => n >= 1 /\ s[n] = "failed" /\ Plain(s, n - 1)
          /\ how = "abandoned" => Plain(s, n)

\* Where a client that has not been told stands: it has passed no end, and no success
\* either once it streams.
ReaderPlace(c) ==
    LET r == client[c]  s == sent[r.pull] IN
    r.at \in Attached =>
        /\ r.pull \in Pull
        /\ r.next >= 1 /\ r.next <= Len(s) + 1
        /\ \A i \in 1..(r.next - 1) :
              /\ s[i] \in {"line", "layer", "success"}
              /\ r.at = "lines" => s[i] # "success"

ChannelInv ==
    /\ \A p \in Pull : ChannelShape(p)
    /\ \A c \in Client : ReaderPlace(c)

PullInv == TypeOK /\ TableExact /\ ChannelInv
=============================================================================
