------------------------------ MODULE Desktop -------------------------------
(***************************************************************************)
(* The desktop application on macOS: a menu that follows the server, and   *)
(* requests that start and stop it beside everything else that does.       *)
(*                                                                         *)
(* The task of the menu takes a snapshot, draws it and sleeps, until an    *)
(* action wakes it or two seconds have passed, which may be at any time.   *)
(* A snapshot is taken in two reads, and a menu is replaced some time      *)
(* after it was seen closed.                                               *)
(***************************************************************************)
EXTENDS Daemon

CONSTANT App    \* the requests of the application
ASSUME AppAssumption == App \in Tool

VARIABLES
    tray,       \* where the task is
    now,        \* the snapshot it takes
    menu,       \* the snapshot the menu's items show
    drawn,      \* the snapshot recorded as drawn
    open        \* whether the menu is open

trayVars == <<tray, now, menu, drawn, open>>
vars == <<daemonVars, trayVars>>

\* What a server has loaded and what it downloads are its own: they stand for the rest of
\* what the menu shows, which differs in its items when the server starts or stops.
Snapshot == [running : BOOLEAN, loaded : SUBSET Proc]
SameItems(s, t) == s.running = t.running

Blank == [running |-> FALSE, loaded |-> {}]

TypeOK ==
    /\ DaemonTypeOK
    /\ tray \in {"opens", "starts", "sleeps", "lists", "draws", "rebuilds"}
    /\ now \in Snapshot
    /\ menu \in Snapshot
    /\ drawn \in Snapshot \cup {Nobody}
    /\ open \in BOOLEAN

Init ==
    /\ DaemonInit
    /\ tray = "opens" /\ now = Blank /\ menu = Blank /\ drawn = Nobody /\ open = FALSE

\* The server runs while the application does: it is started if none answers.
Opens ==
    /\ tray = "opens"
    /\ \/ Answers /\ tray' = "sleeps" /\ UNCHANGED daemonVars
       \/ tray' = "starts" /\ Starts(App)
    /\ UNCHANGED <<now, menu, drawn, open>>

Started ==
    /\ tray = "starts" /\ doing[App] = "idle" /\ tray' = "sleeps"
    /\ UNCHANGED <<now, menu, drawn, open, daemonVars>>

\* The status, and then the models, which a server gone meanwhile does not tell.
Looks ==
    /\ tray = "sleeps"
    /\ \/ Answers /\ now' = [Blank EXCEPT !.running = TRUE] /\ tray' = "lists"
       \/ Free /\ now' = Blank /\ tray' = "draws"
    /\ UNCHANGED <<menu, drawn, open, daemonVars>>

Lists ==
    /\ tray = "lists"
    /\ Answers \/ Free
    /\ now' = [now EXCEPT !.loaded = Answering]
    /\ tray' = "draws"
    /\ UNCHANGED <<menu, drawn, open, daemonVars>>

\* The pass is over, and its snapshot dropped.
Sleeps == tray' = "sleeps" /\ now' = Blank

\* The menu's items updated in place, which are there already; its header alone while it
\* is open; or a menu that replaces it.
Kept == drawn # Nobody /\ SameItems(drawn, now)
Updated == menu' = [menu EXCEPT !.loaded = now.loaded] /\ drawn' = now /\ Sleeps

DrawsRecorded ==
    /\ tray = "draws"
    /\ \/ Kept /\ Updated
       \/ ~Kept /\ open /\ drawn' = now /\ Sleeps /\ UNCHANGED menu
       \/ ~Kept /\ ~open /\ tray' = "rebuilds" /\ UNCHANGED <<now, menu, drawn>>
    /\ UNCHANGED <<open, daemonVars>>

Draws ==
    /\ tray = "draws"
    /\ \/ Kept /\ Updated
       \/ ~Kept /\ open /\ Sleeps /\ UNCHANGED <<menu, drawn>>
       \/ ~Kept /\ ~open /\ tray' = "rebuilds" /\ UNCHANGED <<now, menu, drawn>>
    /\ UNCHANGED <<open, daemonVars>>

\* A menu opened since it was seen closed goes.
Rebuilds ==
    /\ tray = "rebuilds"
    /\ menu' = now /\ drawn' = now /\ open' = FALSE /\ Sleeps
    /\ UNCHANGED daemonVars

\* The user opens the menu or closes it.
Clicks == open' = ~open /\ UNCHANGED <<tray, now, menu, drawn, daemonVars>>

TrayNext == Started \/ Looks \/ Lists \/ Draws \/ Rebuilds

Next ==
    \/ Opens \/ TrayNext \/ Clicks
    \/ DaemonNext /\ UNCHANGED trayVars

\* The task always goes on: its timer rings, and a closed menu lets it replace it.
Spec == Init /\ [][Next]_vars
FairSpec == Spec /\ WF_vars(TrayNext)
-----------------------------------------------------------------------------
World == [running |-> Answers, loaded |-> Answering]

\* tray.rs, 14: the menu's items come to show what the server and the models are, unless it is
\* open, or they change, or a server comes up that never answers, again and again: though
\* they changed between the two reads of a snapshot, while the menu was open, or as it was
\* replaced.
CatchesUp ==
    \/ []<>(menu = World)
    \/ []<>(open \/ tray \in {"opens", "starts"} \/ ~(Answers \/ Free))
    \/ []<><<World' # World>>_vars
=============================================================================
