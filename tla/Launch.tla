-------------------------------- MODULE Launch --------------------------------
(***************************************************************************)
(* Runs of pa7/client on one machine and one port, as processes.  Each run *)
(* forks a data server, asks its user to confirm, connects, collects its   *)
(* responses (Client) and tells the server of its control connection to    *)
(* exit.  Nothing ties a client to the server it forked: it talks to       *)
(* whichever server holds the port when it connects.                       *)
(*                                                                         *)
(* External semantics (TCP): one process listens on a port; after it has   *)
(* ended the port may stay unusable for a while (TIME_WAIT); connect is    *)
(* refused when nobody listens; the first send to a peer that is gone may  *)
(* succeed, or end the process.                                            *)
(***************************************************************************)
EXTENDS Naturals, Sequences, Functions

CONSTANTS
  Runs,  \* the runs of the client on this port
  W,     \* -w: the number of workers
  Free,  \* the port when a server can bind it
  Busy   \* the port while it is in TIME_WAIT

ASSUME WorkersAssumption == W \in Nat \ {0}
ASSUME PortAssumption == Free \notin Runs /\ Busy \notin Runs /\ Free # Busy

VARIABLES
  client,  \* client[r]: how far run r is
  server,  \* server[r]: the server process it forked
  conn,    \* conn[r]: whose server its channels lead to, the control first
  told,    \* the servers that were sent "!!"
  port,    \* the run whose server holds the port, Free or Busy
  heeded   \* history: the users did what the program asks them

vars == <<client, server, conn, told, port, heeded>>

TypeOK ==
  /\ client \in [Runs -> {"new", "prompt", "connect", "work", "kill",
                          "reported", "failed"}]
  /\ server \in [Runs -> {"none", "starting", "listening", "gone"}]
  /\ conn \in [Runs -> Seq(Runs)]
  /\ \A r \in Runs : Len(conn[r]) <= W + 1
  /\ told \subseteq Runs
  /\ port \in Runs \cup {Free, Busy}
  /\ heeded \in BOOLEAN
  /\ \A r \in Runs : port = r <=> server[r] = "listening"

Init ==
  /\ client = [r \in Runs |-> "new"]
  /\ server = [r \in Runs |-> "none"]
  /\ conn = [r \in Runs |-> <<>>]
  /\ told = {}
  /\ port = Free
  /\ heeded = TRUE

Goes(r, point) == client' = [client EXCEPT ![r] = point]
Ended(r) == client[r] \in {"reported", "failed"}

\* "Please allow time (30s) before using the same port again".
FreshStart ==
  port = Free /\ \A q \in Runs : client[q] = "new" \/ Ended(q)

-----------------------------------------------------------------------------
(* The client of run r.                                                    *)

\* fork and execl("dataserver"), either of which may fail unnoticed.
Start(r) ==
  \E forked \in BOOLEAN :
    /\ client[r] = "new"
    /\ Goes(r, "prompt")
    /\ server' = [server EXCEPT ![r] = IF forked THEN "starting" ELSE "none"]
    /\ heeded' = (heeded /\ forked /\ FreshStart)
    /\ UNCHANGED <<conn, told, port>>

ConfirmsWhen(r, awaited) ==
  /\ client[r] = "prompt"
  /\ Goes(r, "connect")
  /\ heeded' = (heeded /\ awaited)
  /\ UNCHANGED <<server, conn, told, port>>

\* Mutant of Confirm: there is no prompt to wait at.
ConfirmAtOnce(r) == ConfirmsWhen(r, TRUE)

\* "Please confirm by typing Y", which is for when the server is there.
Confirm(r) == ConfirmsWhen(r, server[r] = "listening")

\* The control channel, then one for each worker, which starts at once.
Connects(r) ==
  /\ client[r] = "connect"
  /\ port \in Runs
  /\ conn' = [conn EXCEPT ![r] = Append(@, port)]
  /\ IF Len(conn[r]) = W THEN Goes(r, "work") ELSE UNCHANGED client
  /\ UNCHANGED <<server, told, port, heeded>>

Fails(r) == Goes(r, "failed") /\ UNCHANGED <<server, conn, told, port, heeded>>

ConnectFails(r) ==
  /\ client[r] = "connect"
  /\ port \notin Runs
  /\ Fails(r)

WorkerConns(r) == {conn[r][x] : x \in 2..Len(conn[r])}
Lost(S) == \E s \in S : server[s] = "gone"

\* All responses are there, and the workers have said "!".
Collects(r) ==
  /\ client[r] = "work"
  /\ \E s \in WorkerConns(r) : server[s] = "listening"
  /\ Goes(r, "kill")
  /\ UNCHANGED <<server, conn, told, port, heeded>>

\* A worker, or main() with its "!!", finds its server gone.
Breaks(r) ==
  /\ \/ client[r] \in {"connect", "work"} /\ Lost(WorkerConns(r))
     \/ client[r] = "kill" /\ Lost({conn[r][1]})
  /\ Fails(r)

Says(r, listeners) ==
  /\ client[r] = "kill"
  /\ told' = told \cup listeners
  /\ Goes(r, "reported")
  /\ UNCHANGED <<server, conn, port, heeded>>

\* Mutant of Kills: "!!" does not reach the server.
KillsNobody(r) == Says(r, {})

\* "!!"; the rest of main() needs no server.
Kills(r) == Says(r, {conn[r][1]})

\* What the client does without its user.
Proceeds(r) ==
  Connects(r) \/ ConnectFails(r) \/ Collects(r) \/ Breaks(r) \/ Kills(r)

-----------------------------------------------------------------------------
(* The server of run s.                                                    *)

BindsWhen(s, allowed) ==
  /\ server[s] = "starting"
  /\ allowed
  /\ server' = [server EXCEPT ![s] = "listening"]
  /\ port' = s
  /\ UNCHANGED <<client, conn, told, heeded>>

\* Mutant of Binds: the port is taken from the server that has it.
BindsAnyway(s) == BindsWhen(s, TRUE)

Binds(s) == BindsWhen(s, port = Free)

BindFails(s) ==
  /\ server[s] = "starting"
  /\ port # Free
  /\ server' = [server EXCEPT ![s] = "gone"]
  /\ UNCHANGED <<client, conn, told, port, heeded>>

Ends(s) ==
  /\ server[s] = "listening"
  /\ server' = [server EXCEPT ![s] = "gone"]
  /\ port' \in {Free, Busy}
  /\ UNCHANGED <<client, conn, told, heeded>>

Exits(s) == s \in told /\ Ends(s)

\* A client that failed takes its connections with it (Server!RecvNothing),
\* which may end the server.
Dropped(s) ==
  /\ \E r \in Runs : client[r] = "failed" /\ s \in Range(conn[r])
  /\ Ends(s)

PortFrees ==
  /\ port = Busy
  /\ port' = Free
  /\ UNCHANGED <<client, server, conn, told, heeded>>

-----------------------------------------------------------------------------
Next ==
  \/ \E r \in Runs :
       \/ Start(r) \/ Confirm(r) \/ Proceeds(r)
       \/ Binds(r) \/ BindFails(r) \/ Exits(r) \/ Dropped(r)
  \/ PortFrees

Spec == Init /\ [][Next]_vars

\* Processes run and ports come back; nothing makes a user start or confirm a
\* run, or a server die of a client that failed.
FairSpec ==
  /\ Spec
  /\ WF_vars(PortFrees)
  /\ \A r \in Runs : WF_vars(Proceeds(r)) /\ WF_vars(Exits(r))

-----------------------------------------------------------------------------
Shares(r) == \E q \in Runs \ {r} : Range(conn[r]) \cap Range(conn[q]) # {}

(***************************************************************************)
(* A run fails only if no server was there when it began to connect, or if *)
(* another run used a server of its own; and if all users start a run when *)
(* the port is free again and confirm it when its server is there, which   *)
(* is what the program asks of them (client.cpp:249, 435), every run talks *)
(* to its own server and none fails.                                       *)
(***************************************************************************)
FailsForAReason ==
  \A r \in Runs :
    /\ client[r] = "failed" => conn[r] = <<>> \/ Shares(r)
    /\ heeded => client[r] # "failed" /\ Range(conn[r]) \subseteq {r}

(***************************************************************************)
(* A run that connects ends, whatever becomes of the server; and if the    *)
(* users heed the program, a run that has reported leaves no server behind *)
(* and gives the port back, so that the next run can have it.              *)
(***************************************************************************)
RunsEnd ==
  \A r \in Runs :
    /\ client[r] = "connect" ~> Ended(r)
    /\ []heeded =>
         ((client[r] = "reported" /\ port = r) ~> port = Free)
=============================================================================
