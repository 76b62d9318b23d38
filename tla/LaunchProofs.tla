----------------------------- MODULE LaunchProofs -----------------------------
(***************************************************************************)
(* Theorems about Launch, for any runs and any number of workers.          *)
(***************************************************************************)
EXTENDS Launch, TLAPS

\* One more channel, and the servers all of them lead to.
LEMMA OneMoreChannel ==
  ASSUME NEW S, NEW s \in Seq(S), NEW e \in S
  PROVE  /\ Append(s, e) \in Seq(S) /\ Len(Append(s, e)) = Len(s) + 1
         /\ Range(Append(s, e)) = Range(s) \cup {e}
         /\ Append(s, e)[1] = IF s = <<>> THEN e ELSE s[1]
<1>1. /\ Append(s, e) \in Seq(S) /\ Len(Append(s, e)) = Len(s) + 1
      /\ \A x \in DOMAIN s : Append(s, e)[x] = s[x]
      /\ Append(s, e)[Len(s) + 1] = e
      /\ DOMAIN Append(s, e) = DOMAIN s \cup {Len(s) + 1}
  OBVIOUS
<1>2. Range(Append(s, e)) = Range(s) \cup {e}
  BY <1>1 DEF Range
<1>3. Append(s, e)[1] = IF s = <<>> THEN e ELSE s[1]
  OBVIOUS
<1> QED
  BY <1>1, <1>2, <1>3

-----------------------------------------------------------------------------
(***************************************************************************)
(* The types, and how far a run has come with its channels and its server. *)
(***************************************************************************)
Progress ==
  \A r \in Runs :
    /\ client[r] = "new" => server[r] = "none"
    /\ client[r] \in {"new", "prompt"} => conn[r] = <<>>
    /\ client[r] = "connect" => Len(conn[r]) <= W
    /\ client[r] \in {"work", "kill", "reported"} => Len(conn[r]) = W + 1

Typed == TypeOK /\ Progress

\* Before any run the types hold.
LEMMA TypedInit == Init => Typed
<1> SUFFICES ASSUME Init PROVE Typed
  OBVIOUS
<1>1. <<>> \in Seq(Runs) /\ Len(<<>>) = 0 /\ 0 <= W + 1
  BY WorkersAssumption
<1> QED
  BY <1>1, PortAssumption DEF Init, Typed, TypeOK, Progress

\* The steps of a client that leave the servers and the channels alone.
LEMMA GoesOn ==
  ASSUME Typed, NEW r \in Runs,
         NEW point \in {"connect", "kill", "reported", "failed"}, Goes(r, point),
         point = "connect" => client[r] = "prompt",
         point \in {"kill", "reported"} => client[r] \in {"work", "kill"},
         UNCHANGED <<server, conn, port>>,
         told' \subseteq Runs, heeded' \in BOOLEAN
  PROVE  Typed'
<1>1. /\ client \in [Runs -> {"new", "prompt", "connect", "work", "kill",
                              "reported", "failed"}]
      /\ client' = [client EXCEPT ![r] = point]
  BY DEF Typed, TypeOK, Goes
<1>2. TypeOK'
  BY <1>1 DEF Typed, TypeOK
<1>3. Progress'
  <2> SUFFICES ASSUME NEW q \in Runs
               PROVE  (/\ client[q] = "new" => server[q] = "none"
                       /\ client[q] \in {"new", "prompt"} => conn[q] = <<>>
                       /\ client[q] = "connect" => Len(conn[q]) <= W
                       /\ client[q] \in {"work", "kill", "reported"} =>
                            Len(conn[q]) = W + 1)'
    BY DEF Progress
  <2>1. CASE q = r
    <3>1. Len(<<>>) = 0 /\ 0 <= W
      BY WorkersAssumption
    <3> QED
      BY <1>1, <2>1, <3>1 DEF Typed, Progress
  <2>2. CASE q # r
    BY <1>1, <2>2 DEF Typed, Progress
  <2> QED
    BY <2>1, <2>2
<1> QED
  BY <1>2, <1>3 DEF Typed

\* The steps of the servers and of the port.
LEMMA ServersGoOn ==
  ASSUME Typed, NEW s \in Runs, NEW point \in {"listening", "gone"},
         server[s] \in {"starting", "listening"},
         server' = [server EXCEPT ![s] = point],
         port' \in Runs \cup {Free, Busy},
         \A r \in Runs : port' = r <=> server'[r] = "listening",
         UNCHANGED <<client, conn, told, heeded>>
  PROVE  Typed'
<1>1. server \in [Runs -> {"none", "starting", "listening", "gone"}]
  BY DEF Typed, TypeOK
<1>2. TypeOK'
  BY <1>1 DEF Typed, TypeOK
<1>3. Progress'
  BY <1>1 DEF Typed, Progress
<1> QED
  BY <1>2, <1>3 DEF Typed

\* Every action keeps them; one step per action.
LEMMA TypedStep == Typed /\ [Next]_vars => Typed'
<1> SUFFICES ASSUME Typed, [Next]_vars PROVE Typed'
  OBVIOUS
<1>0. /\ client \in [Runs -> {"new", "prompt", "connect", "work", "kill",
                              "reported", "failed"}]
      /\ server \in [Runs -> {"none", "starting", "listening", "gone"}]
      /\ conn \in [Runs -> Seq(Runs)]
      /\ \A r \in Runs : Len(conn[r]) <= W + 1
      /\ told \subseteq Runs /\ heeded \in BOOLEAN
      /\ port \in Runs \cup {Free, Busy}
      /\ \A r \in Runs : port = r <=> server[r] = "listening"
      /\ Free \notin Runs /\ Busy \notin Runs
  BY PortAssumption DEF Typed, TypeOK
<1>1. ASSUME NEW r \in Runs, Start(r) PROVE Typed'
  <2>1. PICK forked \in BOOLEAN :
          /\ client[r] = "new" /\ client' = [client EXCEPT ![r] = "prompt"]
          /\ server' = [server EXCEPT
                          ![r] = IF forked THEN "starting" ELSE "none"]
          /\ heeded' = (heeded /\ forked /\ FreshStart)
          /\ UNCHANGED <<conn, told, port>>
    BY <1>1 DEF Start, Goes
  <2>2. server[r] = "none" /\ conn[r] = <<>>
    BY <2>1 DEF Typed, Progress
  <2>3. TypeOK'
    BY <1>0, <2>1, <2>2 DEF TypeOK
  <2>4. Progress'
    BY <1>0, <2>1, <2>2 DEF Typed, Progress
  <2> QED
    BY <2>3, <2>4 DEF Typed
<1>2. ASSUME NEW r \in Runs, Confirm(r) PROVE Typed'
  BY <1>0, <1>2, GoesOn DEF Confirm, ConfirmsWhen
<1>3. ASSUME NEW r \in Runs, Connects(r) PROVE Typed'
  <2>1. /\ client[r] = "connect" /\ port \in Runs
        /\ conn' = [conn EXCEPT ![r] = Append(@, port)]
        /\ IF Len(conn[r]) = W THEN client' = [client EXCEPT ![r] = "work"]
                               ELSE client' = client
        /\ UNCHANGED <<server, told, port, heeded>>
    BY <1>3 DEF Connects, Goes
  <2>2. Len(conn[r]) <= W
    BY <2>1 DEF Typed, Progress
  <2>3. /\ conn'[r] \in Seq(Runs) /\ Len(conn'[r]) = Len(conn[r]) + 1
        /\ \A q \in Runs \ {r} : conn'[q] = conn[q]
    BY <1>0, <2>1, OneMoreChannel
  <2>4. Len(conn[r]) \in Nat /\ W \in Nat
    BY <1>0, WorkersAssumption
  <2>5. TypeOK'
    <3>1. \A q \in Runs : Len(conn'[q]) <= W + 1
      <4>1. Len(conn'[r]) <= W + 1
        <5>1. PICK n : n = Len(conn[r])
          OBVIOUS
        <5> QED
          BY <2>2, <2>3, <2>4, <5>1
      <4>2. \A q \in Runs \ {r} : Len(conn'[q]) <= W + 1
        BY <1>0, <2>3
      <4> QED
        BY <4>1, <4>2
    <3> QED
      BY <1>0, <2>1, <2>3, <3>1 DEF TypeOK
  <2>6. Progress'
    BY <1>0, <2>1, <2>2, <2>3, <2>4 DEF Typed, Progress
  <2> QED
    BY <2>5, <2>6 DEF Typed
<1>4. ASSUME NEW r \in Runs, ConnectFails(r) \/ Breaks(r) PROVE Typed'
  BY <1>0, <1>4, GoesOn DEF ConnectFails, Breaks, Fails
<1>5. ASSUME NEW r \in Runs, Collects(r) PROVE Typed'
  BY <1>0, <1>5, GoesOn DEF Collects
<1>6. ASSUME NEW r \in Runs, Kills(r) PROVE Typed'
  <2>1. /\ client[r] = "kill" /\ told' = told \cup {conn[r][1]}
        /\ Goes(r, "reported") /\ UNCHANGED <<server, conn, port, heeded>>
    BY <1>6 DEF Kills, Says
  <2>2. Len(conn[r]) = W + 1
    BY <2>1 DEF Typed, Progress
  <2>3. conn[r][1] \in Runs
    BY <1>0, <2>2, WorkersAssumption
  <2> QED
    BY <1>0, <2>1, <2>3, GoesOn
<1>7. ASSUME NEW s \in Runs, Binds(s) PROVE Typed'
  BY <1>0, <1>7, ServersGoOn DEF Binds, BindsWhen
<1>8. ASSUME NEW s \in Runs, BindFails(s) PROVE Typed'
  BY <1>0, <1>8, ServersGoOn DEF BindFails
<1>9. ASSUME NEW s \in Runs, Ends(s) PROVE Typed'
  BY <1>0, <1>9, ServersGoOn DEF Ends
<1>10. CASE PortFrees
  BY <1>0, <1>10 DEF PortFrees, Typed, TypeOK, Progress
<1>11. CASE UNCHANGED vars
  BY <1>11 DEF vars, Typed, TypeOK, Progress
<1> QED
  BY <1>1, <1>2, <1>3, <1>4, <1>5, <1>6, <1>7, <1>8, <1>9, <1>10, <1>11
  DEF Next, Proceeds, Exits, Dropped

(***************************************************************************)
(* The types of a machine where the client is run again and again.         *)
(***************************************************************************)
THEOREM TypeCorrect == Spec => []TypeOK
<1>1. Typed => TypeOK
  BY DEF Typed
<1> QED
  BY TypedInit, TypedStep, <1>1, PTL DEF Spec

-----------------------------------------------------------------------------
(***************************************************************************)
(* Why a server of which a run has a channel is gone: it was told to end   *)
(* by a run that has reported, or a run that failed had a channel of it    *)
(* too.  That run has ended, so it is another one than the run it fails.   *)
(***************************************************************************)
Reaches(r, s) == s \in Range(conn[r])

WhyGone ==
  /\ \A r, s \in Runs : Reaches(r, s) => server[s] \in {"listening", "gone"}
  /\ \A s \in told : \E q \in Runs : client[q] = "reported" /\ Reaches(q, s)
  /\ \A r, s \in Runs : Reaches(r, s) /\ server[s] = "gone" =>
       \E q \in Runs : Ended(q) /\ Reaches(q, s)
  /\ \A r \in Runs : client[r] = "failed" => conn[r] = <<>> \/ Shares(r)

(***************************************************************************)
(* If all users do what the program asks, one run after another has the    *)
(* port: its server is the only one that starts, it is there before the    *)
(* run connects, and it stays until its own run has told it to end.        *)
(***************************************************************************)
Active(r) == client[r] \in {"prompt", "connect", "work", "kill"}

InTurn ==
  /\ \A q, r \in Runs : Active(q) /\ Active(r) => q = r
  /\ \A r \in Runs :
       /\ client[r] # "failed" /\ Range(conn[r]) \subseteq {r}
       /\ client[r] = "prompt" =>
            server[r] = "listening" \/ (server[r] = "starting" /\ port = Free)
       /\ client[r] \in {"connect", "work", "kill"} => server[r] = "listening"
       /\ client[r] = "reported" => server[r] \in {"listening", "gone"}

IInv == Typed /\ WhyGone /\ (heeded => InTurn)

\* Before any run nobody is active and nothing is reached.
LEMMA IInvInit == Init => IInv
<1> SUFFICES ASSUME Init PROVE IInv
  OBVIOUS
<1>1. \A r \in Runs : Range(conn[r]) = {} /\ client[r] = "new" /\ conn[r] = <<>>
  BY DEF Init, Range
<1>2. WhyGone /\ InTurn
  BY <1>1 DEF WhyGone, InTurn, Reaches, Active, Init
<1> QED
  BY <1>2, TypedInit DEF IInv

\* A run gets one more channel, to the server that has the port.
LEMMA ConnectsDoes ==
  ASSUME Typed, NEW r \in Runs, Connects(r)
  PROVE  /\ port \in Runs /\ server[port] = "listening"
         /\ client[r] = "connect" /\ client'[r] \in {"connect", "work"}
         /\ Range(conn'[r]) = Range(conn[r]) \cup {port}
         /\ \A q \in Runs \ {r} : conn'[q] = conn[q] /\ client'[q] = client[q]
         /\ UNCHANGED <<server, told, port, heeded>>
<1>1. /\ client[r] = "connect" /\ port \in Runs
      /\ conn' = [conn EXCEPT ![r] = Append(@, port)]
      /\ IF Len(conn[r]) = W THEN client' = [client EXCEPT ![r] = "work"]
                             ELSE client' = client
      /\ UNCHANGED <<server, told, port, heeded>>
  BY DEF Connects, Goes
<1>2. /\ client \in [Runs -> {"new", "prompt", "connect", "work", "kill",
                              "reported", "failed"}]
      /\ conn \in [Runs -> Seq(Runs)]
      /\ \A q \in Runs : port = q <=> server[q] = "listening"
  BY DEF Typed, TypeOK
<1>3. Range(conn'[r]) = Range(conn[r]) \cup {port}
  <2>1. conn'[r] = Append(conn[r], port)
    BY <1>1, <1>2
  <2> QED
    BY <1>1, <1>2, <2>1, OneMoreChannel
<1> QED
  BY <1>1, <1>2, <1>3

\* Where the channels of a run lead.
LEMMA Channels ==
  ASSUME Typed, NEW r \in Runs
  PROVE  /\ \A s \in WorkerConns(r) : s \in Runs /\ Reaches(r, s)
         /\ client[r] = "kill" => conn[r][1] \in Runs /\ Reaches(r, conn[r][1])
<1>1. /\ conn[r] \in Seq(Runs)
      /\ client[r] = "kill" => Len(conn[r]) = W + 1
      /\ W \in Nat \ {0}
  BY WorkersAssumption DEF Typed, TypeOK, Progress
<1>2. \A x \in 1..Len(conn[r]) : conn[r][x] \in Runs /\ Reaches(r, conn[r][x])
  BY <1>1 DEF Reaches, Range
<1> QED
  BY <1>1, <1>2 DEF WorkerConns

\* A run that has a channel of a server that is gone shares it.
LEMMA GoneIsShared ==
  ASSUME WhyGone, NEW r \in Runs, NEW s \in Runs,
         Reaches(r, s), server[s] = "gone", ~Ended(r)
  PROVE  Shares(r)
<1>1. PICK q \in Runs : Ended(q) /\ Reaches(q, s)
  BY DEF WhyGone
<1> QED
  BY <1>1 DEF Shares, Reaches

(***************************************************************************)
(* A run that fails to connect, or finds a server gone, has met the end of *)
(* a server it shares with another run.                                    *)
(***************************************************************************)
LEMMA FailsShared ==
  ASSUME Typed, WhyGone, NEW r \in Runs, ConnectFails(r) \/ Breaks(r)
  PROVE  conn[r] = <<>> \/ Shares(r)
<1>1. ~Ended(r)
  BY DEF ConnectFails, Breaks, Ended
<1>2. CASE ConnectFails(r)
  <2>1. SUFFICES ASSUME conn[r] # <<>> PROVE Shares(r)
    OBVIOUS
  <2>2. conn[r] \in Seq(Runs)
    BY DEF Typed, TypeOK
  <2>3. conn[r][1] \in Runs /\ Reaches(r, conn[r][1])
    BY <2>1, <2>2 DEF Reaches, Range
  <2>4. server[conn[r][1]] = "gone"
    BY <1>2, <2>3 DEF ConnectFails, WhyGone, Typed, TypeOK
  <2> QED
    BY <1>1, <2>3, <2>4, GoneIsShared
<1>3. CASE Breaks(r)
  <2>1. \E s \in Runs : Reaches(r, s) /\ server[s] = "gone"
    BY <1>3, Channels DEF Breaks, Lost
  <2> QED
    BY <1>1, <2>1, GoneIsShared
<1> QED
  BY <1>2, <1>3

(***************************************************************************)
(* A server of which somebody has a channel goes only by the two ways that *)
(* WhyGone names: a "!!" of a run that reports, or a client that fails.    *)
(***************************************************************************)
LEMMA WhyGoneStep == Typed /\ WhyGone /\ [Next]_vars => WhyGone'
<1> SUFFICES ASSUME Typed, WhyGone, [Next]_vars PROVE WhyGone'
  OBVIOUS
<1>0. /\ client \in [Runs -> {"new", "prompt", "connect", "work", "kill",
                              "reported", "failed"}]
      /\ server \in [Runs -> {"none", "starting", "listening", "gone"}]
  BY DEF Typed, TypeOK
<1> USE DEF WhyGone, Reaches, Ended, Shares
\* A client takes a step, and its channels stay as they are.
<1>1. ASSUME NEW r \in Runs,
             NEW point \in {"prompt", "connect", "kill", "reported", "failed"},
             client' = [client EXCEPT ![r] = point], ~Ended(r),
             point = "failed" => conn[r] = <<>> \/ Shares(r),
             \/ told' = told
             \/ \E s \in Runs :
                  /\ point = "reported" /\ Reaches(r, s)
                  /\ told' = told \cup {s},
             \/ server' = server
             \/ /\ server[r] = "none"
                /\ \E begun \in {"none", "starting"} :
                     server' = [server EXCEPT ![r] = begun],
             conn' = conn
      PROVE  WhyGone'
  <2>1. \A q \in Runs : /\ client[q] = "reported" => client'[q] = "reported"
                        /\ Ended(q) => Ended(q)'
    BY <1>0, <1>1
  <2>2. \A q, s \in Runs : Reaches(q, s) => server'[s] = server[s]
    BY <1>0, <1>1
  <2>3. \A s \in told' : \E q \in Runs : client'[q] = "reported" /\ Reaches(q, s)
    <3>1. CASE told' = told
      BY <2>1, <3>1
    <3>2. CASE told' # told
      BY <1>0, <1>1, <2>1, <3>2
    <3> QED
      BY <3>1, <3>2
  <2>4. \A q \in Runs : client'[q] = "failed" => conn[q] = <<>> \/ Shares(q)
    BY <1>0, <1>1
  <2> QED
    BY <1>1, <2>1, <2>2, <2>3, <2>4
<1>2. ASSUME NEW r \in Runs, Connects(r) PROVE WhyGone'
  <2>1. /\ port \in Runs /\ server[port] = "listening"
        /\ client[r] = "connect" /\ client'[r] \in {"connect", "work"}
        /\ Range(conn'[r]) = Range(conn[r]) \cup {port}
        /\ \A q \in Runs \ {r} : conn'[q] = conn[q] /\ client'[q] = client[q]
        /\ UNCHANGED <<server, told>>
    BY <1>2, ConnectsDoes
  <2>2. \A q, s \in Runs : Reaches(q, s) => Reaches(q, s)'
    BY <2>1
  <2>3. \A q, s \in Runs : Reaches(q, s)' => Reaches(q, s) \/ s = port
    BY <2>1
  <2>4. \A q \in Runs : /\ client[q] = "reported" <=> client'[q] = "reported"
                        /\ client[q] = "failed" <=> client'[q] = "failed"
    BY <2>1
  <2>5. \A q \in Runs : Shares(q) => Shares(q)'
    BY <2>1
  <2>6. told \subseteq Runs
    BY DEF Typed, TypeOK
  <2>7. \A q \in Runs : client'[q] = "failed" => conn'[q] = <<>> \/ Shares(q)'
    BY <2>1, <2>4, <2>5
  <2> QED
    BY <2>1, <2>2, <2>3, <2>4, <2>6, <2>7
\* A server takes a step.
<1>3. ASSUME NEW s \in Runs, NEW point \in {"listening", "gone"},
             server' = [server EXCEPT ![s] = point],
             \/ server[s] = "starting"
             \/ \E q \in Runs : Ended(q) /\ Reaches(q, s),
             UNCHANGED <<client, conn, told>>
      PROVE  WhyGone'
  BY <1>0, <1>3
<1>4. ASSUME NEW r \in Runs, Start(r) \/ Confirm(r) \/ Collects(r) PROVE WhyGone'
  <2>1. CASE Start(r)
    <3>1. PICK begun \in {"none", "starting"} :
            /\ client[r] = "new" /\ client' = [client EXCEPT ![r] = "prompt"]
            /\ server' = [server EXCEPT ![r] = begun]
            /\ UNCHANGED <<conn, told>>
      BY <2>1 DEF Start, Goes
    <3>2. server[r] = "none"
      BY <3>1 DEF Typed, Progress
    <3> QED
      BY <1>1, <3>1, <3>2
  <2>2. CASE Confirm(r) \/ Collects(r)
    BY <1>1, <2>2 DEF Confirm, ConfirmsWhen, Collects, Goes
  <2> QED
    BY <1>4, <2>1, <2>2
<1>5. ASSUME NEW r \in Runs, ConnectFails(r) \/ Breaks(r) PROVE WhyGone'
  <2>1. /\ client' = [client EXCEPT ![r] = "failed"] /\ ~Ended(r)
        /\ UNCHANGED <<server, conn, told>>
    BY <1>5 DEF ConnectFails, Breaks, Fails, Goes
  <2> QED
    BY <1>1, <1>5, <2>1, FailsShared
<1>6. ASSUME NEW r \in Runs, Kills(r) PROVE WhyGone'
  <2>1. /\ client[r] = "kill" /\ told' = told \cup {conn[r][1]}
        /\ client' = [client EXCEPT ![r] = "reported"]
        /\ UNCHANGED <<server, conn>>
    BY <1>6 DEF Kills, Says, Goes
  <2>2. conn[r][1] \in Runs /\ Reaches(r, conn[r][1])
    BY <2>1, Channels
  <2> QED
    BY <1>1, <2>1, <2>2
<1>7. ASSUME NEW s \in Runs, Binds(s) \/ BindFails(s) PROVE WhyGone'
  BY <1>3, <1>7 DEF Binds, BindsWhen, BindFails
<1>8. ASSUME NEW s \in Runs, Exits(s) \/ Dropped(s) PROVE WhyGone'
  <2>1. /\ server' = [server EXCEPT ![s] = "gone"]
        /\ UNCHANGED <<client, conn, told>>
    BY <1>8 DEF Exits, Dropped, Ends
  <2>2. \E q \in Runs : Ended(q) /\ Reaches(q, s)
    BY <1>8 DEF Exits, Dropped
  <2> QED
    BY <1>3, <2>1, <2>2
<1>9. CASE PortFrees \/ UNCHANGED vars
  BY <1>9 DEF PortFrees, vars
<1> QED
  BY <1>2, <1>4, <1>5, <1>6, <1>7, <1>8, <1>9 DEF Next, Proceeds

(***************************************************************************)
(* As long as all users heed the program, one run after another has the    *)
(* port, whichever action comes next.                                      *)
(***************************************************************************)
LEMMA InTurnStep ==
  Typed /\ WhyGone /\ (heeded => InTurn) /\ [Next]_vars => (heeded' => InTurn')
<1> SUFFICES ASSUME Typed, WhyGone, heeded => InTurn, [Next]_vars, heeded'
             PROVE  InTurn'
  OBVIOUS
<1>0. /\ client \in [Runs -> {"new", "prompt", "connect", "work", "kill",
                              "reported", "failed"}]
      /\ server \in [Runs -> {"none", "starting", "listening", "gone"}]
      /\ \A r \in Runs : port = r <=> server[r] = "listening"
      /\ Free \notin Runs
  BY PortAssumption DEF Typed, TypeOK
<1>1. heeded /\ InTurn
  BY DEF Next, Start, Confirm, ConfirmsWhen, Proceeds, Connects, ConnectFails,
         Breaks, Fails, Collects, Kills, Says, Binds, BindsWhen, BindFails,
         Exits, Dropped, Ends, PortFrees, vars
<1> USE DEF InTurn, Active
\* A client takes a step on its way.
<1>2. ASSUME NEW r \in Runs, NEW point \in {"connect", "work", "kill", "reported"},
             Active(r), client' = [client EXCEPT ![r] = point],
             server[r] = "listening", UNCHANGED <<server, conn, port>>
      PROVE  InTurn'
  BY <1>0, <1>1, <1>2
<1>3. ASSUME NEW r \in Runs, Start(r) PROVE InTurn'
  <2>1. /\ client' = [client EXCEPT ![r] = "prompt"]
        /\ server' = [server EXCEPT ![r] = "starting"]
        /\ FreshStart /\ UNCHANGED <<conn, port>>
    BY <1>3 DEF Start, Goes
  <2>2. \A q \in Runs : ~Active(q)
    BY <2>1 DEF FreshStart, Ended
  <2>3. server[r] = "none" /\ client[r] = "new"
    BY <1>3 DEF Start, Typed, Progress
  <2> QED
    BY <1>0, <1>1, <2>1, <2>2, <2>3 DEF FreshStart
<1>4. ASSUME NEW r \in Runs, Confirm(r) PROVE InTurn'
  BY <1>1, <1>2, <1>4 DEF Confirm, ConfirmsWhen, Goes
<1>5. ASSUME NEW r \in Runs, Connects(r) PROVE InTurn'
  <2>1. /\ server[port] = "listening" /\ UNCHANGED <<server, port>>
        /\ client[r] = "connect" /\ client'[r] \in {"connect", "work"}
        /\ Range(conn'[r]) = Range(conn[r]) \cup {port}
        /\ \A q \in Runs \ {r} : conn'[q] = conn[q] /\ client'[q] = client[q]
    BY <1>5, ConnectsDoes
  <2>2. port = r /\ server[r] = "listening"
    BY <1>0, <1>1, <2>1
  <2> QED
    BY <1>0, <1>1, <2>1, <2>2
\* Nothing fails: the server of a run on its way is there.
<1>6. ASSUME NEW r \in Runs PROVE ~ConnectFails(r) /\ ~Breaks(r)
  <2>1. ~ConnectFails(r)
    BY <1>0, <1>1 DEF ConnectFails
  <2>2. \A s \in Runs : Reaches(r, s) => s = r
    BY <1>1 DEF Reaches
  <2>3. ASSUME Breaks(r) PROVE FALSE
    <3>1. client[r] \in {"connect", "work", "kill"}
      BY <2>3 DEF Breaks
    <3>2. server[r] = "listening"
      BY <1>1, <3>1
    <3> QED
      BY <2>2, <2>3, <3>2, Channels DEF Breaks, Lost
  <2> QED
    BY <2>1, <2>3
<1>7. ASSUME NEW r \in Runs, Collects(r) \/ Kills(r) PROVE InTurn'
  <2>1. client[r] \in {"work", "kill"} /\ UNCHANGED <<server, conn, port>>
    BY <1>7 DEF Collects, Kills, Says
  <2>2. Active(r) /\ server[r] = "listening"
    BY <1>1, <2>1
  <2> QED
    BY <1>2, <1>7, <2>1, <2>2 DEF Collects, Kills, Says, Goes
<1>8. ASSUME NEW s \in Runs, Binds(s) \/ BindFails(s) PROVE InTurn'
  <2>1. server[s] = "starting" /\ UNCHANGED <<client, conn>>
    BY <1>8 DEF Binds, BindsWhen, BindFails
  <2>2. client[s] = "prompt" /\ port = Free
    BY <1>0, <1>1, <2>1 DEF Typed, Progress
  <2>3. server' = [server EXCEPT ![s] = "listening"]
    BY <1>8, <2>2 DEF Binds, BindsWhen, BindFails
  <2> QED
    BY <1>0, <1>1, <2>1, <2>2, <2>3
<1>9. ASSUME NEW s \in Runs, Exits(s) \/ Dropped(s) PROVE InTurn'
  <2>1. server[s] = "listening" /\ server' = [server EXCEPT ![s] = "gone"]
        /\ port' \in {Free, Busy} /\ UNCHANGED <<client, conn>>
    BY <1>9 DEF Exits, Dropped, Ends
  <2>2. s \in told
    BY <1>1, <1>9 DEF Exits, Dropped
  <2>3. PICK q \in Runs : client[q] = "reported" /\ Reaches(q, s)
    BY <2>2 DEF WhyGone
  <2>4. client[s] = "reported"
    BY <1>1, <2>3 DEF Reaches
  <2>5. \A r \in Runs : ~(client[r] = "prompt" /\ server[r] = "starting" /\ port = Free)
    BY <1>0, <2>1
  <2> QED
    BY <1>0, <1>1, <2>1, <2>4, <2>5
<1>10. CASE PortFrees \/ UNCHANGED vars
  BY <1>1, <1>10 DEF PortFrees, vars
<1> QED
  BY <1>3, <1>4, <1>5, <1>6, <1>7, <1>8, <1>9, <1>10 DEF Next, Proceeds

(***************************************************************************)
(* A run fails only if no server was there when it began to connect, or if *)
(* another run used a server of its own; and not at all, with its own      *)
(* server at the other end, if all users do what the program asks.         *)
(***************************************************************************)
THEOREM FailsWithReason == Spec => []FailsForAReason
<1>1. Typed /\ WhyGone /\ (heeded => InTurn) => FailsForAReason
  BY DEF WhyGone, InTurn, FailsForAReason
<1>2. IInv /\ [Next]_vars => IInv'
  BY TypedStep, WhyGoneStep, InTurnStep DEF IInv
<1>3. IInv => FailsForAReason
  BY <1>1 DEF IInv
<1> QED
  BY IInvInit, <1>2, <1>3, PTL DEF Spec
=============================================================================
