------------------------------- MODULE Server -------------------------------
(***************************************************************************)
(* The server process (server.c and the two ends of request_handler.c):    *)
(* the main thread selects, accepts and reads, the workers of the pool     *)
(* answer, and g_client_mutex protects the list of descriptors that the    *)
(* main thread walks and that a broadcast sends to.  A job carries the     *)
(* descriptor its message came from, not the connection.                   *)
(*                                                                         *)
(* What a handler does to the database is the business of other modules;   *)
(* here it may broadcast a rare unboxing, and it answers.                  *)
(***************************************************************************)
EXTENDS ThreadPool, Functions

CONSTANTS
  Clients,      \* client programs, each with at most one connection
  Nobody,       \* marks a descriptor that is not open
  MaxClients,   \* MAX_CLIENTS
  Leaving,      \* TRUE iff clients may close their connection
  Signals       \* TRUE iff SIGINT or SIGTERM may arrive

(* The numbers accept can return, lowest first, and select's name for the  *)
(* listening socket.                                                       *)
Descriptors == 1 .. Cardinality(Clients)
Listener == 0
Marked == -1

ASSUME ServerAssumption ==
  /\ IsFiniteSet(Clients)
  /\ Nobody \notin Clients
  /\ Jobs = Descriptors \X Clients
  /\ MaxClients \in Nat \ {0}
  /\ Leaving \in BOOLEAN
  /\ Signals \in BOOLEAN

VARIABLES
  running,    \* server_running
  main,       \* where the main thread is
  read_fds,   \* what it gave to select, then what select left of it
  fds,        \* g_client_fds up to g_client_count
  index,      \* the i of the loops over fds
  kept,       \* write_idx, how many entries the second loop has kept
  open,       \* the client at the other end of each descriptor
  peer,       \* the client's end of its connection
  inbox,      \* how much of a message the server has not read
  awaiting,   \* the client has asked and waits for the answer
  handler,    \* what is left to do for the job of a worker
  alive       \* the process exists

server == <<running, main, read_fds, fds, index, kept, open, peer, inbox,
            awaiting, handler, alive>>
loops == <<index, kept>>
sockets == <<open, peer, inbox, awaiting>>
everything == <<pool, server>>

MainStates == {"loop", "select", "accept", "clients", "adding", "cleaning",
               "stopping"}

(* connecting: in the backlog of the listening socket.  left: the client   *)
(* has closed, the server has not noticed.                                 *)
PeerStates == {"away", "connecting", "connected", "left"}

(* The main thread walks the list, reads, adds jobs and closes the gaps    *)
(* under the mutex.                                                        *)
ClientMutexFree == main \notin {"clients", "adding", "cleaning"}

MainAt(label) ==
  /\ alive
  /\ main = label
  /\ caller = "idle"

-----------------------------------------------------------------------------
(* main *)

(* Mutant of BuildSet: the loop over the clients ends one too early. *)
BuildSetButLast ==
  /\ MainAt("loop")
  /\ running
  /\ read_fds' = {Listener} \cup {fds[i] : i \in 1 .. Len(fds) - 1}
  /\ main' = "select"
  /\ UNCHANGED <<pool, running, fds, loops, sockets, handler, alive>>

BuildSet ==
  /\ MainAt("loop")
  /\ running
  /\ read_fds' = {Listener} \cup (Range(fds) \ {Marked})
  /\ main' = "select"
  /\ UNCHANGED <<pool, running, fds, loops, sockets, handler, alive>>

Readable(d) ==
  IF d = Listener THEN \E c \in Clients : peer[c] = "connecting"
  ELSE peer[open[d]] = "left" \/ inbox[open[d]] # "empty"

(* Mutant of Select: the sets are not looked at again. *)
SelectAll ==
  /\ MainAt("select")
  /\ main' = "accept"
  /\ UNCHANGED <<pool, running, read_fds, fds, loops, sockets, handler, alive>>

(* select returns with what is readable by now, or with nothing after its  *)
(* timeout of a second.                                                    *)
Select ==
  /\ MainAt("select")
  /\ read_fds' = {d \in read_fds : Readable(d)}
  /\ main' = "accept"
  /\ UNCHANGED <<pool, running, fds, loops, sockets, handler, alive>>

(* signal_handler.  A signal that arrives inside select makes it fail with *)
(* EINTR, which the loop tolerates; the sets are then as they were.        *)
Signal ==
  /\ Signals
  /\ alive
  /\ running
  /\ running' = FALSE
  /\ \/ main = "select" /\ main' = "accept"
     \/ UNCHANGED main
  /\ UNCHANGED <<pool, read_fds, fds, loops, sockets, handler, alive>>

NoConnection ==
  /\ MainAt("accept")
  /\ Listener \notin read_fds
  /\ main' = "clients"
  /\ UNCHANGED <<pool, running, read_fds, fds, loops, sockets, handler, alive>>

LowestFree ==
  CHOOSE d \in Descriptors :
    /\ open[d] = Nobody
    /\ \A e \in Descriptors : open[e] = Nobody => d <= e

(* Mutant of HasRoom: one client more than the array holds. *)
HasRoomForOneMore == Len(fds) <= MaxClients

HasRoom == Len(fds) < MaxClients

(* accept blocks while nobody connects; one client too many is closed.     *)
AcceptConnection ==
  /\ MainAt("accept")
  /\ Listener \in read_fds
  /\ \E c \in Clients :
       /\ peer[c] = "connecting"
       /\ IF HasRoom
          THEN /\ fds' = Append(fds, LowestFree)
               /\ open' = [open EXCEPT ![LowestFree] = c]
               /\ peer' = [peer EXCEPT ![c] = "connected"]
               /\ UNCHANGED <<inbox, awaiting>>
          ELSE /\ peer' = [peer EXCEPT ![c] = "away"]
               /\ inbox' = [inbox EXCEPT ![c] = "empty"]
               /\ awaiting' = [awaiting EXCEPT ![c] = FALSE]
               /\ UNCHANGED <<fds, open>>
  /\ main' = "clients"
  /\ UNCHANGED <<pool, running, read_fds, loops, handler, alive>>

(* The next descriptor of the list, when select has reported it. *)
Reading(d) ==
  /\ MainAt("clients")
  /\ index <= Len(fds)
  /\ d = fds[index]
  /\ d \in read_fds

SkipClient ==
  /\ MainAt("clients")
  /\ index <= Len(fds)
  /\ fds[index] \notin read_fds
  /\ index' = index + 1
  /\ UNCHANGED <<pool, running, main, read_fds, fds, kept, sockets, handler, alive>>

(* Mutant of ReceiveMessage: the message stays in the socket. *)
ReceivePeek ==
  /\ \E d \in Descriptors :
       /\ Reading(d)
       /\ inbox[open[d]] = "whole"
       /\ AddJob(<<d, open[d]>>)
  /\ main' = "adding"
  /\ UNCHANGED <<running, read_fds, fds, loops, sockets, handler, alive>>

(* Mutant of ReceiveMessage: the job carries the descriptor of another. *)
ReceiveForLast ==
  /\ \E d \in Descriptors :
       /\ Reading(d)
       /\ inbox[open[d]] = "whole"
       /\ AddJob(<<fds[Len(fds)], open[d]>>)
       /\ inbox' = [inbox EXCEPT ![open[d]] = "empty"]
  /\ main' = "adding"
  /\ UNCHANGED <<running, read_fds, fds, loops, open, peer, awaiting, handler,
                 alive>>

(* receive_message has the whole message.  It waits for the rest of a      *)
(* partial one, and for a message that has not begun.                      *)
ReceiveMessage ==
  /\ \E d \in Descriptors :
       /\ Reading(d)
       /\ inbox[open[d]] = "whole"
       /\ AddJob(<<d, open[d]>>)
       /\ inbox' = [inbox EXCEPT ![open[d]] = "empty"]
  /\ main' = "adding"
  /\ UNCHANGED <<running, read_fds, fds, loops, open, peer, awaiting, handler,
                 alive>>

(* thread_pool_add_job has returned. *)
JobAdded ==
  /\ MainAt("adding")
  /\ main' = "clients"
  /\ index' = index + 1
  /\ UNCHANGED <<pool, running, read_fds, fds, kept, sockets, handler, alive>>

(* receive_message meets the end of the connection. *)
ConnectionClosed ==
  /\ \E d \in Descriptors :
       /\ Reading(d)
       /\ peer[open[d]] = "left"
       /\ inbox[open[d]] # "whole"
       /\ fds' = [fds EXCEPT ![index] = Marked]
       /\ open' = [open EXCEPT ![d] = Nobody]
       /\ peer' = [peer EXCEPT ![open[d]] = "away"]
       /\ inbox' = [inbox EXCEPT ![open[d]] = "empty"]
  /\ index' = index + 1
  /\ UNCHANGED <<pool, running, main, read_fds, kept, awaiting, handler, alive>>

CleanUp ==
  /\ MainAt("clients")
  /\ index > Len(fds)
  /\ main' = "cleaning"
  /\ index' = 1
  /\ kept' = 0
  /\ UNCHANGED <<pool, running, read_fds, fds, sockets, handler, alive>>

(* Mutant of KeepEntry: counted, but not moved. *)
KeepInPlace ==
  /\ MainAt("cleaning")
  /\ index <= Len(fds)
  /\ kept' = IF fds[index] # Marked THEN kept + 1 ELSE kept
  /\ index' = index + 1
  /\ UNCHANGED <<pool, running, main, read_fds, fds, sockets, handler, alive>>

(* The entries that are left move to the front, in place; the variables of *)
(* both loops end with the loops.                                          *)
KeepEntry ==
  /\ MainAt("cleaning")
  /\ index <= Len(fds)
  /\ IF fds[index] # Marked
     THEN fds' = [fds EXCEPT ![kept + 1] = fds[index]] /\ kept' = kept + 1
     ELSE UNCHANGED <<fds, kept>>
  /\ index' = index + 1
  /\ UNCHANGED <<pool, running, main, read_fds, sockets, handler, alive>>

EndCleanUp ==
  /\ MainAt("cleaning")
  /\ index > Len(fds)
  /\ fds' = SubSeq(fds, 1, kept)
  /\ index' = 1
  /\ kept' = 0
  /\ main' = "loop"
  /\ UNCHANGED <<pool, running, read_fds, sockets, handler, alive>>

Stop ==
  /\ MainAt("loop")
  /\ ~running
  /\ Shutdown
  /\ main' = "stopping"
  /\ UNCHANGED <<running, read_fds, fds, loops, sockets, handler, alive>>

-----------------------------------------------------------------------------
(* The workers, from the job taken to the answer. *)

TakeRequest(w) ==
  /\ alive
  /\ TakeJob(w)
  /\ \E todo \in {"broadcast", "respond"} :
       handler' = [handler EXCEPT ![w] = todo]
  /\ UNCHANGED <<running, main, read_fds, fds, loops, sockets, alive>>

(* broadcast_to_all_clients: what is sent nobody waits for, and a client   *)
(* that has left does no harm (MSG_NOSIGNAL).                              *)
Broadcast(w) ==
  /\ alive
  /\ handler[w] = "broadcast"
  /\ ClientMutexFree
  /\ handler' = [handler EXCEPT ![w] = "respond"]
  /\ UNCHANGED <<pool, running, main, read_fds, fds, loops, sockets, alive>>

(* send_response goes to whoever is at the descriptor by now; a descriptor *)
(* that is closed is an error nobody looks at.                             *)
Respond(w) ==
  /\ alive
  /\ handler[w] = "respond"
  /\ FinishJob(w)
  /\ handler' = [handler EXCEPT ![w] = "none"]
  /\ awaiting' = [c \in Clients |-> /\ awaiting[c]
                                    /\ \/ open[job[w][1]] # c
                                       \/ peer[c] = "left"]
  /\ UNCHANGED <<running, main, read_fds, fds, loops, open, peer, inbox, alive>>

(* Sending to a client that has left may raise SIGPIPE, which nobody       *)
(* handles: the process ends.                                              *)
BrokenPipe(w) ==
  /\ alive
  /\ handler[w] = "respond"
  /\ \E c \in Clients : open[job[w][1]] = c /\ peer[c] = "left"
  /\ alive' = FALSE
  /\ UNCHANGED <<pool, running, main, read_fds, fds, loops, sockets, handler>>

-----------------------------------------------------------------------------
(* The clients: network_client.c waits for each answer before it asks      *)
(* again.                                                                  *)

Connect(c) ==
  /\ alive
  /\ main # "stopping"
  /\ peer[c] = "away"
  /\ peer' = [peer EXCEPT ![c] = "connecting"]
  /\ UNCHANGED <<pool, running, main, read_fds, fds, loops, open, inbox,
                 awaiting, handler, alive>>

(* A bound: a socket holds one message at a time.  It matters only to a    *)
(* client that took the answer to somebody else for its own.               *)
SendHeader(c) ==
  /\ alive
  /\ peer[c] \in {"connecting", "connected"}
  /\ ~awaiting[c]
  /\ inbox[c] = "empty"
  /\ inbox' = [inbox EXCEPT ![c] = "header"]
  /\ awaiting' = [awaiting EXCEPT ![c] = TRUE]
  /\ UNCHANGED <<pool, running, main, read_fds, fds, loops, open, peer,
                 handler, alive>>

SendPayload(c) ==
  /\ alive
  /\ peer[c] \in {"connecting", "connected"}
  /\ inbox[c] = "header"
  /\ inbox' = [inbox EXCEPT ![c] = "whole"]
  /\ UNCHANGED <<pool, running, main, read_fds, fds, loops, open, peer,
                 awaiting, handler, alive>>

(* disconnect_from_server, or the end of the client program. *)
Leave(c) ==
  /\ Leaving
  /\ alive
  /\ peer[c] = "connected"
  /\ peer' = [peer EXCEPT ![c] = "left"]
  /\ awaiting' = [awaiting EXCEPT ![c] = FALSE]
  /\ UNCHANGED <<pool, running, main, read_fds, fds, loops, open, inbox,
                 handler, alive>>

-----------------------------------------------------------------------------
ServerInit ==
  /\ Init
  /\ running = TRUE
  /\ main = "loop"
  /\ read_fds = {}
  /\ fds = << >>
  /\ index = 1
  /\ kept = 0
  /\ open = [d \in Descriptors |-> Nobody]
  /\ peer = [c \in Clients |-> "away"]
  /\ inbox = [c \in Clients |-> "empty"]
  /\ awaiting = [c \in Clients |-> FALSE]
  /\ handler = [w \in Workers |-> "none"]
  /\ alive = TRUE

(* The steps of the pool that are no business of the server's. *)
PoolCaller == alive /\ Caller /\ UNCHANGED server
PoolWorker(w) ==
  /\ alive
  /\ Check(w) \/ Wait(w) \/ Exit(w)
  /\ UNCHANGED server

Main == \/ BuildSet \/ Select \/ NoConnection \/ AcceptConnection
        \/ SkipClient \/ ReceiveMessage \/ JobAdded \/ ConnectionClosed
        \/ CleanUp \/ KeepEntry \/ EndCleanUp \/ Stop

Serve(w) == PoolWorker(w) \/ TakeRequest(w) \/ Broadcast(w) \/ Respond(w)

Client(c) == Connect(c) \/ SendHeader(c) \/ SendPayload(c) \/ Leave(c)

ServerNext ==
  \/ Main \/ PoolCaller \/ Signal
  \/ \E w \in Workers : Serve(w) \/ BrokenPipe(w)
  \/ \E c \in Clients : Client(c)

ServerSpec == ServerInit /\ [][ServerNext]_everything

(* The threads are scheduled and get the mutexes they wait for in the end, *)
(* and a client that has sent a header sends the payload.                  *)
ServerFairSpec ==
  /\ ServerSpec
  /\ WF_everything(Main)
  /\ SF_everything(PoolCaller)
  /\ \A w \in Workers : SF_everything(Serve(w))
  /\ \A c \in Clients : WF_everything(SendPayload(c))

-----------------------------------------------------------------------------
(* Properties *)

(* The server's own variables keep their types; the pool's are the pool's  *)
(* TypeOK.                                                                 *)
ServerTypeOK ==
  /\ TypeOK
  /\ running \in BOOLEAN
  /\ main \in MainStates
  /\ read_fds \subseteq Descriptors \cup {Listener}
  /\ fds \in Seq(Descriptors \cup {Marked})
  /\ Len(fds) <= MaxClients
  /\ index \in 1 .. MaxClients + 1
  /\ kept \in 0 .. MaxClients
  /\ open \in [Descriptors -> Clients \cup {Nobody}]
  /\ peer \in [Clients -> PeerStates]
  /\ inbox \in [Clients -> {"empty", "header", "whole"}]
  /\ awaiting \in [Clients -> BOOLEAN]
  /\ handler \in [Workers -> {"none", "broadcast", "respond"}]
  /\ alive \in BOOLEAN

(* The entries of the list that count: all but, while the gaps are being   *)
(* closed, those between what is kept and what is still to be looked at.   *)
Entries == IF main = "cleaning" THEN 1 .. kept \cup index .. Len(fds)
                                ELSE 1 .. Len(fds)

(* The list holds every open descriptor once and none that is closed,      *)
(* although a number is given out again as soon as it is closed and the    *)
(* gaps are closed in place: no client is read twice in a round,           *)
(* forgotten, or closed in place of another.                               *)
RegisteredOnce ==
  /\ \A i, j \in Entries : fds[i] = fds[j] /\ fds[i] # Marked => i = j
  /\ {fds[i] : i \in Entries} \ {Marked} = {d \in Descriptors : open[d] # Nobody}

(* Until it is told to stop, the main thread reads only a client that has  *)
(* sent something or has left: it never waits for an idle client while it  *)
(* holds the mutex, and accept never blocks.                               *)
ReadsOnlyReady ==
  running =>
    /\ main = "accept" /\ Listener \in read_fds => Readable(Listener)
    /\ \A d \in Descriptors : Reading(d) => Readable(d)

(* The requests of client c that are on their way: in its socket, with the *)
(* main thread, in the queue, with a worker.                               *)
OnTheWay(c) ==
  Cardinality({x \in {c} : inbox[x] # "empty"})
  + Cardinality({x \in {c} : caller \in {"adding", "waiting"} /\ request[2] = x})
  + Cardinality({i \in 1 .. count : Pending[i][2] = c})
  + Cardinality({w \in Workers : worker[w] = "handling" /\ job[w][2] = c})

(* While clients stay, one waits for an answer exactly as long as one      *)
(* request of its own is on its way: none is dropped, served twice, or     *)
(* answered to somebody else.                                              *)
OneRequestEach ==
  \A c \in Clients : OnTheWay(c) = IF awaiting[c] THEN 1 ELSE 0

(* Job j is with the main thread, in the queue or with a worker. *)
InFlight(j) ==
  \/ caller \in {"adding", "waiting"} /\ request = j
  \/ \E i \in 1 .. count : Pending[i] = j
  \/ \E w \in Workers : worker[w] = "handling" /\ job[w] = j

(* A descriptor may be closed and given to the next client while jobs that *)
(* carry its number wait, and their answers then go to that client.  Even  *)
(* so nobody who waits is forgotten: what a client has asked is in its     *)
(* socket, or in a job that carries the descriptor the client has now, so  *)
(* that an answer to it is still to come.                                  *)
NoWaiterForgotten ==
  \A c \in Clients :
    awaiting[c] =>
      \/ inbox[c] # "empty"
      \/ \E d \in Descriptors : open[d] = c /\ InFlight(<<d, c>>)

(* A client that asks and stays gets its answer, whatever others ask and   *)
(* whatever is broadcast.                                                  *)
Answered == \A c \in Clients : awaiting[c] ~> ~awaiting[c]

(* A main thread that finds the queue full goes on ("Queue full or         *)
(* shutdown, close connection").                                           *)
FullQueueReturns == caller = "waiting" ~> caller # "waiting" \/ ~alive
=============================================================================
