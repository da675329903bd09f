----------------------------- MODULE ServerProofs -----------------------------
(***************************************************************************)
(* Theorems about Server for every number of clients and workers, every    *)
(* length of the list of clients and of the queue: the list is exact, the  *)
(* main thread waits for nobody while it holds the mutex, no client that   *)
(* waits is forgotten, and while clients stay each has one answer to come. *)
(***************************************************************************)
EXTENDS Server, ThreadPoolProofs, WellFoundedInduction

-----------------------------------------------------------------------------
(* Descriptors.                                                            *)

LEMMA ClientCount == Cardinality(Clients) \in Nat
BY ServerAssumption, FS_CardinalityType

LEMMA DescriptorFacts ==
  /\ Descriptors \subseteq Nat \ {0}
  /\ Marked \notin Descriptors /\ Listener \notin Descriptors
  /\ IsFiniteSet(Descriptors) /\ Cardinality(Descriptors) = Cardinality(Clients)
<1>1. IsFiniteSet(Descriptors) /\ Cardinality(Descriptors) = Cardinality(Clients)
  BY ClientCount, FS_Interval DEF Descriptors
<1> QED
  BY <1>1, ClientCount DEF Descriptors, Marked, Listener

LEMMA Least ==
  ASSUME NEW T \in SUBSET Nat, T # {}
  PROVE  \E x \in T : \A y \in T : x <= y
<1>1. PICK x \in T : \A y \in T : <<y, x>> \notin OpToRel(<, Nat)
  BY NatLessThanWellFounded, WFMin
<1>2. \A y \in T : y < x => <<y, x>> \in OpToRel(<, Nat)
  BY DEF OpToRel
<1>3. \A y \in T : ~(y < x) => x <= y
  OBVIOUS
<1> QED
  BY <1>1, <1>2, <1>3

-----------------------------------------------------------------------------
(* The inductive invariant.                                                *)

At(labels) == main \in labels

(* Between the loops no closed descriptor is in the list; in them index and *)
(* kept stay inside it, and the entry that is read is still there.          *)
Loops ==
  /\ At({"loop", "select", "accept", "stopping"}) => index = 1
  /\ At({"adding"}) => index <= Len(fds)
  /\ At({"cleaning"}) => kept < index
  /\ index <= Len(fds) + 1

(* A connection has one descriptor, which is open until the server has      *)
(* noticed that the client has left.                                        *)
Connections ==
  /\ \A d \in Descriptors : open[d] # Nobody => peer[open[d]] \in {"connected", "left"}
  /\ \A d, e \in Descriptors : open[d] = open[e] /\ open[d] # Nobody => d = e

(* What select is given is in the list. *)
Watched == At({"select", "accept"}) => read_fds \subseteq {Listener} \cup Range(fds)

(* The entries that the loop over the clients has still to look at. *)
ToRead == {i \in 1 .. Len(fds) : i > index \/ (i = index /\ ~At({"adding"}))}

(* What select has reported stays readable until it is read. *)
StaysReadable ==
  running =>
    /\ At({"accept"}) /\ Listener \in read_fds => Readable(Listener)
    /\ At({"accept", "clients", "adding"}) =>
         \A i \in ToRead : fds[i] \in read_fds \ {Listener} => Readable(fds[i])

ServerInv ==
  /\ PoolInv
  /\ ServerTypeOK
  /\ Loops
  /\ Connections
  /\ Watched
  /\ RegisteredOnce
  /\ StaysReadable

LEMMA EntryIsOpen ==
  ASSUME ServerInv, NEW i \in Entries, fds[i] # Marked
  PROVE  /\ fds[i] \in Descriptors
         /\ open[fds[i]] \in Clients
BY DEF ServerInv, ServerTypeOK, RegisteredOnce

LEMMA ReadingIsOpen ==
  ASSUME ServerInv, NEW d \in Descriptors, Reading(d)
  PROVE  /\ index \in 1 .. Len(fds) /\ fds[index] = d
         /\ open[d] \in Clients
<1>1. index \in Entries /\ fds[index] = d /\ index \in 1 .. Len(fds)
  BY DEF Reading, MainAt, Entries, ServerInv, ServerTypeOK
<1> QED
  BY <1>1, EntryIsOpen, DescriptorFacts

(* accept finds a descriptor: the client that connects has none yet. *)
LEMMA DescriptorLeft ==
  ASSUME ServerInv, NEW c \in Clients, peer[c] = "connecting"
  PROVE  /\ LowestFree \in Descriptors
         /\ open[LowestFree] = Nobody
<1> DEFINE Free == {d \in Descriptors : open[d] = Nobody}
           f == [d \in Descriptors |-> open[d]]
<1>1. Free # {}
  <2> SUFFICES ASSUME Free = {} PROVE FALSE
    OBVIOUS
  <2>1. \A d \in Descriptors : open[d] \in Clients \ {c}
    BY DEF ServerInv, ServerTypeOK, Connections
  <2>2. f \in Injection(Descriptors, Clients \ {c})
    BY <2>1 DEF Injection, IsInjective, ServerInv, Connections
  <2>3. /\ IsFiniteSet(Clients \ {c})
        /\ Cardinality(Clients \ {c}) = Cardinality(Clients) - 1
    BY ServerAssumption, FS_RemoveElement
  <2>4. Cardinality(Descriptors) <= Cardinality(Clients) - 1
    BY <2>2, <2>3, FS_Injection
  <2> QED
    BY <2>4, DescriptorFacts, ClientCount
<1>2. \E d \in Free : \A e \in Free : d <= e
  BY <1>1, Least, DescriptorFacts
<1>3. \E d \in Descriptors :
         /\ open[d] = Nobody
         /\ \A e \in Descriptors : open[e] = Nobody => d <= e
  BY <1>2
<1> QED
  BY <1>3 DEF LowestFree

-----------------------------------------------------------------------------
(* The pool below the server.                                              *)

LEMMA PoolBelow ==
  ASSUME ServerInv, [ServerNext]_everything
  PROVE  [Next]_pool
<1>1. CASE \/ BuildSet \/ Select \/ NoConnection \/ AcceptConnection
           \/ SkipClient \/ JobAdded \/ ConnectionClosed
           \/ CleanUp \/ KeepEntry \/ EndCleanUp \/ Signal
           \/ \E c \in Clients : Client(c)
           \/ \E w \in Workers : Broadcast(w) \/ BrokenPipe(w)
           \/ UNCHANGED everything
  BY <1>1 DEF BuildSet, Select, NoConnection, AcceptConnection, SkipClient, JobAdded,
     ConnectionClosed, CleanUp, KeepEntry, EndCleanUp, Signal, Client, Connect,
     SendHeader, SendPayload, Leave, Broadcast, BrokenPipe, everything, pool
<1>2. CASE ReceiveMessage
  <2>1. PICK d \in Descriptors : Reading(d) /\ AddJob(<<d, open[d]>>)
    BY <1>2 DEF ReceiveMessage
  <2>2. <<d, open[d]>> \in Jobs
    BY <2>1, ReadingIsOpen, ServerAssumption
  <2> QED
    BY <2>1, <2>2 DEF Next, Asked
<1>3. CASE Stop \/ PoolCaller
  BY <1>3 DEF Stop, PoolCaller, Next, Asked
<1>4. CASE \E w \in Workers : PoolWorker(w) \/ TakeRequest(w) \/ Respond(w)
  BY <1>4 DEF PoolWorker, TakeRequest, Respond, Next, Worker
<1> QED
  BY <1>1, <1>2, <1>3, <1>4 DEF ServerNext, Main, Serve

(* What everybody but the main thread does: the list, the descriptors and  *)
(* the loops stay as they are, and what is readable stays readable.        *)
Quiet ==
  /\ UNCHANGED <<running, main, read_fds, fds, index, kept, open>>
  /\ \A d \in Descriptors :
       open[d] # Nobody => peer'[open[d]] \in {"connected", "left"}
  /\ \A c \in Clients :
       /\ peer[c] = "connecting" => peer'[c] = "connecting"
       /\ peer[c] = "left" => peer'[c] = "left"
       /\ inbox[c] # "empty" => inbox'[c] # "empty"

LEMMA QuietStep ==
  ASSUME ServerInv, Quiet, PoolInv', ServerTypeOK'
  PROVE  ServerInv'
<1>1. Loops' /\ Watched' /\ RegisteredOnce'
  BY DEF Quiet, ServerInv, Loops, Watched, At, RegisteredOnce, Entries
<1>2. Connections'
  BY DEF Quiet, ServerInv, Connections
<1>3. StaysReadable'
  <2>1. Readable(Listener) => Readable(Listener)'
    BY DEF Quiet, Readable
  <2>2. ASSUME NEW i \in ToRead, At({"accept", "clients", "adding"}),
               fds[i] \in read_fds \ {Listener}, Readable(fds[i])
        PROVE  Readable(fds[i])'
    <3>1. i \in Entries /\ fds[i] # Marked
      BY <2>2, DescriptorFacts DEF ToRead, Entries, At, ServerInv, ServerTypeOK
    <3>2. fds[i] \in Descriptors /\ open[fds[i]] \in Clients
      BY <3>1, EntryIsOpen
    <3> QED
      BY <2>2, <3>2, DescriptorFacts DEF Quiet, Readable
  <2>3. UNCHANGED <<running, main, read_fds, fds, index>>
    BY DEF Quiet
  <2> QED
    BY <2>1, <2>2, <2>3 DEF ServerInv, StaysReadable, ToRead, At
<1> QED
  BY <1>1, <1>2, <1>3 DEF ServerInv

LEMMA ClientStep ==
  ASSUME ServerInv, PoolInv', NEW c \in Clients, Client(c)
  PROVE  ServerInv'
<1> USE DEF ServerInv, ServerTypeOK, PoolInv
<1>1. Quiet /\ ServerTypeOK'
  <2>1. CASE Connect(c)
    BY <2>1 DEF Connect, Quiet, Connections, sockets, loops, PeerStates
  <2>2. CASE SendHeader(c)
    BY <2>2 DEF SendHeader, Quiet, Connections, sockets, loops, PeerStates
  <2>3. CASE SendPayload(c)
    BY <2>3 DEF SendPayload, Quiet, Connections, sockets, loops, PeerStates
  <2>4. CASE Leave(c)
    BY <2>4 DEF Leave, Quiet, Connections, sockets, loops, PeerStates
  <2> QED
    BY <2>1, <2>2, <2>3, <2>4 DEF Client
<1> QED
  BY <1>1, QuietStep

LEMMA ThreadStep ==
  ASSUME ServerInv, PoolInv',
         PoolCaller \/ \E w \in Workers : Serve(w) \/ BrokenPipe(w)
  PROVE  ServerInv'
<1> USE DEF ServerInv, ServerTypeOK, PoolInv
<1>1. Quiet /\ ServerTypeOK'
  <2>1. CASE PoolCaller \/ \E w \in Workers : PoolWorker(w)
    BY <2>1 DEF PoolCaller, PoolWorker, server, Quiet, Connections
  <2>2. ASSUME NEW w \in Workers, TakeRequest(w)
        PROVE  Quiet /\ ServerTypeOK'
    BY <2>2 DEF TakeRequest, sockets, loops, Quiet, Connections
  <2>3. ASSUME NEW w \in Workers, Broadcast(w)
        PROVE  Quiet /\ ServerTypeOK'
    BY <2>3 DEF Broadcast, sockets, loops, Quiet, Connections
  <2>4. ASSUME NEW w \in Workers, Respond(w)
        PROVE  Quiet /\ ServerTypeOK'
    BY <2>4 DEF Respond, sockets, loops, Quiet, Connections
  <2>5. ASSUME NEW w \in Workers, BrokenPipe(w)
        PROVE  Quiet /\ ServerTypeOK'
    BY <2>5 DEF BrokenPipe, sockets, loops, Quiet, Connections
  <2> QED
    BY <2>1, <2>2, <2>3, <2>4, <2>5 DEF Serve
<1> QED
  BY <1>1, QuietStep

-----------------------------------------------------------------------------
(* The main thread.                                                        *)

(* Between the loops the list is not touched.                              *)
LEMMA BuildStep ==
  ASSUME ServerInv, PoolInv', BuildSet
  PROVE  ServerInv'
<1> USE DEF ServerInv, PoolInv
<1>1. /\ UNCHANGED <<running, fds, index, kept, open, peer, inbox, awaiting, handler,
                     alive>>
      /\ main = "loop" /\ main' = "select"
      /\ read_fds' = {Listener} \cup (Range(fds) \ {Marked})
  BY DEF BuildSet, MainAt, sockets, loops
<1>2. ServerTypeOK'
  <2>1. Range(fds) \ {Marked} \subseteq Descriptors
    BY DEF ServerTypeOK, Range
  <2> QED
    BY <1>1, <2>1 DEF ServerTypeOK, MainStates
<1>3. Loops' /\ Connections' /\ RegisteredOnce'
  BY <1>1 DEF Loops, Connections, RegisteredOnce, Entries, At
<1>4. Watched' /\ StaysReadable'
  BY <1>1 DEF Watched, StaysReadable, At
<1> QED
  BY <1>2, <1>3, <1>4

LEMMA SelectStep ==
  ASSUME ServerInv, PoolInv', Select
  PROVE  ServerInv'
<1> USE DEF ServerInv, PoolInv
<1>1. /\ UNCHANGED <<running, fds, index, kept, open, peer, inbox, awaiting, handler,
                     alive>>
      /\ main = "select" /\ main' = "accept"
      /\ read_fds' = {d \in read_fds : Readable(d)}
  BY DEF Select, MainAt, sockets, loops
<1>2. ServerTypeOK'
  BY <1>1 DEF ServerTypeOK, MainStates
<1>3. Loops' /\ Connections' /\ RegisteredOnce' /\ Watched'
  BY <1>1 DEF Loops, Connections, RegisteredOnce, Entries, At, Watched
<1>4. StaysReadable'
  <2>1. \A d : Readable(d)' <=> Readable(d)
    BY <1>1 DEF Readable
  <2> QED
    BY <1>1, <2>1 DEF StaysReadable, At
<1> QED
  BY <1>2, <1>3, <1>4

LEMMA SignalStep ==
  ASSUME ServerInv, PoolInv', Signal
  PROVE  ServerInv'
<1> USE DEF ServerInv, PoolInv
<1>1. /\ UNCHANGED <<read_fds, fds, index, kept, open, peer, inbox, awaiting, handler,
                     alive>>
      /\ running' = FALSE
      /\ main' = main \/ (main = "select" /\ main' = "accept")
  BY DEF Signal, sockets, loops
<1>2. ServerTypeOK'
  BY <1>1 DEF ServerTypeOK, MainStates
<1>3. Loops' /\ Connections' /\ RegisteredOnce' /\ Watched'
  BY <1>1 DEF Loops, Connections, RegisteredOnce, Entries, At, Watched
<1>4. StaysReadable'
  BY <1>1 DEF StaysReadable
<1> QED
  BY <1>2, <1>3, <1>4

LEMMA StopStep ==
  ASSUME ServerInv, PoolInv', Stop
  PROVE  ServerInv'
<1> USE DEF ServerInv, PoolInv
<1>1. /\ UNCHANGED <<running, read_fds, fds, index, kept, open, peer, inbox, awaiting,
                     handler, alive>>
      /\ main = "loop" /\ main' = "stopping"
  BY DEF Stop, MainAt, sockets, loops
<1>2. ServerTypeOK'
  BY <1>1 DEF ServerTypeOK, MainStates
<1>3. Loops' /\ Connections' /\ RegisteredOnce' /\ Watched' /\ StaysReadable'
  BY <1>1 DEF Loops, Connections, RegisteredOnce, Entries, At, Watched, StaysReadable
<1> QED
  BY <1>2, <1>3

(* Without a connection the loop over the clients begins. *)
LEMMA NoConnectionStep ==
  ASSUME ServerInv, PoolInv', NoConnection
  PROVE  ServerInv'
<1> USE DEF ServerInv, PoolInv
<1>1. /\ UNCHANGED <<running, read_fds, fds, index, kept, open, peer, inbox, awaiting,
                     handler, alive>>
      /\ main = "accept" /\ main' = "clients"
  BY DEF NoConnection, MainAt, sockets, loops
<1>2. ServerTypeOK'
  BY <1>1 DEF ServerTypeOK, MainStates
<1>3. Loops' /\ Connections' /\ RegisteredOnce' /\ Watched'
  BY <1>1 DEF Loops, Connections, RegisteredOnce, Entries, At, Watched
<1>4. StaysReadable'
  <2>1. \A d : Readable(d)' <=> Readable(d)
    BY <1>1 DEF Readable
  <2>2. ToRead' = ToRead
    BY <1>1 DEF ToRead, At
  <2> QED
    BY <1>1, <2>1, <2>2 DEF StaysReadable, At
<1> QED
  BY <1>2, <1>3, <1>4

LEMMA SkipStep ==
  ASSUME ServerInv, PoolInv', SkipClient \/ JobAdded
  PROVE  ServerInv'
<1> USE DEF ServerInv, PoolInv
<1>1. /\ UNCHANGED <<running, read_fds, fds, kept, open, peer, inbox, awaiting,
                     handler, alive>>
      /\ index' = index + 1 /\ index <= Len(fds) /\ main' = "clients"
      /\ main \in {"clients", "adding"}
  BY DEF SkipClient, JobAdded, MainAt, sockets, Loops, At
<1>2. index \in Nat /\ Len(fds) \in Nat /\ MaxClients \in Nat
  BY ServerAssumption DEF ServerTypeOK
<1>3. ServerTypeOK'
  BY <1>1, <1>2 DEF ServerTypeOK, MainStates
<1>4. Connections' /\ RegisteredOnce' /\ Watched'
  BY <1>1 DEF Connections, RegisteredOnce, Entries, At, Watched
<1>5. Loops'
  BY <1>1, <1>2 DEF Loops, At
<1>6. StaysReadable'
  <2>1. \A d : Readable(d)' <=> Readable(d)
    BY <1>1 DEF Readable
  <2>2. ToRead' \subseteq ToRead
    BY <1>1, <1>2 DEF ToRead, At
  <2> QED
    BY <1>1, <2>1, <2>2 DEF StaysReadable, At
<1> QED
  BY <1>3, <1>4, <1>5, <1>6

LEMMA RefusedStep ==
  ASSUME ServerInv, PoolInv', AcceptConnection, ~HasRoom
  PROVE  ServerInv'
<1> USE DEF ServerInv, PoolInv
<1>1. PICK c \in Clients :
        /\ peer[c] = "connecting"
        /\ peer' = [peer EXCEPT ![c] = "away"]
        /\ inbox' = [inbox EXCEPT ![c] = "empty"]
        /\ awaiting' = [awaiting EXCEPT ![c] = FALSE]
        /\ UNCHANGED <<fds, open>>
  BY DEF AcceptConnection
<1>2. /\ UNCHANGED <<running, read_fds, index, kept, handler, alive>>
      /\ main = "accept" /\ main' = "clients"
  BY DEF AcceptConnection, MainAt, loops
<1>3. ServerTypeOK'
  BY <1>1, <1>2 DEF ServerTypeOK, MainStates, PeerStates
<1>4. Loops' /\ RegisteredOnce' /\ Watched'
  BY <1>1, <1>2 DEF Loops, RegisteredOnce, Entries, At, Watched
<1>5. \A d \in Descriptors : open[d] # c
  BY <1>1, ServerAssumption DEF Connections
<1>6. Connections'
  BY <1>1, <1>5 DEF Connections, ServerTypeOK
<1>7. StaysReadable'
  <2>1. ASSUME NEW i \in ToRead, fds[i] \in read_fds \ {Listener}, Readable(fds[i])
        PROVE  Readable(fds[i])'
    <3>1. i \in Entries /\ fds[i] # Marked
      BY <1>2, <2>1, DescriptorFacts DEF ToRead, Entries, ServerTypeOK
    <3>2. fds[i] \in Descriptors /\ open[fds[i]] \in Clients
      BY <3>1, EntryIsOpen
    <3> QED
      BY <1>1, <1>5, <2>1, <3>2, DescriptorFacts DEF Readable, ServerTypeOK
  <2>2. ToRead' = ToRead
    BY <1>1, <1>2 DEF ToRead, At
  <2> QED
    BY <1>1, <1>2, <2>1, <2>2 DEF StaysReadable, At
<1> QED
  BY <1>3, <1>4, <1>6, <1>7

LEMMA AcceptStep ==
  ASSUME ServerInv, PoolInv', AcceptConnection, HasRoom
  PROVE  ServerInv'
<1> USE DEF ServerInv, PoolInv
<1> DEFINE L == LowestFree
           n == Len(fds) + 1
<1>1. PICK c \in Clients :
        /\ peer[c] = "connecting"
        /\ fds' = Append(fds, L)
        /\ open' = [open EXCEPT ![L] = c]
        /\ peer' = [peer EXCEPT ![c] = "connected"]
        /\ UNCHANGED <<inbox, awaiting>>
  BY DEF AcceptConnection
<1>2. /\ UNCHANGED <<running, read_fds, index, kept, handler, alive>>
      /\ main = "accept" /\ main' = "clients" /\ index = 1
  BY DEF AcceptConnection, MainAt, loops, Loops, At
<1>3. L \in Descriptors /\ open[L] = Nobody
  BY <1>1, DescriptorLeft
<1> HIDE DEF L
<1>4. fds \in Seq(Descriptors \cup {Marked}) /\ Len(fds) \in Nat
  BY DEF ServerTypeOK
<1>5. /\ fds' \in Seq(Descriptors \cup {Marked}) /\ Len(fds') = n
      /\ \A i \in 1 .. Len(fds) : fds'[i] = fds[i]
      /\ fds'[n] = L
  BY <1>1, <1>3, <1>4, AppendProperties
<1>6. \A i \in 1 .. Len(fds) : fds[i] # L
  <2>1. \A i \in 1 .. Len(fds) : fds[i] # Marked => open[fds[i]] \in Clients
    BY <1>2, EntryIsOpen DEF Entries
  <2> QED
    BY <1>3, <2>1, DescriptorFacts, ServerAssumption
<1>7. 1 .. n = 1 .. Len(fds) \cup {n} /\ n \notin 1 .. Len(fds)
  BY <1>4
<1>8. ServerTypeOK'
  <2>1. Len(fds') <= MaxClients
    BY <1>4, <1>5, ServerAssumption DEF HasRoom
  <2> QED
    BY <1>1, <1>2, <1>3, <1>5, <2>1 DEF ServerTypeOK, MainStates, PeerStates
<1>9. Loops' /\ Watched'
  BY <1>2, <1>4, <1>5 DEF Loops, At, Watched
<1>10. \A d \in Descriptors : open[d] # c
  BY <1>1, ServerAssumption DEF Connections
<1>11. c # Nobody
  BY ServerAssumption
<1>12. Connections'
  BY <1>1, <1>3, <1>10, <1>11 DEF Connections, ServerTypeOK
<1>13. RegisteredOnce'
  <2>1. Entries = 1 .. Len(fds) /\ Entries' = Entries \cup {n} /\ n \notin Entries
    BY <1>2, <1>5, <1>7 DEF Entries
  <2>2. \A i, j \in Entries' : fds'[i] = fds'[j] /\ fds'[i] # Marked => i = j
    BY <1>5, <1>6, <2>1 DEF RegisteredOnce
  <2>3. {fds'[i] : i \in Entries'} = {fds[i] : i \in Entries} \cup {L}
    BY <1>5, <2>1
  <2>4. {d \in Descriptors : open'[d] # Nobody}
          = {d \in Descriptors : open[d] # Nobody} \cup {L}
    BY <1>1, <1>3, <1>11 DEF ServerTypeOK
  <2>5. L # Marked
    BY <1>3, DescriptorFacts
  <2> QED
    BY <2>2, <2>3, <2>4, <2>5 DEF RegisteredOnce
<1>14. StaysReadable'
  <2>1. L \notin read_fds
    <3>1. \A i \in 1 .. Len(fds) : fds[i] # L
      BY <1>6
    <3>2. L \notin Range(fds) \cup {Listener}
      BY <1>3, <1>4, <3>1, DescriptorFacts DEF Range
    <3> QED
      BY <1>2, <3>2 DEF Watched, At
  <2>2. ASSUME NEW i \in ToRead', fds'[i] \in read_fds \ {Listener}, running
        PROVE  Readable(fds[i])'
    <3>1. i \in 1 .. Len(fds) /\ fds'[i] = fds[i]
      BY <1>5, <1>7, <2>1, <2>2 DEF ToRead
    <3>2. i \in ToRead
      BY <1>2, <2>2, <3>1 DEF ToRead, At
    <3>3. Readable(fds[i])
      BY <1>2, <2>2, <3>1, <3>2 DEF StaysReadable, At
    <3>4. fds[i] \in Descriptors /\ open[fds[i]] \in Clients /\ fds[i] # L
      BY <1>2, <1>6, <2>2, <3>1, EntryIsOpen, DescriptorFacts DEF Entries, ServerTypeOK
    <3> QED
      BY <1>1, <1>10, <3>1, <3>3, <3>4, DescriptorFacts DEF Readable, ServerTypeOK
  <2> QED
    BY <1>2, <2>2 DEF StaysReadable, At
<1> QED
  BY <1>8, <1>9, <1>12, <1>13, <1>14

LEMMA ReceiveStep ==
  ASSUME ServerInv, PoolInv', ReceiveMessage
  PROVE  ServerInv'
<1> USE DEF ServerInv, PoolInv
<1>1. PICK d \in Descriptors :
        Reading(d) /\ inbox' = [inbox EXCEPT ![open[d]] = "empty"]
  BY DEF ReceiveMessage
<1>2. /\ UNCHANGED <<running, read_fds, fds, index, kept, open, peer, awaiting, handler,
                     alive>>
      /\ main = "clients" /\ main' = "adding"
  BY DEF ReceiveMessage, Reading, MainAt, loops
<1>3. index \in 1 .. Len(fds) /\ fds[index] = d /\ open[d] \in Clients
  BY <1>1, ReadingIsOpen
<1>4. ServerTypeOK'
  BY <1>1, <1>2 DEF ServerTypeOK, MainStates
<1>5. Loops' /\ Connections' /\ RegisteredOnce' /\ Watched'
  BY <1>2, <1>3 DEF Loops, Connections, RegisteredOnce, Entries, At, Watched
<1>6. StaysReadable'
  <2>1. ASSUME NEW i \in ToRead', fds[i] \in read_fds \ {Listener}, running
        PROVE  Readable(fds[i])'
    <3>1. i \in ToRead /\ i # index /\ i \in Entries /\ index \in Entries
      BY <1>2, <1>3, <2>1 DEF ToRead, At, Entries
    <3>2. Readable(fds[i])
      BY <1>2, <2>1, <3>1 DEF StaysReadable, At
    <3>3. fds[i] \in Descriptors /\ open[fds[i]] \in Clients
      BY <2>1, <3>1, EntryIsOpen, DescriptorFacts DEF ServerTypeOK
    <3>4. fds[i] # d
      BY <1>3, <3>1, DescriptorFacts DEF RegisteredOnce
    <3>5. open[fds[i]] # open[d]
      BY <1>3, <3>3, <3>4, ServerAssumption DEF Connections
    <3> QED
      BY <1>1, <1>2, <1>3, <3>2, <3>3, <3>5, DescriptorFacts DEF Readable, ServerTypeOK
  <2> QED
    BY <1>2, <2>1 DEF StaysReadable, At
<1> QED
  BY <1>4, <1>5, <1>6

LEMMA ClosedStep ==
  ASSUME ServerInv, PoolInv', ConnectionClosed
  PROVE  ServerInv'
<1> USE DEF ServerInv, PoolInv
<1>1. PICK d \in Descriptors :
        /\ Reading(d)
        /\ fds' = [fds EXCEPT ![index] = Marked]
        /\ open' = [open EXCEPT ![d] = Nobody]
        /\ peer' = [peer EXCEPT ![open[d]] = "away"]
        /\ inbox' = [inbox EXCEPT ![open[d]] = "empty"]
  BY DEF ConnectionClosed
<1>2. /\ UNCHANGED <<running, read_fds, kept, awaiting, handler, alive>>
      /\ main = "clients" /\ main' = "clients" /\ index' = index + 1
  BY <1>1 DEF ConnectionClosed, Reading, MainAt
<1>3. index \in 1 .. Len(fds) /\ fds[index] = d /\ open[d] \in Clients
  BY <1>1, ReadingIsOpen
<1>4. fds \in Seq(Descriptors \cup {Marked}) /\ Len(fds) \in Nat /\ MaxClients \in Nat
  BY ServerAssumption DEF ServerTypeOK
<1>5. /\ fds' \in Seq(Descriptors \cup {Marked}) /\ Len(fds') = Len(fds)
      /\ \A i \in 1 .. Len(fds) : fds'[i] = IF i = index THEN Marked ELSE fds[i]
  BY <1>1, <1>3, <1>4, ExceptSeq
<1>6. ServerTypeOK'
  BY <1>1, <1>2, <1>3, <1>4, <1>5 DEF ServerTypeOK, PeerStates
<1>7. Loops' /\ Watched'
  BY <1>2, <1>3, <1>4, <1>5 DEF Loops, At, Watched
<1>8. \A e \in Descriptors : e # d => open[e] # open[d]
  BY <1>3, ServerAssumption DEF Connections
<1>9. Connections'
  BY <1>1, <1>3, <1>8 DEF Connections, ServerTypeOK
<1>10. RegisteredOnce'
  <2>1. Entries = 1 .. Len(fds) /\ Entries' = 1 .. Len(fds)
    BY <1>2, <1>5 DEF Entries
  <2>2. \A i, j \in Entries' : fds'[i] = fds'[j] /\ fds'[i] # Marked => i = j
    BY <1>5, <2>1 DEF RegisteredOnce
  <2>3. {fds'[i] : i \in Entries'} \ {Marked}
          = {fds[i] : i \in Entries} \ {Marked, d}
    <3>1. \A i \in 1 .. Len(fds) : i # index => fds[i] # d
      BY <1>3, <2>1, DescriptorFacts DEF RegisteredOnce
    <3> QED
      BY <1>3, <1>5, <2>1, <3>1
  <2>4. {e \in Descriptors : open'[e] # Nobody}
          = {e \in Descriptors : open[e] # Nobody} \ {d}
    BY <1>1 DEF ServerTypeOK
  <2> QED
    BY <2>2, <2>3, <2>4 DEF RegisteredOnce
<1>11. StaysReadable'
  <2>1. ASSUME NEW i \in ToRead', fds'[i] \in read_fds \ {Listener}, running
        PROVE  Readable(fds[i])'
    <3>1. i \in 1 .. Len(fds) /\ i > index
      BY <1>2, <1>3, <1>4, <1>5, <2>1 DEF ToRead, At
    <3>2. i \in ToRead /\ i # index /\ i \in Entries /\ index \in Entries
      BY <1>2, <1>3, <3>1 DEF ToRead, Entries
    <3>3. fds'[i] = fds[i]
      BY <1>5, <3>1, <3>2
    <3>4. Readable(fds[i])
      BY <1>2, <2>1, <3>2, <3>3 DEF StaysReadable, At
    <3>5. fds[i] \in Descriptors /\ open[fds[i]] \in Clients
      BY <2>1, <3>2, <3>3, EntryIsOpen, DescriptorFacts DEF ServerTypeOK
    <3>6. fds[i] # d
      BY <1>3, <3>2, DescriptorFacts DEF RegisteredOnce
    <3> QED
      BY <1>1, <1>3, <1>8, <3>3, <3>4, <3>5, <3>6, DescriptorFacts
      DEF Readable, ServerTypeOK
  <2> QED
    BY <1>2, <2>1 DEF StaysReadable, At
<1> QED
  BY <1>6, <1>7, <1>9, <1>10, <1>11

(* Closing the gaps moves an entry over one that counts no longer. *)
LEMMA CleanUpStep ==
  ASSUME ServerInv, PoolInv', CleanUp
  PROVE  ServerInv'
<1> USE DEF ServerInv, PoolInv
<1>1. /\ UNCHANGED <<running, read_fds, fds, open, peer, inbox, awaiting, handler, alive>>
      /\ main = "clients" /\ main' = "cleaning" /\ index' = 1 /\ kept' = 0
  BY DEF CleanUp, MainAt, sockets
<1>2. Len(fds) \in Nat /\ MaxClients \in Nat
  BY ServerAssumption DEF ServerTypeOK
<1>3. ServerTypeOK'
  BY <1>1, <1>2 DEF ServerTypeOK, MainStates
<1>4. Entries' = Entries
  BY <1>1 DEF Entries
<1>5. Loops' /\ Connections' /\ RegisteredOnce' /\ Watched' /\ StaysReadable'
  BY <1>1, <1>2, <1>4 DEF Loops, Connections, RegisteredOnce, At, Watched, StaysReadable
<1> QED
  BY <1>3, <1>5

LEMMA KeepStep ==
  ASSUME ServerInv, PoolInv', KeepEntry
  PROVE  ServerInv'
<1> USE DEF ServerInv, PoolInv
<1>1. /\ UNCHANGED <<running, read_fds, open, peer, inbox, awaiting, handler, alive>>
      /\ main = "cleaning" /\ main' = "cleaning" /\ index' = index + 1
      /\ index <= Len(fds)
  BY DEF KeepEntry, MainAt, sockets
<1>2. /\ fds \in Seq(Descriptors \cup {Marked}) /\ Len(fds) \in Nat
      /\ Len(fds) <= MaxClients /\ MaxClients \in Nat
      /\ index \in 1 .. Len(fds) /\ kept \in 0 .. index - 1
  BY <1>1, ServerAssumption DEF ServerTypeOK, Loops, At
<1>3. Connections' /\ Watched' /\ StaysReadable'
  BY <1>1 DEF Connections, At, Watched, StaysReadable
<1>4. Entries = 1 .. kept \cup index .. Len(fds)
  BY <1>1 DEF Entries
<1>5. CASE fds[index] = Marked
  <2>1. UNCHANGED <<fds, kept>>
    BY <1>5 DEF KeepEntry
  <2>2. ServerTypeOK' /\ Loops'
    BY <1>1, <1>2, <2>1 DEF ServerTypeOK, Loops, At
  <2>3. Entries' = Entries \ {index}
    BY <1>1, <1>2, <1>4, <2>1 DEF Entries
  <2>4. RegisteredOnce'
    BY <1>1, <1>5, <2>1, <2>3 DEF RegisteredOnce
  <2> QED
    BY <1>3, <2>2, <2>4
<1>6. CASE fds[index] # Marked
  <2>1. fds' = [fds EXCEPT ![kept + 1] = fds[index]] /\ kept' = kept + 1
    BY <1>6 DEF KeepEntry
  <2>2. kept + 1 \in 1 .. Len(fds) /\ fds[index] \in Descriptors \cup {Marked}
    BY <1>2
  <2>3. /\ fds' \in Seq(Descriptors \cup {Marked}) /\ Len(fds') = Len(fds)
        /\ \A i \in 1 .. Len(fds) :
             fds'[i] = IF i = kept + 1 THEN fds[index] ELSE fds[i]
    BY <1>2, <2>1, <2>2, ExceptSeq
  <2>4. ServerTypeOK' /\ Loops'
    BY <1>1, <1>2, <2>1, <2>3 DEF ServerTypeOK, Loops, At
  <2>5. Entries' = 1 .. kept + 1 \cup index + 1 .. Len(fds)
    BY <1>1, <2>1, <2>3 DEF Entries
  <2>6. \A i \in Entries' : /\ i \in 1 .. Len(fds)
                            /\ i = kept + 1 \/ (i \in Entries /\ i # index)
    BY <1>2, <1>4, <2>5
  <2>7. /\ \A i \in Entries \ {index} : i \in Entries' /\ i # kept + 1
        /\ kept + 1 \in Entries' /\ index \in Entries
    BY <1>2, <1>4, <2>5
  <2>8. \A i, j \in Entries' : fds'[i] = fds'[j] /\ fds'[i] # Marked => i = j
    <3> SUFFICES ASSUME NEW i \in Entries', NEW j \in Entries',
                        fds'[i] = fds'[j], fds'[i] # Marked
                 PROVE  i = j
      OBVIOUS
    <3>1. \A x, y \in Entries : fds[x] = fds[y] /\ fds[x] # Marked => x = y
      BY DEF RegisteredOnce
    <3>2. /\ fds'[i] = IF i = kept + 1 THEN fds[index] ELSE fds[i]
          /\ fds'[j] = IF j = kept + 1 THEN fds[index] ELSE fds[j]
      BY <2>3, <2>6
    <3> QED
      BY <2>6, <2>7, <3>1, <3>2
  <2>9. {fds'[i] : i \in Entries'} = {fds[i] : i \in Entries}
    <3>1. ASSUME NEW i \in Entries' PROVE \E x \in Entries : fds'[i] = fds[x]
      BY <2>3, <2>6, <2>7
    <3>2. ASSUME NEW x \in Entries PROVE \E i \in Entries' : fds'[i] = fds[x]
      <4>1. CASE x = index
        BY <2>2, <2>3, <2>7, <4>1
      <4>2. CASE x # index
        <5>1. x \in Entries' /\ x # kept + 1 /\ x \in 1 .. Len(fds)
          BY <2>6, <2>7, <4>2
        <5> QED
          BY <2>3, <5>1
      <4> QED
        BY <4>1, <4>2
    <3> QED
      BY <3>1, <3>2
  <2>10. RegisteredOnce'
    BY <1>1, <2>8, <2>9 DEF RegisteredOnce
  <2> QED
    BY <1>3, <2>4, <2>10
<1> QED
  BY <1>5, <1>6

LEMMA EndStep ==
  ASSUME ServerInv, PoolInv', EndCleanUp
  PROVE  ServerInv'
<1> USE DEF ServerInv, PoolInv
<1>1. /\ UNCHANGED <<running, read_fds, open, peer, inbox, awaiting, handler, alive>>
      /\ main = "cleaning" /\ main' = "loop" /\ index' = 1 /\ kept' = 0
      /\ fds' = SubSeq(fds, 1, kept) /\ index > Len(fds)
  BY DEF EndCleanUp, MainAt, sockets
<1>2. /\ fds \in Seq(Descriptors \cup {Marked}) /\ Len(fds) \in Nat
      /\ Len(fds) <= MaxClients /\ MaxClients \in Nat
      /\ index = Len(fds) + 1 /\ kept \in 0 .. Len(fds)
  BY <1>1, ServerAssumption DEF ServerTypeOK, Loops, At
<1>3. /\ fds' \in Seq(Descriptors \cup {Marked}) /\ Len(fds') = kept
      /\ \A i \in 1 .. kept : fds'[i] = fds[i]
  <2>1. \A i \in 1 .. kept : fds[i] \in Descriptors \cup {Marked}
    BY <1>2
  <2> QED
    BY <1>1, <1>2, <2>1, SubSeqProperties
<1>4. ServerTypeOK'
  BY <1>1, <1>2, <1>3 DEF ServerTypeOK, MainStates
<1>5. Loops' /\ Connections' /\ Watched' /\ StaysReadable'
  BY <1>1, <1>2, <1>3 DEF Loops, Connections, At, Watched, StaysReadable
<1>6. RegisteredOnce'
  <2>1. Entries = 1 .. kept /\ Entries' = 1 .. kept
    BY <1>1, <1>2, <1>3 DEF Entries
  <2> QED
    BY <1>1, <1>3, <2>1 DEF RegisteredOnce
<1> QED
  BY <1>4, <1>5, <1>6

-----------------------------------------------------------------------------
LEMMA ServerInvInit == ServerInit => ServerInv
<1> SUFFICES ASSUME ServerInit PROVE ServerInv
  OBVIOUS
<1>1. PoolInv
  BY PoolInit DEF ServerInit
<1>2. MaxClients \in Nat \ {0} /\ fds = << >>
  BY ServerAssumption DEF ServerInit
<1>3. fds \in Seq(Descriptors \cup {Marked}) /\ Len(fds) = 0
  BY <1>2
<1>4. ServerTypeOK
  BY <1>1, <1>2, <1>3 DEF ServerInit, ServerTypeOK, PoolInv, MainStates, PeerStates
<1>5. Loops /\ Connections /\ Watched /\ StaysReadable
  BY <1>3 DEF ServerInit, Loops, Connections, Watched, StaysReadable, At
<1>6. RegisteredOnce
  <2>1. Entries = {}
    BY <1>3 DEF ServerInit, Entries
  <2> QED
    BY <2>1 DEF ServerInit, RegisteredOnce
<1> QED
  BY <1>1, <1>4, <1>5, <1>6 DEF ServerInv

LEMMA ServerInvStep == ServerInv /\ [ServerNext]_everything => ServerInv'
<1> SUFFICES ASSUME ServerInv, [ServerNext]_everything PROVE ServerInv'
  OBVIOUS
<1>1. PoolInv'
  BY PoolBelow, PoolStep DEF ServerInv
<1>2. CASE Main
  BY <1>1, <1>2, BuildStep, SelectStep, NoConnectionStep, RefusedStep, AcceptStep,
     SkipStep, ReceiveStep, ClosedStep, CleanUpStep, KeepStep, EndStep, StopStep
  DEF Main
<1>3. CASE Signal
  BY <1>1, <1>3, SignalStep
<1>4. CASE PoolCaller \/ \E w \in Workers : Serve(w) \/ BrokenPipe(w)
  BY <1>1, <1>4, ThreadStep
<1>5. CASE \E c \in Clients : Client(c)
  BY <1>1, <1>5, ClientStep
<1>6. CASE UNCHANGED everything
  <2>1. Quiet
    BY <1>6 DEF everything, server, Quiet, ServerInv, Connections
  <2>2. ServerTypeOK'
    BY <1>1, <1>6 DEF everything, server, ServerInv, ServerTypeOK, PoolInv
  <2> QED
    BY <1>1, <2>1, <2>2, QuietStep
<1> QED
  BY <1>2, <1>3, <1>4, <1>5, <1>6 DEF ServerNext

LEMMA ServerInvariant == ServerSpec => []ServerInv
BY ServerInvInit, ServerInvStep, PTL DEF ServerSpec

(* The list of clients never outgrows its array, and no index leaves it.   *)
THEOREM ServerTypes == ServerSpec => []ServerTypeOK
<1>1. ServerInv => ServerTypeOK
  BY DEF ServerInv
<1> QED
  BY <1>1, ServerInvariant, PTL

(* The list holds exactly the open descriptors, each once, whatever is     *)
(* closed, reused and moved to the front (server.c:276-316).               *)
THEOREM ListIsExact == ServerSpec => []RegisteredOnce
<1>1. ServerInv => RegisteredOnce
  BY DEF ServerInv
<1> QED
  BY <1>1, ServerInvariant, PTL

(* Until a signal arrives, accept and receive_message are called only for  *)
(* what is there to be read: the main thread never waits for an idle       *)
(* client with g_client_mutex held (server.c:244-278).                     *)
THEOREM ReadsWhatIsThere == ServerSpec => []ReadsOnlyReady
<1>1. ServerInv => ReadsOnlyReady
  <2> SUFFICES ASSUME ServerInv, running
               PROVE  /\ main = "accept" /\ Listener \in read_fds => Readable(Listener)
                      /\ \A d \in Descriptors : Reading(d) => Readable(d)
    BY DEF ReadsOnlyReady
  <2>1. main = "accept" /\ Listener \in read_fds => Readable(Listener)
    BY DEF ServerInv, StaysReadable, At
  <2>2. ASSUME NEW d \in Descriptors, Reading(d) PROVE Readable(d)
    <3>1. index \in 1 .. Len(fds) /\ fds[index] = d
      BY <2>2, ReadingIsOpen
    <3>2. index \in ToRead /\ d \in read_fds \ {Listener}
      BY <2>2, <3>1, DescriptorFacts DEF Reading, MainAt, ToRead, At
    <3> QED
      BY <2>2, <3>1, <3>2 DEF ServerInv, StaysReadable, At, Reading, MainAt
  <2> QED
    BY <2>1, <2>2
<1> QED
  BY <1>1, ServerInvariant, PTL

(* The server asks of the pool what the pool provides for: inside it the   *)
(* circular array is a FIFO queue that loses no request.                   *)
THEOREM ServerQueues == ServerSpec => ImplementsQueue
<1>1. ServerInit => Init
  BY DEF ServerInit
<1>2. ServerInv /\ [ServerNext]_everything => [Next]_pool
  BY PoolBelow
<1>3. ServerSpec => Spec
  BY <1>1, <1>2, ServerInvariant, PTL DEF ServerSpec, Spec
<1> QED
  BY <1>3, PoolImplementsQueue

-----------------------------------------------------------------------------
(* While clients stay, a descriptor names the client that asked: in the    *)
(* hands of the main thread, in the queue, and with a worker.              *)

Current(j) == open[j[1]] = j[2]

Adding == caller \in {"adding", "waiting"}

AllStay ==
  /\ \A c \in Clients : peer[c] # "left"
  /\ Adding => Current(request)
  /\ \A i \in 1 .. count : Current(Pending[i])
  /\ \A w \in Workers :
       /\ worker[w] = "handling" => Current(job[w])
       /\ handler[w] # "none" => worker[w] = "handling"

StayInv == ServerInv /\ AllStay

(* A client keeps its descriptor. *)
LEMMA StaysOpen ==
  ASSUME ~Leaving, StayInv, [ServerNext]_everything
  PROVE  /\ \A d \in Descriptors : open[d] # Nobody => open'[d] = open[d]
         /\ \A c \in Clients : peer'[c] # "left"
<1> USE DEF StayInv, AllStay, ServerInv, ServerTypeOK
<1>1. CASE \/ BuildSet \/ Select \/ NoConnection \/ SkipClient \/ ReceiveMessage
           \/ JobAdded \/ CleanUp \/ KeepEntry \/ EndCleanUp \/ Stop \/ Signal
           \/ PoolCaller \/ (\E w \in Workers : Serve(w) \/ BrokenPipe(w))
           \/ UNCHANGED everything
  <2>1. UNCHANGED <<open, peer>>
    BY <1>1 DEF BuildSet, Select, NoConnection, SkipClient, ReceiveMessage, JobAdded,
       CleanUp, KeepEntry, EndCleanUp, Stop, Signal, PoolCaller, Serve, PoolWorker,
       TakeRequest, Broadcast, Respond, BrokenPipe, everything, server, sockets
  <2> QED
    BY <2>1
<1>2. CASE AcceptConnection
  <2>1. PICK c \in Clients :
          /\ peer[c] = "connecting"
          /\ \/ /\ open' = [open EXCEPT ![LowestFree] = c]
                /\ peer' = [peer EXCEPT ![c] = "connected"]
             \/ /\ peer' = [peer EXCEPT ![c] = "away"]
                /\ UNCHANGED open
    BY <1>2 DEF AcceptConnection
  <2>2. open[LowestFree] = Nobody
    BY <2>1, DescriptorLeft
  <2> QED
    BY <2>1, <2>2
<1>3. CASE ConnectionClosed
  <2>1. PICK d \in Descriptors : Reading(d) /\ peer[open[d]] = "left"
    BY <1>3 DEF ConnectionClosed
  <2> QED
    BY <2>1, ReadingIsOpen
<1>4. CASE \E c \in Clients : Client(c)
  BY <1>4 DEF Client, Connect, SendHeader, SendPayload, Leave
<1> QED
  BY <1>1, <1>2, <1>3, <1>4 DEF ServerNext, Main

LEMMA StaysCurrent ==
  ASSUME ~Leaving, StayInv, [ServerNext]_everything, NEW j \in Jobs, Current(j)
  PROVE  Current(j)'
BY StaysOpen, ServerAssumption DEF Current

(* The queue, before and after a step. *)
LEMMA QueueStep ==
  ASSUME ServerInv, [ServerNext]_everything
  PROVE  /\ Pending \in Seq(Jobs) /\ Len(Pending) = count /\ count \in Nat
         /\ \/ Pending' = Pending /\ count' = count
            \/ /\ Enqueue
               /\ Pending' = Append(Pending, request) /\ count' = count + 1
            \/ \E w \in Workers :
                 /\ TakeJob(w) /\ Pending # << >>
                 /\ Pending' = Tail(Pending) /\ count' = count - 1
                 /\ job' = [job EXCEPT ![w] = Head(Pending)]
<1> USE DEF ServerInv, PoolInv
<1>1. Pending \in Seq(Jobs) /\ Len(Pending) = count /\ count \in Nat
  BY PendingType, PoolAssumption DEF TypeOK
<1>2. [Next]_pool
  BY PoolBelow
<1>3. CASE Enqueue
  BY <1>1, <1>3, EnqueuePuts DEF Queue!Put, Enqueue
<1>4. ASSUME NEW w \in Workers, TakeJob(w)
      PROVE  /\ Pending # << >>
             /\ Pending' = Tail(Pending) /\ count' = count - 1
             /\ job' = [job EXCEPT ![w] = Head(Pending)]
  BY <1>4, TakeTakes DEF Queue!Take, TakeJob
<1>5. CASE \/ (\E w \in Workers : \/ Check(w) \/ Wait(w) \/ WakeUp(w)
                                 \/ FinishJob(w) \/ Exit(w))
           \/ CreateWorker \/ CreateFailed \/ AbortBroadcast \/ Reap
           \/ WaitNotFull \/ Join \/ Shutdown \/ (\E j \in Jobs : AddJob(j))
           \/ UNCHANGED pool
  <2>1. UNCHANGED <<queue, head, count>>
    BY <1>5 DEF Check, Wait, WakeUp, FinishJob, Exit, CreateWorker,
       CreateFailed, AbortBroadcast, Reap, WaitNotFull, Join, Shutdown, AddJob,
       pool
  <2> QED
    BY <1>1, <2>1 DEF Pending
<1> QED
  BY <1>1, <1>2, <1>3, <1>4, <1>5 DEF Next, Worker, Caller, Asked

LEMMA TakeIsHead ==
  ASSUME ServerInv, NEW w \in Workers, TakeJob(w)
  PROVE  job'[w] = Head(Pending) /\ Pending # << >>
<1>1. TypeOK /\ PoolInv
  BY DEF ServerInv, PoolInv
<1>2. Pending # << >> /\ job' = [job EXCEPT ![w] = Head(Pending)]
  BY <1>1, TakeTakes DEF Queue!Take, TakeJob
<1> QED
  BY <1>1, <1>2 DEF TypeOK

(* A request comes into the hands of the main thread, or of a worker, by   *)
(* being read, or taken from the queue.                                    *)
LEMMA HandsStep ==
  ASSUME ServerInv, [ServerNext]_everything
  PROVE  /\ Adding' =>
              \/ Adding /\ request' = request
              \/ \E d \in Descriptors : Reading(d) /\ request' = <<d, open[d]>>
         /\ \A w \in Workers :
              worker'[w] = "handling" =>
                (worker[w] = "handling" /\ job'[w] = job[w]) \/ TakeJob(w)
         /\ \A w \in Workers :
              handler'[w] # "none" =>
                \/ /\ handler[w] # "none"
                   /\ worker[w] = "handling" => worker'[w] = "handling"
                \/ worker'[w] = "handling"
<1> USE DEF ServerInv, PoolInv, TypeOK, ServerTypeOK
<1>1. CASE \/ BuildSet \/ Select \/ NoConnection \/ AcceptConnection
           \/ SkipClient \/ JobAdded \/ ConnectionClosed
           \/ CleanUp \/ KeepEntry \/ EndCleanUp \/ Signal
           \/ \E c \in Clients : Client(c)
           \/ UNCHANGED everything
  <2>1. UNCHANGED <<pool, handler>>
    BY <1>1 DEF BuildSet, Select, NoConnection, AcceptConnection, SkipClient, JobAdded,
       ConnectionClosed, CleanUp, KeepEntry, EndCleanUp, Signal, Client, Connect,
       SendHeader, SendPayload, Leave, everything, server
  <2> QED
    BY <2>1 DEF pool, Adding
<1>2. CASE ReceiveMessage
  BY <1>2 DEF ReceiveMessage, AddJob, Adding
<1>3. CASE Stop \/ PoolCaller
  <2>1. \/ CreateWorker \/ AbortBroadcast \/ Reap \/ WaitNotFull \/ Enqueue \/ Join
        \/ Shutdown
    BY <1>3 DEF Stop, PoolCaller, Caller
  <2>2. UNCHANGED <<job, request>> /\ (Adding' => Adding)
    BY <2>1 DEF CreateWorker, AbortBroadcast, Reap, WaitNotFull, Enqueue, Join,
       Shutdown, Adding
  <2>3. ASSUME NEW w \in Workers
        PROVE  /\ worker'[w] = "handling" => worker[w] = "handling"
               /\ worker[w] = "handling" => worker'[w] = "handling"
    BY <2>1 DEF CreateWorker, AbortBroadcast, Reap, WaitNotFull, Enqueue, Join,
       Shutdown, WakeAll, WakeOne, Sleepers
  <2>4. handler' = handler
    BY <1>3 DEF Stop, PoolCaller, server
  <2> QED
    BY <2>2, <2>3, <2>4
<1>4. ASSUME NEW v \in Workers, PoolWorker(v)
      PROVE  /\ UNCHANGED <<caller, job, request, handler>>
             /\ \A w \in Workers :
                  worker'[w] = "handling" <=> worker[w] = "handling"
  BY <1>4 DEF PoolWorker, Check, Wait, Exit, server
<1>5. ASSUME NEW v \in Workers, TakeRequest(v)
      PROVE  /\ TakeJob(v) /\ request' = request /\ (Adding' => Adding)
             /\ \A w \in Workers : w # v => /\ worker'[w] = worker[w]
                                            /\ job'[w] = job[w]
                                            /\ handler'[w] = handler[w]
             /\ worker'[v] = "handling"
  BY <1>5 DEF TakeRequest, TakeJob, SignalNotFull, Adding
<1>6. ASSUME NEW v \in Workers, Respond(v)
      PROVE  /\ UNCHANGED <<caller, job, request>>
             /\ \A w \in Workers : w # v => /\ worker'[w] = worker[w]
                                            /\ handler'[w] = handler[w]
             /\ worker'[v] = "ready" /\ handler'[v] = "none"
  BY <1>6 DEF Respond, FinishJob
<1>7. ASSUME NEW v \in Workers, Broadcast(v) \/ BrokenPipe(v)
      PROVE  /\ UNCHANGED <<caller, job, request, worker>>
             /\ \A w \in Workers : handler'[w] # "none" => handler[w] # "none"
  BY <1>7 DEF Broadcast, BrokenPipe, pool
<1>8. CASE \E v \in Workers : Serve(v) \/ BrokenPipe(v)
  <2>1. PICK v \in Workers : Serve(v) \/ BrokenPipe(v)
    BY <1>8
  <2>2. CASE PoolWorker(v)
    BY <1>4, <2>2 DEF Adding
  <2>3. CASE TakeRequest(v)
    BY <1>5, <2>3
  <2>4. CASE Respond(v)
    BY <1>6, <2>4 DEF Adding
  <2>5. CASE Broadcast(v) \/ BrokenPipe(v)
    BY <1>7, <2>5 DEF Adding
  <2> QED
    BY <2>1, <2>2, <2>3, <2>4, <2>5 DEF Serve
<1> QED
  BY <1>1, <1>2, <1>3, <1>8 DEF ServerNext, Main

LEMMA StayInvInit == ServerInit => StayInv
<1> SUFFICES ASSUME ServerInit PROVE AllStay
  BY ServerInvInit DEF StayInv
<1>1. count = 0 /\ ~Adding
  BY DEF ServerInit, Init, Adding
<1>2. \A w \in Workers : worker[w] # "handling" /\ handler[w] = "none"
  BY DEF ServerInit, Init
<1> QED
  BY <1>1, <1>2 DEF AllStay, ServerInit

LEMMA StayInvStep ==
  ASSUME ~Leaving, StayInv, [ServerNext]_everything
  PROVE  StayInv'
<1>1. ServerInv /\ AllStay /\ ServerInv'
  BY ServerInvStep DEF StayInv
<1>2. TypeOK /\ ServerTypeOK
  BY <1>1 DEF ServerInv, PoolInv
<1>3. (\A c \in Clients : peer[c] # "left")'
  BY StaysOpen
<1>4. (Adding => Current(request))'
  <2> SUFFICES ASSUME Adding' PROVE Current(request)'
    OBVIOUS
  <2>1. CASE Adding /\ request' = request
    <3>1. request \in Jobs /\ Current(request)
      BY <1>1, <1>2, <2>1 DEF TypeOK, AllStay, Adding
    <3> QED
      BY <2>1, <3>1, StaysCurrent DEF Current
  <2>2. ASSUME NEW d \in Descriptors, Reading(d), request' = <<d, open[d]>>
        PROVE  Current(request)'
    <3>1. open[d] # Nobody
      BY <1>1, <2>2, ReadingIsOpen, ServerAssumption
    <3> QED
      BY <2>2, <3>1, StaysOpen DEF Current
  <2> QED
    BY <1>1, <2>1, <2>2, HandsStep
<1>5. (\A i \in 1 .. count : Current(Pending[i]))'
  <2>1. /\ Pending \in Seq(Jobs) /\ Len(Pending) = count /\ count \in Nat
        /\ \A i \in 1 .. count : Pending[i] \in Jobs /\ Current(Pending[i])
    BY <1>1, QueueStep DEF AllStay
  <2> SUFFICES ASSUME NEW i \in 1 .. count'
               PROVE  open'[Pending'[i][1]] = Pending'[i][2]
    BY DEF Current
  <2>3. CASE Pending' = Pending /\ count' = count
    <3>1. Pending[i] = Pending'[i] /\ Pending[i] \in Jobs /\ Current(Pending[i])
      BY <2>1, <2>3
    <3> QED
      BY <3>1, StaysCurrent DEF Current
  <2>4. CASE Enqueue /\ Pending' = Append(Pending, request) /\ count' = count + 1
    <3>1. Adding /\ request \in Jobs
      BY <1>2, <2>4 DEF Enqueue, TypeOK, Adding
    <3>2. CASE i = count + 1
      <4>1. Pending'[i] = request
        BY <2>1, <2>4, <3>1, <3>2
      <4>2. Current(request)
        BY <1>1, <3>1 DEF AllStay
      <4> QED
        BY <3>1, <4>1, <4>2, StaysCurrent DEF Current
    <3>3. CASE i \in 1 .. count
      <4>1. Pending'[i] = Pending[i] /\ Pending[i] \in Jobs /\ Current(Pending[i])
        BY <2>1, <2>4, <3>1, <3>3
      <4> QED
        BY <4>1, StaysCurrent DEF Current
    <3> QED
      BY <2>1, <2>4, <3>2, <3>3
  <2>5. CASE Pending # << >> /\ Pending' = Tail(Pending) /\ count' = count - 1
    <3>1. i + 1 \in 1 .. count /\ Pending'[i] = Pending[i + 1]
      BY <2>1, <2>5
    <3>2. Pending[i + 1] \in Jobs /\ Current(Pending[i + 1])
      BY <2>1, <3>1
    <3> QED
      BY <3>1, <3>2, StaysCurrent DEF Current
  <2> QED
    BY <1>1, <2>3, <2>4, <2>5, QueueStep
<1>6. ASSUME NEW w \in Workers
      PROVE  /\ worker'[w] = "handling" => open'[job'[w][1]] = job'[w][2]
             /\ handler'[w] # "none" => worker'[w] = "handling"
  <2>1. handler'[w] # "none" => worker'[w] = "handling"
    BY <1>1, HandsStep DEF AllStay
  <2>2. CASE worker[w] = "handling" /\ job'[w] = job[w]
    <3>1. job[w] \in Jobs /\ Current(job[w])
      BY <1>1, <1>2, <2>2 DEF AllStay, TypeOK
    <3> QED
      BY <2>1, <2>2, <3>1, StaysCurrent DEF Current
  <2>3. CASE TakeJob(w)
    <3>1. job'[w] = Head(Pending) /\ Pending # << >>
      BY <2>3, <1>1, TakeIsHead
    <3>2. Pending \in Seq(Jobs) /\ Len(Pending) = count /\ count \in Nat
      BY <1>1, QueueStep
    <3>3. 1 \in 1 .. count /\ Head(Pending) = Pending[1] /\ Pending[1] \in Jobs
      BY <3>1, <3>2
    <3>4. Current(Pending[1])
      BY <1>1, <3>3 DEF AllStay
    <3> QED
      BY <2>1, <3>1, <3>3, <3>4, StaysCurrent DEF Current
  <2> QED
    BY <1>1, <2>1, <2>2, <2>3, HandsStep
<1>7. AllStay'
  BY <1>3, <1>4, <1>5, <1>6 DEF AllStay, Current
<1> QED
  BY <1>1, <1>7 DEF StayInv

-----------------------------------------------------------------------------
(* Whoever comes and goes, a client that waits has a request of its own    *)
(* under way.                                                              *)

(* A job stays with the main thread, in the queue or with a worker until   *)
(* it is answered.                                                         *)
LEMMA HandsKeep ==
  ASSUME ServerInv, [ServerNext]_everything
  PROVE  /\ Adding => (Adding' /\ request' = request) \/ Enqueue
         /\ \A w \in Workers :
              worker[w] = "handling" =>
                (worker'[w] = "handling" /\ job'[w] = job[w]) \/ Respond(w)
<1> USE DEF ServerInv, PoolInv, TypeOK, ServerTypeOK
<1>1. CASE \/ BuildSet \/ Select \/ NoConnection \/ AcceptConnection
           \/ SkipClient \/ JobAdded \/ ConnectionClosed
           \/ CleanUp \/ KeepEntry \/ EndCleanUp \/ Signal
           \/ (\E c \in Clients : Client(c))
           \/ (\E w \in Workers : Broadcast(w) \/ BrokenPipe(w))
           \/ UNCHANGED everything
  <2>1. UNCHANGED pool
    BY <1>1 DEF BuildSet, Select, NoConnection, AcceptConnection, SkipClient, JobAdded,
       ConnectionClosed, CleanUp, KeepEntry, EndCleanUp, Signal, Client, Connect,
       SendHeader, SendPayload, Leave, Broadcast, BrokenPipe, everything
  <2> QED
    BY <2>1 DEF pool, Adding
<1>2. CASE ReceiveMessage
  BY <1>2 DEF ReceiveMessage, AddJob, Adding
<1>3. CASE Stop \/ PoolCaller
  <2>1. \/ CreateWorker \/ AbortBroadcast \/ Reap \/ WaitNotFull \/ Enqueue \/ Join
        \/ Shutdown
    BY <1>3 DEF Stop, PoolCaller, Caller
  <2>2. /\ UNCHANGED <<job, request>>
        /\ Adding => Adding' \/ Enqueue
    BY <2>1 DEF CreateWorker, AbortBroadcast, Reap, WaitNotFull, Enqueue, Join,
       Shutdown, Adding
  <2>3. ASSUME NEW w \in Workers, worker[w] = "handling"
        PROVE  worker'[w] = "handling"
    BY <2>1, <2>3 DEF CreateWorker, AbortBroadcast, Reap, WaitNotFull, Enqueue, Join,
       Shutdown, WakeAll, WakeOne, Sleepers
  <2> QED
    BY <2>2, <2>3
<1>4. ASSUME NEW v \in Workers, PoolWorker(v) \/ TakeRequest(v) \/ Respond(v)
      PROVE  /\ request' = request /\ (Adding => Adding')
             /\ \A w \in Workers :
                  worker[w] = "handling" =>
                    (worker'[w] = "handling" /\ job'[w] = job[w]) \/ Respond(w)
  <2>1. CASE PoolWorker(v)
    BY <2>1 DEF PoolWorker, Check, Wait, Exit, Adding
  <2>2. CASE TakeRequest(v)
    BY <2>2 DEF TakeRequest, TakeJob, SignalNotFull, Adding
  <2>3. CASE Respond(v)
    <3>1. UNCHANGED <<caller, request, job>>
          /\ \A w \in Workers : w # v => worker'[w] = worker[w]
      BY <2>3 DEF Respond, FinishJob
    <3> QED
      BY <2>3, <3>1 DEF Adding
  <2> QED
    BY <1>4, <2>1, <2>2, <2>3
<1> QED
  BY <1>1, <1>2, <1>3, <1>4 DEF ServerNext, Main, Serve

LEMMA JobStays ==
  ASSUME ServerInv, [ServerNext]_everything, NEW j \in Jobs, InFlight(j),
         \A w \in Workers : job[w] = j => ~Respond(w)
  PROVE  InFlight(j)'
<1>1. /\ Pending \in Seq(Jobs) /\ Len(Pending) = count /\ count \in Nat
      /\ TypeOK
  BY QueueStep DEF ServerInv, PoolInv
<1>2. CASE Adding /\ request = j
  <2>1. CASE Adding' /\ request' = request
    BY <1>2, <2>1 DEF InFlight, Adding
  <2>2. CASE Enqueue
    <3>1. Pending' = Append(Pending, request) /\ count' = count + 1
      BY <2>2, EnqueuePuts, <1>1 DEF Queue!Put, Enqueue, ServerInv
    <3>2. count' \in 1 .. count' /\ Pending'[count'] = j
      BY <1>1, <1>2, <3>1
    <3> QED
      BY <3>2 DEF InFlight
  <2> QED
    BY <1>2, <2>1, <2>2, HandsKeep
<1>3. ASSUME NEW i \in 1 .. count, Pending[i] = j
      PROVE  InFlight(j)'
  <2>1. CASE Pending' = Pending /\ count' = count
    BY <1>3, <2>1 DEF InFlight
  <2>2. CASE Pending' = Append(Pending, request) /\ count' = count + 1
    <3>1. i \in 1 .. count' /\ Pending'[i] = j
      BY <1>1, <1>3, <2>2
    <3> QED
      BY <3>1 DEF InFlight
  <2>3. ASSUME NEW w \in Workers, TakeJob(w), Pending # << >>,
               Pending' = Tail(Pending), count' = count - 1,
               job' = [job EXCEPT ![w] = Head(Pending)]
        PROVE  InFlight(j)'
    <3>1. CASE i = 1
      <4>1. worker'[w] = "handling" /\ job'[w] = j
        BY <1>1, <1>3, <2>3, <3>1 DEF TakeJob, TypeOK
      <4> QED
        BY <4>1 DEF InFlight
    <3>2. CASE i # 1
      <4>1. i - 1 \in 1 .. count' /\ Pending'[i - 1] = j
        BY <1>1, <1>3, <2>3, <3>2
      <4> QED
        BY <4>1 DEF InFlight
    <3> QED
      BY <3>1, <3>2
  <2> QED
    BY <2>1, <2>2, <2>3, QueueStep
<1>4. ASSUME NEW w \in Workers, worker[w] = "handling", job[w] = j
      PROVE  InFlight(j)'
  <2>1. worker'[w] = "handling" /\ job'[w] = j
    BY <1>4, HandsKeep
  <2> QED
    BY <2>1 DEF InFlight
<1> QED
  BY <1>2, <1>3, <1>4 DEF InFlight, Adding

(* The answer to a job reaches the client at the descriptor. *)
LEMMA AnswerReaches ==
  ASSUME NEW w \in Workers, NEW d \in Descriptors, NEW c \in Clients,
         Respond(w), job[w] = <<d, c>>, open[d] = c, peer[c] # "left"
  PROVE  ~awaiting'[c]
BY DEF Respond

Waiters == \A c \in Clients : awaiting[c] => peer[c] \in {"connecting", "connected"}

WaitInv == ServerInv /\ Waiters /\ NoWaiterForgotten

(* A client that goes on waiting keeps what is under way for it, unless it *)
(* loses its descriptor or its message is read.                            *)
LEMMA KeepsWaiting ==
  ASSUME WaitInv, [ServerNext]_everything, NEW c \in Clients,
         awaiting[c], awaiting'[c],
         \A d \in Descriptors : open[d] = c => open'[d] = c,
         inbox[c] # "empty" => inbox'[c] # "empty"
  PROVE  \/ inbox'[c] # "empty"
         \/ \E d \in Descriptors : open'[d] = c /\ InFlight(<<d, c>>)'
<1> SUFFICES ASSUME NEW d \in Descriptors, open[d] = c, InFlight(<<d, c>>)
             PROVE  InFlight(<<d, c>>)'
  BY DEF WaitInv, NoWaiterForgotten
<1>1. peer[c] # "left" /\ <<d, c>> \in Jobs /\ ServerInv
  BY ServerAssumption DEF WaitInv, Waiters
<1>2. \A w \in Workers : job[w] = <<d, c>> => ~Respond(w)
  BY <1>1, AnswerReaches
<1> QED
  BY <1>1, <1>2, JobStays

LEMMA WaitStep ==
  ASSUME WaitInv, [ServerNext]_everything, NEW c \in Clients, awaiting'[c]
  PROVE  /\ peer'[c] \in {"connecting", "connected"}
         /\ \/ inbox'[c] # "empty"
            \/ \E d \in Descriptors : open'[d] = c /\ InFlight(<<d, c>>)'
<1>1. ServerInv /\ Waiters
  BY DEF WaitInv
<1> USE DEF ServerInv, ServerTypeOK, Waiters
<1>2. CASE \/ BuildSet \/ Select \/ NoConnection \/ SkipClient
           \/ JobAdded \/ CleanUp \/ KeepEntry \/ EndCleanUp \/ Stop \/ Signal
           \/ PoolCaller
           \/ (\E w \in Workers : PoolWorker(w) \/ TakeRequest(w) \/ Broadcast(w)
                                  \/ Respond(w) \/ BrokenPipe(w))
           \/ UNCHANGED everything
  <2>1. UNCHANGED <<open, peer, inbox>> /\ awaiting[c]
    BY <1>1, <1>2 DEF BuildSet, Select, NoConnection, SkipClient, JobAdded,
       CleanUp, KeepEntry, EndCleanUp, Stop, Signal, PoolCaller, PoolWorker,
       TakeRequest, Broadcast, Respond, BrokenPipe, everything, server, sockets
  <2> QED
    BY <1>1, <2>1, KeepsWaiting
<1>3. CASE AcceptConnection
  <2>1. PICK e \in Clients :
          /\ peer[e] = "connecting"
          /\ \/ /\ open' = [open EXCEPT ![LowestFree] = e]
                /\ peer' = [peer EXCEPT ![e] = "connected"]
                /\ UNCHANGED <<inbox, awaiting>>
             \/ /\ peer' = [peer EXCEPT ![e] = "away"]
                /\ inbox' = [inbox EXCEPT ![e] = "empty"]
                /\ awaiting' = [awaiting EXCEPT ![e] = FALSE]
                /\ UNCHANGED open
    BY <1>3 DEF AcceptConnection
  <2>2. open[LowestFree] = Nobody
    BY <1>1, <2>1, DescriptorLeft
  <2>3. \A d \in Descriptors : open[d] = c => open'[d] = c
    BY <1>1, <2>1, <2>2, ServerAssumption
  <2>4. awaiting[c] /\ inbox'[c] = inbox[c] /\ peer'[c] \in {peer[c], "connected"}
    BY <1>1, <2>1
  <2> QED
    BY <1>1, <2>3, <2>4, KeepsWaiting
<1>4. CASE ReceiveMessage
  <2>1. PICK d \in Descriptors :
          /\ Reading(d)
          /\ AddJob(<<d, open[d]>>)
          /\ inbox' = [inbox EXCEPT ![open[d]] = "empty"]
    BY <1>4 DEF ReceiveMessage
  <2>2. UNCHANGED <<open, peer, awaiting>>
    BY <1>4 DEF ReceiveMessage
  <2>3. CASE open[d] = c
    <3>1. InFlight(<<d, c>>)'
      BY <2>1, <2>3 DEF AddJob, InFlight
    <3> QED
      BY <1>1, <2>2, <2>3, <3>1
  <2>4. CASE open[d] # c
    <3>1. inbox'[c] = inbox[c]
      BY <1>1, <2>1, <2>4
    <3> QED
      BY <1>1, <2>2, <3>1, KeepsWaiting
  <2> QED
    BY <2>3, <2>4
<1>5. CASE ConnectionClosed
  <2>1. PICK d \in Descriptors :
          /\ Reading(d)
          /\ peer[open[d]] = "left"
          /\ open' = [open EXCEPT ![d] = Nobody]
          /\ peer' = [peer EXCEPT ![open[d]] = "away"]
          /\ inbox' = [inbox EXCEPT ![open[d]] = "empty"]
          /\ UNCHANGED awaiting
    BY <1>5 DEF ConnectionClosed
  <2>2. open[d] # c
    BY <1>1, <2>1
  <2>3. peer'[c] = peer[c] /\ inbox'[c] = inbox[c] /\ awaiting[c]
        /\ \A e \in Descriptors : open[e] = c => open'[e] = c
    BY <1>1, <2>1, <2>2
  <2> QED
    BY <1>1, <2>3, KeepsWaiting
<1>6. ASSUME NEW e \in Clients, Client(e)
      PROVE  /\ peer'[c] \in {"connecting", "connected"}
             /\ \/ inbox'[c] # "empty"
                \/ \E d \in Descriptors : open'[d] = c /\ InFlight(<<d, c>>)'
  <2>1. UNCHANGED open
    BY <1>6 DEF Client, Connect, SendHeader, SendPayload, Leave
  <2>2. CASE e = c /\ SendHeader(c)
    BY <1>1, <2>2 DEF SendHeader
  <2>3. CASE e # c \/ ~SendHeader(e)
    <3>1. awaiting[c] /\ peer'[c] = peer[c]
          /\ (inbox[c] # "empty" => inbox'[c] # "empty")
      BY <1>1, <1>6, <2>3 DEF Client, Connect, SendHeader, SendPayload, Leave
    <3> QED
      BY <1>1, <2>1, <3>1, KeepsWaiting
  <2> QED
    BY <2>2, <2>3
<1> QED
  BY <1>2, <1>3, <1>4, <1>5, <1>6 DEF ServerNext, Main, Serve

(* However clients come and go, and although a descriptor is closed and    *)
(* given to the next while jobs that carry it wait: a client that waits    *)
(* for an answer has its request in its socket, or in a job that carries   *)
(* the descriptor it has now, so a job whose descriptor belongs to another *)
(* by now is one that nobody waits for (server.c:278, server.c:301,        *)
(* request_handler.c:218).                                                 *)
THEOREM NoWaiterLost == ServerSpec => []NoWaiterForgotten
<1>1. ServerInit => WaitInv
  BY ServerInvInit DEF ServerInit, WaitInv, Waiters, NoWaiterForgotten
<1>2. WaitInv /\ [ServerNext]_everything => WaitInv'
  BY ServerInvStep, WaitStep DEF WaitInv, Waiters, NoWaiterForgotten
<1>3. WaitInv => NoWaiterForgotten
  BY DEF WaitInv
<1> QED
  BY <1>1, <1>2, <1>3, PTL DEF ServerSpec

-----------------------------------------------------------------------------
(* While clients stay, the requests of each are counted wherever they are. *)

InSocket(c) == IF inbox[c] # "empty" THEN 1 ELSE 0
InHand(c) == IF Adding /\ request[2] = c THEN 1 ELSE 0
Places(s, n, c) == {i \in 1 .. n : s[i][2] = c}
Holders(c) == {w \in Workers : worker[w] = "handling" /\ job[w][2] = c}

Waits(c) == IF awaiting[c] THEN 1 ELSE 0

LEMMA AtMostOne ==
  ASSUME NEW c, NEW S \in SUBSET {c}
  PROVE  Cardinality(S) = IF c \in S THEN 1 ELSE 0
<1>1. S = {} \/ S = {c}
  OBVIOUS
<1>2. Cardinality({}) = 0 /\ Cardinality({c}) = 1
  BY FS_EmptySet, FS_Singleton
<1> QED
  BY <1>1, <1>2

LEMMA CountedOnce ==
  \A c \in Clients :
    OnTheWay(c) = InSocket(c) + InHand(c) + Cardinality(Places(Pending, count, c))
                  + Cardinality(Holders(c))
<1> SUFFICES ASSUME NEW c \in Clients
             PROVE  OnTheWay(c) = InSocket(c) + InHand(c)
                      + Cardinality(Places(Pending, count, c)) + Cardinality(Holders(c))
  OBVIOUS
<1>1. Cardinality({x \in {c} : inbox[x] # "empty"}) = InSocket(c)
  <2> DEFINE S == {x \in {c} : inbox[x] # "empty"}
  <2>1. Cardinality(S) = IF c \in S THEN 1 ELSE 0
    BY AtMostOne
  <2> QED
    BY <2>1 DEF InSocket
<1>2. Cardinality({x \in {c} : caller \in {"adding", "waiting"} /\ request[2] = x})
        = InHand(c)
  <2> DEFINE S == {x \in {c} : caller \in {"adding", "waiting"} /\ request[2] = x}
  <2>1. Cardinality(S) = IF c \in S THEN 1 ELSE 0
    BY AtMostOne
  <2> QED
    BY <2>1 DEF InHand, Adding
<1> QED
  BY <1>1, <1>2 DEF OnTheWay, Places, Holders

(* The places of a client's requests in the queue, when one is put at the  *)
(* end and when one is taken from the front.                               *)
LEMMA PlacesFinite ==
  ASSUME NEW s, NEW n \in Nat, NEW c
  PROVE  IsFiniteSet(Places(s, n, c)) /\ Cardinality(Places(s, n, c)) \in Nat
<1>1. IsFiniteSet(1 .. n) /\ Places(s, n, c) \in SUBSET (1 .. n)
  BY FS_Interval DEF Places
<1> QED
  BY <1>1, FS_Subset, FS_CardinalityType

LEMMA PlacesAppend ==
  ASSUME NEW s \in Seq(Jobs), NEW j \in Jobs, NEW c
  PROVE  Cardinality(Places(Append(s, j), Len(s) + 1, c))
           = Cardinality(Places(s, Len(s), c)) + (IF j[2] = c THEN 1 ELSE 0)
<1> DEFINE n == Len(s)
           A == Places(s, n, c)
           B == Places(Append(s, j), n + 1, c)
<1>1. n \in Nat /\ IsFiniteSet(A) /\ n + 1 \notin A /\ Cardinality(A) \in Nat
  <2>1. n \in Nat
    OBVIOUS
  <2>2. IsFiniteSet(A) /\ Cardinality(A) \in Nat
    BY <2>1, PlacesFinite
  <2>3. n + 1 \notin A
    BY <2>1 DEF Places
  <2> QED
    BY <2>1, <2>2, <2>3
<1>2. /\ \A i \in 1 .. n : Append(s, j)[i] = s[i]
      /\ Append(s, j)[n + 1] = j
  OBVIOUS
<1>3. CASE j[2] = c
  <2>1. B = A \cup {n + 1}
    BY <1>1, <1>2, <1>3 DEF Places
  <2> QED
    BY <1>1, <1>3, <2>1, FS_AddElement
<1>4. CASE j[2] # c
  <2>1. B = A
    BY <1>1, <1>2, <1>4 DEF Places
  <2> QED
    BY <1>1, <1>4, <2>1
<1> QED
  BY <1>3, <1>4

LEMMA PlacesTail ==
  ASSUME NEW s \in Seq(Jobs), s # << >>, NEW c
  PROVE  Cardinality(Places(Tail(s), Len(s) - 1, c))
           = Cardinality(Places(s, Len(s), c)) - (IF Head(s)[2] = c THEN 1 ELSE 0)
<1> DEFINE n == Len(s)
           A == Places(s, n, c)
           B == Places(Tail(s), n - 1, c)
           f == [i \in B |-> i + 1]
<1>1. n \in Nat \ {0} /\ n - 1 \in Nat
      /\ IsFiniteSet(A) /\ Cardinality(A) \in Nat /\ IsFiniteSet(B)
  BY PlacesFinite
<1>2. /\ \A i \in 1 .. n - 1 : Tail(s)[i] = s[i + 1]
      /\ Head(s) = s[1]
  OBVIOUS
<1>3. B \subseteq 1 .. n - 1 /\ A \subseteq 1 .. n
  BY DEF Places
<1>4. f \in Bijection(B, A \ {1})
  <2>1. f \in [B -> A \ {1}]
    BY <1>1, <1>2 DEF Places
  <2>2. \A x, y \in B : f[x] = f[y] => x = y
    BY <1>3
  <2>3. \A k \in A \ {1} : k - 1 \in B /\ f[k - 1] = k
    <3> SUFFICES ASSUME NEW k \in A \ {1} PROVE k - 1 \in B /\ f[k - 1] = k
      OBVIOUS
    <3>1. k \in 2 .. n /\ s[k][2] = c
      BY <1>1 DEF Places
    <3>2. k - 1 \in 1 .. n - 1 /\ Tail(s)[k - 1] = s[k]
      BY <1>1, <1>2, <3>1
    <3>3. k - 1 \in B
      BY <3>1, <3>2 DEF Places
    <3> QED
      BY <3>1, <3>3
  <2>4. f \in Injection(B, A \ {1})
    BY <2>1, <2>2 DEF Injection, IsInjective
  <2>5. f \in Surjection(B, A \ {1})
    BY <2>1, <2>3 DEF Surjection
  <2> QED
    BY <2>4, <2>5 DEF Bijection
<1>5. Cardinality(A \ {1}) = Cardinality(B)
  BY <1>1, <1>4, FS_Bijection DEF ExistsBijection
<1>6. 1 \in A <=> Head(s)[2] = c
  BY <1>1, <1>2 DEF Places
<1>7. Cardinality(A \ {1}) = IF 1 \in A THEN Cardinality(A) - 1 ELSE Cardinality(A)
  BY <1>1, FS_RemoveElement
<1> QED
  BY <1>1, <1>5, <1>6, <1>7

(* The requests a worker has at hand. *)
LEMMA HoldersFinite ==
  ASSUME NEW c
  PROVE  IsFiniteSet(Holders(c)) /\ Cardinality(Holders(c)) \in Nat
<1>1. Holders(c) \in SUBSET Workers
  BY DEF Holders
<1> QED
  BY <1>1, PoolAssumption, FS_Subset, FS_CardinalityType

Total(c) == InSocket(c) + InHand(c) + Cardinality(Places(Pending, count, c))
              + Cardinality(Holders(c))

EachOne == \A c \in Clients : Total(c) = Waits(c)

(* A client that is not yet accepted has nothing on its way past its socket. *)
LEMMA NothingYet ==
  ASSUME StayInv, NEW c \in Clients, peer[c] = "connecting"
  PROVE  /\ InHand(c) = 0
         /\ Cardinality(Places(Pending, count, c)) = 0
         /\ Cardinality(Holders(c)) = 0
<1> USE DEF StayInv, AllStay
<1>1. \A j \in Jobs : Current(j) => j[2] # c
  BY ServerAssumption DEF Current, ServerInv, Connections
<1>2. TypeOK /\ \A i \in 1 .. count : Pending[i] \in Jobs
  <2>1. TypeOK
    BY DEF ServerInv, PoolInv
  <2> QED
    BY <2>1, PendingType DEF TypeOK
<1>3. InHand(c) = 0
  BY <1>1, <1>2 DEF InHand, Adding, TypeOK
<1>4. Places(Pending, count, c) = {}
  BY <1>1, <1>2 DEF Places
<1>5. Holders(c) = {}
  BY <1>1, <1>2 DEF Holders, TypeOK
<1> QED
  BY <1>3, <1>4, <1>5, FS_EmptySet

LEMMA OneStep ==
  ASSUME ~Leaving, StayInv, EachOne, [ServerNext]_everything, NEW c \in Clients
  PROVE  Total(c)' = Waits(c)'
<1> DEFINE q == Cardinality(Places(Pending, count, c))
           h == Cardinality(Holders(c))
<1>1. /\ TypeOK /\ ServerTypeOK /\ ServerInv
      /\ q \in Nat /\ h \in Nat
      /\ Total(c) = InSocket(c) + InHand(c) + q + h
      /\ Total(c) = Waits(c)
  <2>1. TypeOK /\ ServerTypeOK /\ ServerInv
    BY DEF StayInv, ServerInv, PoolInv
  <2>2. count \in Nat
    BY <2>1 DEF TypeOK
  <2> QED
    BY <2>1, <2>2, PlacesFinite, HoldersFinite DEF EachOne, Total
<1>2. Total(c)' = InSocket(c)' + InHand(c)' + q' + h'
  BY DEF Total
<1>3. ASSUME UNCHANGED <<queue, head, count>> PROVE q' = q
  BY <1>3 DEF Pending
<1>4. ASSUME job' = job,
             \A w \in Workers : worker'[w] = "handling" <=> worker[w] = "handling"
      PROVE  h' = h
  <2>1. Holders(c)' = Holders(c)
    BY <1>4 DEF Holders
  <2> QED
    BY <2>1
<1>5. ASSUME UNCHANGED <<pool, awaiting>>,
             inbox'[c] = "empty" <=> inbox[c] = "empty"
      PROVE  Total(c)' = Waits(c)'
  BY <1>1, <1>2, <1>3, <1>4, <1>5 DEF pool, InSocket, InHand, Adding, Waits
<1>6. CASE \/ BuildSet \/ Select \/ NoConnection \/ SkipClient \/ JobAdded
           \/ CleanUp \/ KeepEntry \/ EndCleanUp \/ Signal
           \/ (\E w \in Workers : Broadcast(w) \/ BrokenPipe(w))
           \/ (\E e \in Clients : Connect(e) \/ SendPayload(e) \/ Leave(e))
           \/ UNCHANGED everything
  <2>1. UNCHANGED <<pool, awaiting>> /\ (inbox'[c] = "empty" <=> inbox[c] = "empty")
    BY <1>1, <1>6 DEF BuildSet, Select, NoConnection, SkipClient, JobAdded, CleanUp,
       KeepEntry, EndCleanUp, Signal, Broadcast, BrokenPipe, Connect, SendPayload,
       Leave, everything, server, sockets, ServerTypeOK
  <2> QED
    BY <1>5, <2>1
<1>7. CASE AcceptConnection
  <2>1. PICK e \in Clients :
          /\ peer[e] = "connecting"
          /\ \/ UNCHANGED <<inbox, awaiting>>
             \/ /\ inbox' = [inbox EXCEPT ![e] = "empty"]
                /\ awaiting' = [awaiting EXCEPT ![e] = FALSE]
    BY <1>7 DEF AcceptConnection
  <2>2. UNCHANGED pool
    BY <1>7 DEF AcceptConnection
  <2>3. CASE UNCHANGED <<inbox, awaiting>>
    BY <1>5, <2>2, <2>3
  <2>4. CASE /\ inbox' = [inbox EXCEPT ![e] = "empty"]
             /\ awaiting' = [awaiting EXCEPT ![e] = FALSE]
    <3>1. InHand(c)' = InHand(c) /\ q' = q /\ h' = h
      BY <1>3, <1>4, <2>2 DEF pool, InHand, Adding
    <3>2. CASE e = c
      <4>1. InHand(c) = 0 /\ q = 0 /\ h = 0
        BY <2>1, <3>2, NothingYet
      <4>2. InSocket(c)' = 0 /\ Waits(c)' = 0
        BY <1>1, <2>4, <3>2 DEF InSocket, Waits, ServerTypeOK
      <4> QED
        BY <1>2, <3>1, <4>1, <4>2
    <3>3. CASE e # c
      <4>1. InSocket(c)' = InSocket(c) /\ Waits(c)' = Waits(c)
        BY <1>1, <2>4, <3>3 DEF InSocket, Waits, ServerTypeOK
      <4> QED
        BY <1>1, <1>2, <3>1, <4>1
    <3> QED
      BY <3>2, <3>3
  <2> QED
    BY <2>1, <2>3, <2>4
<1>8. CASE ReceiveMessage
  <2>1. PICK d \in Descriptors :
          /\ Reading(d)
          /\ inbox[open[d]] = "whole"
          /\ AddJob(<<d, open[d]>>)
          /\ inbox' = [inbox EXCEPT ![open[d]] = "empty"]
    BY <1>8 DEF ReceiveMessage
  <2>2. open[d] \in Clients
    BY <1>1, <2>1, ReadingIsOpen
  <2>3. q' = q /\ h' = h /\ Waits(c)' = Waits(c)
    BY <1>3, <1>4, <1>8, <2>1 DEF AddJob, ReceiveMessage, Waits
  <2>4. InHand(c) = 0 /\ InHand(c)' = IF open[d] = c THEN 1 ELSE 0
    BY <2>1 DEF AddJob, InHand, Adding
  <2>5. /\ open[d] = c => InSocket(c) = 1 /\ InSocket(c)' = 0
        /\ open[d] # c => InSocket(c)' = InSocket(c)
    BY <1>1, <2>1, <2>2 DEF InSocket, ServerTypeOK
  <2>6. InSocket(c) \in Nat
    BY DEF InSocket
  <2> QED
    BY <1>1, <1>2, <2>3, <2>4, <2>5, <2>6
<1>9. CASE ConnectionClosed
  <2>1. PICK d \in Descriptors : Reading(d) /\ peer[open[d]] = "left"
    BY <1>9 DEF ConnectionClosed
  <2>2. open[d] \in Clients
    BY <1>1, <2>1, ReadingIsOpen
  <2> QED
    BY <2>1, <2>2 DEF StayInv, AllStay
<1>10. CASE Stop \/ PoolCaller
  <2>1. /\ \/ CreateWorker \/ AbortBroadcast \/ Reap \/ WaitNotFull \/ Enqueue \/ Join
           \/ Shutdown
        /\ UNCHANGED <<inbox, awaiting>>
    BY <1>10 DEF Stop, PoolCaller, Caller, server, sockets
  <2>2. UNCHANGED <<job, request>>
    BY <2>1 DEF CreateWorker, AbortBroadcast, Reap, WaitNotFull, Enqueue, Join,
       Shutdown
  <2>3. ASSUME NEW w \in Workers
        PROVE  worker'[w] = "handling" <=> worker[w] = "handling"
    BY <1>1, <2>1 DEF CreateWorker, AbortBroadcast, Reap, WaitNotFull, Enqueue, Join,
       Shutdown, WakeAll, WakeOne, Sleepers, TypeOK
  <2>4. h' = h /\ InSocket(c)' = InSocket(c) /\ Waits(c)' = Waits(c)
    BY <1>4, <2>1, <2>2, <2>3 DEF InSocket, Waits
  <2>5. CASE Enqueue
    <3>1. Pending' = Append(Pending, request) /\ count' = count + 1
      BY <1>1, <2>5, EnqueuePuts DEF Queue!Put, Enqueue, ServerInv
    <3>2. Pending \in Seq(Jobs) /\ Len(Pending) = count /\ request \in Jobs
      BY <1>1, <2>5, QueueStep DEF Enqueue, TypeOK
    <3>3. q' = q + (IF request[2] = c THEN 1 ELSE 0)
      BY <3>1, <3>2, PlacesAppend
    <3>4. InHand(c)' = 0 /\ InHand(c) = IF request[2] = c THEN 1 ELSE 0
      BY <2>5 DEF Enqueue, InHand, Adding
    <3> QED
      BY <1>1, <1>2, <2>4, <3>3, <3>4 DEF InSocket, Waits
  <2>6. CASE CreateWorker \/ AbortBroadcast \/ Reap \/ WaitNotFull \/ Join \/ Shutdown
    <3>1. UNCHANGED <<queue, head, count, request>> /\ (Adding' <=> Adding)
      BY <2>6 DEF CreateWorker, AbortBroadcast, Reap, WaitNotFull, Join, Shutdown,
         Adding
    <3>2. q' = q /\ InHand(c)' = InHand(c)
      BY <1>3, <3>1 DEF InHand
    <3> QED
      BY <1>1, <1>2, <2>4, <3>2
  <2> QED
    BY <2>1, <2>5, <2>6
<1>11. ASSUME NEW v \in Workers, PoolWorker(v)
       PROVE  Total(c)' = Waits(c)'
  <2>1. UNCHANGED <<queue, head, count, caller, job, request, inbox, awaiting>>
    BY <1>11 DEF PoolWorker, Check, Wait, Exit, server, sockets
  <2>2. \A w \in Workers : worker'[w] = "handling" <=> worker[w] = "handling"
    BY <1>1, <1>11 DEF PoolWorker, Check, Wait, Exit, TypeOK
  <2>3. q' = q /\ h' = h
    BY <1>3, <1>4, <2>1, <2>2
  <2> QED
    BY <1>1, <1>2, <2>1, <2>3 DEF InSocket, InHand, Adding, Waits
<1>12. ASSUME NEW v \in Workers, TakeRequest(v)
       PROVE  Total(c)' = Waits(c)'
  <2>1. TakeJob(v) /\ UNCHANGED <<inbox, awaiting, request>>
        /\ (Adding' <=> Adding)
    BY <1>12 DEF TakeRequest, sockets, TakeJob, SignalNotFull, Adding
  <2>2. /\ Pending # << >> /\ Pending' = Tail(Pending) /\ count' = count - 1
        /\ job' = [job EXCEPT ![v] = Head(Pending)]
    BY <1>1, <2>1, TakeTakes DEF Queue!Take, TakeJob, ServerInv
  <2>3. Pending \in Seq(Jobs) /\ Len(Pending) = count
    BY <1>1, QueueStep
  <2>4. q' = q - (IF Head(Pending)[2] = c THEN 1 ELSE 0)
    BY <2>2, <2>3, PlacesTail
  <2>5. /\ worker[v] = "ready" /\ worker' = [worker EXCEPT ![v] = "handling"]
        /\ v \notin Holders(c)
    BY <2>1 DEF TakeJob, Holders
  <2>6. Holders(c)' = IF Head(Pending)[2] = c THEN Holders(c) \cup {v} ELSE Holders(c)
    BY <1>1, <2>2, <2>5 DEF Holders, TypeOK
  <2>7. Cardinality(Holders(c) \cup {v}) = h + 1
    BY <2>5, HoldersFinite, FS_AddElement
  <2>8. h' = h + (IF Head(Pending)[2] = c THEN 1 ELSE 0)
    BY <1>1, <2>6, <2>7
  <2>9. InSocket(c)' = InSocket(c) /\ InHand(c)' = InHand(c) /\ Waits(c)' = Waits(c)
    BY <2>1 DEF InSocket, InHand, Waits
  <2> QED
    BY <1>1, <1>2, <2>4, <2>8, <2>9 DEF InSocket, InHand
<1>13. ASSUME NEW v \in Workers, Respond(v)
       PROVE  Total(c)' = Waits(c)'
  <2>1. /\ worker[v] = "handling" /\ worker' = [worker EXCEPT ![v] = "ready"]
        /\ UNCHANGED <<queue, head, count, caller, job, request, inbox>>
    BY <1>13 DEF Respond, FinishJob
  <2>2. open[job[v][1]] = job[v][2] /\ job[v] \in Jobs
    BY <1>1, <2>1 DEF StayInv, AllStay, Current, TypeOK
  <2>3. awaiting'[c] = (awaiting[c] /\ job[v][2] # c)
    BY <1>13, <2>2 DEF Respond, StayInv, AllStay
  <2>4. Holders(c)' = IF job[v][2] = c THEN Holders(c) \ {v} ELSE Holders(c)
    BY <1>1, <2>1 DEF Holders, TypeOK
  <2>5. v \in Holders(c) <=> job[v][2] = c
    BY <2>1 DEF Holders
  <2>6. Cardinality(Holders(c) \ {v})
          = IF v \in Holders(c) THEN h - 1 ELSE h
    BY HoldersFinite, FS_RemoveElement
  <2>7. h' = h - (IF job[v][2] = c THEN 1 ELSE 0)
    BY <1>1, <2>4, <2>5, <2>6
  <2>8. q' = q /\ InSocket(c)' = InSocket(c) /\ InHand(c)' = InHand(c)
    BY <1>3, <2>1 DEF InSocket, InHand, Adding
  <2>9. job[v][2] = c => h >= 1
    BY <2>5, HoldersFinite, FS_EmptySet
  <2>10. InSocket(c) \in Nat /\ InHand(c) \in Nat
    BY DEF InSocket, InHand
  <2>11. CASE job[v][2] = c
    <3>1. Waits(c) \in {0, 1} /\ Waits(c)' = 0
      BY <2>3, <2>11 DEF Waits
    <3>2. InSocket(c) = 0 /\ InHand(c) = 0 /\ q = 0 /\ h = 1
      BY <1>1, <2>9, <2>10, <2>11, <3>1
    <3> QED
      BY <1>2, <2>7, <2>8, <2>11, <3>1, <3>2
  <2>12. CASE job[v][2] # c
    <3>1. Waits(c)' = Waits(c)
      BY <1>1, <2>3, <2>12 DEF Waits, ServerTypeOK
    <3> QED
      BY <1>1, <1>2, <2>7, <2>8, <2>12, <3>1
  <2> QED
    BY <2>11, <2>12
<1>14. ASSUME NEW e \in Clients, SendHeader(e)
       PROVE  Total(c)' = Waits(c)'
  <2>1. /\ ~awaiting[e] /\ UNCHANGED pool
        /\ inbox' = [inbox EXCEPT ![e] = "header"]
        /\ awaiting' = [awaiting EXCEPT ![e] = TRUE]
    BY <1>14 DEF SendHeader
  <2>2. q' = q /\ h' = h /\ InHand(c)' = InHand(c)
    BY <1>3, <1>4, <2>1 DEF pool, InHand, Adding
  <2>3. CASE e = c
    <3>1. InSocket(c) = 0 /\ InHand(c) = 0 /\ q = 0 /\ h = 0
      BY <1>1, <2>1, <2>3 DEF InSocket, InHand, Waits
    <3>2. InSocket(c)' = 1 /\ Waits(c)' = 1
      BY <1>1, <2>1, <2>3 DEF InSocket, Waits, ServerTypeOK
    <3> QED
      BY <1>2, <2>2, <3>1, <3>2
  <2>4. CASE e # c
    <3>1. InSocket(c)' = InSocket(c) /\ Waits(c)' = Waits(c)
      BY <1>1, <2>1, <2>4 DEF InSocket, Waits, ServerTypeOK
    <3> QED
      BY <1>1, <1>2, <2>2, <3>1
  <2> QED
    BY <2>3, <2>4
<1>15. CASE \E w \in Workers : Serve(w)
  BY <1>6, <1>11, <1>12, <1>13, <1>15 DEF Serve
<1>16. CASE \E e \in Clients : Client(e)
  BY <1>6, <1>14, <1>16 DEF Client
<1> QED
  BY <1>6, <1>7, <1>8, <1>9, <1>10, <1>15, <1>16 DEF ServerNext, Main

LEMMA NobodyWaits == ServerInit => EachOne
<1> SUFFICES ASSUME ServerInit, NEW c \in Clients PROVE Total(c) = Waits(c)
  BY DEF EachOne
<1>1. InSocket(c) = 0 /\ InHand(c) = 0 /\ Waits(c) = 0
  BY DEF ServerInit, Init, InSocket, InHand, Adding, Waits
<1>2. Places(Pending, count, c) = {} /\ Holders(c) = {}
  BY DEF ServerInit, Init, Places, Holders
<1> QED
  BY <1>1, <1>2, FS_EmptySet DEF Total

(* While clients stay connected, a client waits for an answer exactly as   *)
(* long as one request of its own is on its way: the server loses no       *)
(* request and handles none twice (server.c:278, thread_pool.c:43).        *)
THEOREM OneRequestAnswered == ASSUME ~Leaving PROVE ServerSpec => []OneRequestEach
<1>1. ServerInit => StayInv /\ EachOne
  BY StayInvInit, NobodyWaits
<1>2. StayInv /\ EachOne /\ [ServerNext]_everything => StayInv' /\ EachOne'
  <2> SUFFICES ASSUME StayInv, EachOne, [ServerNext]_everything
               PROVE  StayInv' /\ EachOne'
    OBVIOUS
  <2>1. StayInv'
    BY StayInvStep
  <2>2. ASSUME NEW c \in Clients PROVE Total(c)' = Waits(c)'
    BY OneStep
  <2> QED
    BY <2>1, <2>2 DEF EachOne
<1>3. EachOne => OneRequestEach
  BY CountedOnce DEF EachOne, OneRequestEach, Total, Waits
<1> QED
  BY <1>1, <1>2, <1>3, PTL DEF ServerSpec
=============================================================================
