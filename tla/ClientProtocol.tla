--------------------------- MODULE ClientProtocol ---------------------------
(***************************************************************************)
(* One client program (client.c, client_auth.c, network_client.c) and what *)
(* reaches it from the server (request_handler.c, server.c): a request, a  *)
(* blocking read of one message, which is taken for the answer.  Nothing   *)
(* ties an answer to a request, the header field sequence_num is always 0. *)
(* Two threads of the server write to the socket, each a message in two    *)
(* sends: the worker that answers, and one that broadcasts a rare unboxing *)
(* to all.                                                                 *)
(*                                                                         *)
(* The stream is cut into units; a header is two of them, so that a client *)
(* which has lost one never finds a header again.                          *)
(***************************************************************************)
EXTENDS Integers, Sequences, FiniteSets

CONSTANTS
  Accounts,       \* the accounts the user may log in to
  NoAccount,      \* g_user_id = -1
  Sizes,          \* payload units that answers have
  MaxPayload,     \* MAX_PAYLOAD_SIZE
  MaxRequests,    \* bound on the requests of the client
  MaxBroadcasts,  \* bound on the broadcasts that reach it
  Ending          \* TRUE iff the server may end

ASSUME ClientAssumption ==
  /\ NoAccount \notin Accounts
  /\ Sizes \subseteq Nat /\ 0 \in Sizes
  /\ MaxPayload \in Nat \ {0}
  /\ MaxRequests \in Nat /\ MaxBroadcasts \in Nat
  /\ Ending \in BOOLEAN

VARIABLES
  client,      \* what the client program does: its locals
  g_user_id,   \* the account it acts for
  requests,    \* requests sent so far
  failed,      \* receive_message_from_server has failed
  toServer,    \* requests the server has not read
  jobs,        \* requests that workers handle, and what they are sending
  broadcast,   \* the broadcast being sent, if there is one
  broadcasts,  \* broadcasts begun so far
  toClient,    \* units the client has not read
  up           \* the server holds the connection open

vars == <<client, g_user_id, requests, failed, toServer, jobs, broadcast,
          broadcasts, toClient, up>>
ours == <<client, g_user_id, requests, failed>>
theirs == <<jobs, broadcast, broadcasts, up>>

-----------------------------------------------------------------------------
(* Messages *)

Kinds == {"register", "login", "logout", "other"}

(* A request, by its number, and the account whose name it carries. *)
Request(n, kind, account) == [number |-> n, kind |-> kind, account |-> account]

(* An answer has the number of its request, a broadcast one below 0.       *)
NoMessage == [number |-> 0, kind |-> "none", account |-> NoAccount, size |-> 0]
Chat(n) == [number |-> -n, kind |-> "chat", account |-> NoAccount, size |-> 1]

(* create_success_response and create_error_response.  An answer with data *)
(* longer than MAX_PAYLOAD_SIZE keeps the length; what is sent are the     *)
(* bytes from payload on, past its end.                                    *)
Answers(request) ==
  {[number |-> request.number, kind |-> request.kind,
    account |-> request.account, size |-> s] :
     s \in IF request.kind \in {"login", "register"} THEN {1}
           ELSE IF request.kind = "logout" THEN {0} ELSE Sizes}
  \cup {[number |-> request.number, kind |-> "error", account |-> NoAccount,
         size |-> 1] : x \in IF request.kind = "logout" THEN {} ELSE {1}}

Header(m) == <<[of |-> m, part |-> "first"], [of |-> m, part |-> "second"]>>
Payload(m) == [i \in 1 .. m.size |-> [of |-> m, part |-> "payload"]]

-----------------------------------------------------------------------------
(* The client *)

(* where: which loop of main it is in.  account: the name last typed.      *)
NewClient == [pc |-> "idle", where |-> "authenticate", kind |-> "other",
              account |-> NoAccount, header |-> NoMessage]

Waiting == client.pc \in {"header", "payload"}

(* send_message_to_server.  With the server gone the request is lost, or   *)
(* SIGPIPE ends the program.                                               *)
SendMessage(kind, account) ==
  /\ client.pc = "idle"
  /\ requests < MaxRequests
  /\ requests' = requests + 1
  /\ UNCHANGED <<g_user_id, failed, toClient>>
  /\ UNCHANGED theirs
  /\ \/ /\ client' = [client EXCEPT !.pc = "header", !.kind = kind,
                                    !.account = account]
        /\ toServer' = IF up THEN Append(toServer, Request(requests + 1, kind, account))
                       ELSE toServer
     \/ /\ ~up
        /\ client' = [client EXCEPT !.pc = "killed"]
        /\ UNCHANGED toServer

(* authenticate: handle_login or handle_register with the name typed. *)
HandleLogin ==
  /\ client.where = "authenticate"
  /\ \E a \in Accounts : SendMessage("login", a)

HandleRegister ==
  /\ client.where = "authenticate"
  /\ \E a \in Accounts : SendMessage("register", a)

(* "Auto login after registration" *)
LoginAfterRegister ==
  /\ client.where = "registered"
  /\ SendMessage("login", client.account)

(* Anything the menus ask for. *)
HandleMenu ==
  /\ client.where = "menu"
  /\ SendMessage("other", client.account)

(* Mutant of Logout: the answer is not read. *)
LogoutUnread ==
  /\ client.where = "menu"
  /\ client.pc = "idle"
  /\ requests < MaxRequests
  /\ requests' = requests + 1
  /\ client' = [client EXCEPT !.where = "authenticate"]
  /\ g_user_id' = NoAccount
  /\ toServer' = IF up THEN Append(toServer, Request(requests + 1, "logout", client.account))
                 ELSE toServer
  /\ UNCHANGED <<failed, toClient, theirs>>

Logout ==
  /\ client.where = "menu"
  /\ SendMessage("logout", client.account)

(* The screen that asked goes on with a message, or with none: an answer   *)
(* counts when its type is the one expected.                               *)
Proceed(m) ==
  LET j == client
      where == CASE j.kind = "logout" -> "authenticate"
                 [] j.kind = "login" -> IF m.kind = "login" THEN "menu" ELSE "authenticate"
                 [] j.kind = "register" -> IF m.kind = "register" THEN "registered"
                                           ELSE "authenticate"
                 [] j.kind = "other" -> "menu"
  IN  /\ client' = [j EXCEPT !.pc = "idle", !.where = where, !.header = NoMessage]
      /\ g_user_id' = CASE j.kind = "logout" -> NoAccount
                        [] j.kind \in {"login", "register"} /\ m.kind = j.kind -> m.account
                        [] OTHER -> g_user_id

Deliver(m) == Proceed(m) /\ UNCHANGED failed
ReceiveFails == Proceed(NoMessage) /\ failed' = TRUE

(* receive_message_from_server: sixteen bytes, in as many recvs as it      *)
(* takes, whose magic number is checked.                                   *)
ReceiveHeader ==
  /\ client.pc = "header"
  /\ Len(toClient) >= 2
  /\ toClient' = SubSeq(toClient, 3, Len(toClient))
  /\ LET m == toClient[1].of IN
     IF SubSeq(toClient, 1, 2) # Header(m) \/ m.size > MaxPayload
     THEN ReceiveFails
     ELSE IF m.size = 0 THEN Deliver(m)
     ELSE /\ client' = [client EXCEPT !.pc = "payload", !.header = m]
          /\ UNCHANGED <<g_user_id, failed>>
  /\ UNCHANGED <<requests, toServer>>
  /\ UNCHANGED theirs

(* Mutant of ReceivePayload: the checksum is not compared. *)
ReceiveUnchecked ==
  /\ client.pc = "payload"
  /\ LET m == client.header IN
     /\ Len(toClient) >= m.size
     /\ toClient' = SubSeq(toClient, m.size + 1, Len(toClient))
     /\ Deliver([m EXCEPT !.account = toClient[1].of.account])
  /\ UNCHANGED <<requests, toServer>>
  /\ UNCHANGED theirs

(* The bytes announced, whose checksum is checked. *)
ReceivePayload ==
  /\ client.pc = "payload"
  /\ LET m == client.header IN
     /\ Len(toClient) >= m.size
     /\ toClient' = SubSeq(toClient, m.size + 1, Len(toClient))
     /\ IF SubSeq(toClient, 1, m.size) = Payload(m) THEN Deliver(m) ELSE ReceiveFails
  /\ UNCHANGED <<requests, toServer>>
  /\ UNCHANGED theirs

(* recv returns 0 in either loop.  is_connected stays true. *)
ConnectionClosed ==
  /\ Waiting
  /\ ~up
  /\ Len(toClient) < (IF client.pc = "header" THEN 2 ELSE client.header.size)
  /\ toClient' = << >>
  /\ ReceiveFails
  /\ UNCHANGED <<requests, toServer>>
  /\ UNCHANGED theirs

(* disconnect_from_server, at the end of main. *)
Exit ==
  /\ client.pc = "idle"
  /\ client.where \in {"authenticate", "menu"}
  /\ client' = [client EXCEPT !.pc = "left"]
  /\ toClient' = << >>
  /\ UNCHANGED <<g_user_id, requests, failed, toServer>>
  /\ UNCHANGED theirs

-----------------------------------------------------------------------------
(* The server: the main thread reads, workers answer. *)

NoBroadcast == NoMessage

(* receive_message and thread_pool_add_job, under the mutex that a         *)
(* broadcast holds from the first client to the last.                      *)
ReadRequest ==
  /\ up
  /\ broadcast = NoBroadcast
  /\ toServer # << >>
  /\ \E m \in Answers(Head(toServer)) :
       jobs' = jobs \cup {[answer |-> m, sent |-> "nothing"]}
  /\ toServer' = Tail(toServer)
  /\ UNCHANGED <<broadcast, broadcasts, up, toClient>>
  /\ UNCHANGED ours

(* Sending to a client that has left is the business of module Server. *)
Reachable == up /\ client.pc \notin {"left", "killed"}
Sent(units) == toClient' = IF Reachable THEN toClient \o units ELSE toClient

(* send_response: the header ...  *)
SendResponse ==
  /\ \E j \in jobs :
       /\ j.sent = "nothing"
       /\ Sent(Header(j.answer))
       /\ jobs' = IF j.answer.size = 0 THEN jobs \ {j}
                  ELSE (jobs \ {j}) \cup {[j EXCEPT !.sent = "header"]}
  /\ UNCHANGED <<toServer, broadcast, broadcasts, up>>
  /\ UNCHANGED ours

(* Mutant of SendResponsePayload: the first unit of the payload is lost. *)
SendPartOfPayload ==
  /\ \E j \in jobs :
       /\ j.sent = "header"
       /\ Sent(Tail(Payload(j.answer)))
       /\ jobs' = jobs \ {j}
  /\ UNCHANGED <<toServer, broadcast, broadcasts, up>>
  /\ UNCHANGED ours

(* ... and the payload. *)
SendResponsePayload ==
  /\ \E j \in jobs :
       /\ j.sent = "header"
       /\ Sent(Payload(j.answer))
       /\ jobs' = jobs \ {j}
  /\ UNCHANGED <<toServer, broadcast, broadcasts, up>>
  /\ UNCHANGED ours

(* broadcast_to_all_clients: the header ... *)
Broadcast ==
  /\ Reachable
  /\ broadcast = NoBroadcast
  /\ broadcasts < MaxBroadcasts
  /\ broadcasts' = broadcasts + 1
  /\ broadcast' = Chat(broadcasts + 1)
  /\ Sent(Header(broadcast'))
  /\ UNCHANGED <<toServer, jobs, up>>
  /\ UNCHANGED ours

(* ... and the payload. *)
BroadcastPayload ==
  /\ up
  /\ broadcast # NoBroadcast
  /\ Sent(Payload(broadcast))
  /\ broadcast' = NoBroadcast
  /\ UNCHANGED <<toServer, jobs, broadcasts, up>>
  /\ UNCHANGED ours

(* The process ends, or closes the connection; what it was sending is lost. *)
ServerEnds ==
  /\ Ending
  /\ up
  /\ up' = FALSE
  /\ jobs' = {}
  /\ broadcast' = NoBroadcast
  /\ toServer' = << >>
  /\ UNCHANGED <<broadcasts, toClient>>
  /\ UNCHANGED ours

-----------------------------------------------------------------------------
(* connect_to_server has succeeded. *)
Init ==
  /\ client = NewClient
  /\ g_user_id = NoAccount
  /\ requests = 0
  /\ failed = FALSE
  /\ toServer = << >>
  /\ jobs = {}
  /\ broadcast = NoBroadcast
  /\ broadcasts = 0
  /\ toClient = << >>
  /\ up = TRUE

User == \/ HandleLogin \/ HandleRegister \/ LoginAfterRegister \/ HandleMenu
        \/ Logout \/ Exit

Receive == ReceiveHeader \/ ReceivePayload \/ ConnectionClosed

Server == \/ ReadRequest \/ SendResponse \/ SendResponsePayload
          \/ BroadcastPayload

Next == User \/ Receive \/ Server \/ Broadcast \/ ServerEnds

(* The threads of the server run, broadcasts do not keep the mutex from    *)
(* the main thread for ever, and the client reads what has come; the user  *)
(* may stop typing, and nobody need unbox anything.                        *)
Fairness ==
  /\ WF_vars(Receive)
  /\ WF_vars(ReadRequest)
  /\ WF_vars(SendResponse)
  /\ WF_vars(SendResponsePayload)
  /\ WF_vars(BroadcastPayload)

Spec == Init /\ [][Next]_vars /\ Fairness

-----------------------------------------------------------------------------
(* Properties *)

(* The messages begun in a stretch of the stream. *)
Begun(units) == {i \in DOMAIN units : units[i].part = "first"}

(* The client counts: it reads one message for each request, and each      *)
(* request gets one.  So every broadcast puts it one message behind, for   *)
(* as long as it runs: until a read fails, the messages it has not read    *)
(* when it is idle are as many as there were broadcasts, and the last of   *)
(* them are answers it takes for those of later requests.                  *)
LagsByBroadcasts ==
  /\ client.pc = "idle" /\ up /\ ~failed
  /\ toServer = << >> /\ jobs = {} /\ broadcast = NoBroadcast
  => Cardinality(Begun(toClient)) = broadcasts

(* The client acts for an account that an answer has named: what is taken  *)
(* for an answer is a message the server sent as it stands, although the   *)
(* threads that answer and broadcast write into each other's messages.  As *)
(* long as no broadcast has reached it and no read has failed, it is the   *)
(* account whose name was typed last: an answer to an earlier login is not *)
(* taken for that to a later one.                                          *)
ActsAsLoggedIn ==
  client.where = "menu" =>
    /\ g_user_id \in Accounts
    /\ broadcasts = 0 /\ ~failed => g_user_id = client.account

(* A read returns: with a message, or with an error.  The client is never  *)
(* left waiting, even when it takes a broadcast or an answer too long for  *)
(* it and reads headers where there are none from then on.                 *)
ReadReturns == Waiting ~> ~Waiting
=============================================================================
