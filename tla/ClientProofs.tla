----------------------------- MODULE ClientProofs -----------------------------
(***************************************************************************)
(* Theorems about ClientProtocol for all accounts, every size of answers   *)
(* and every number of requests and broadcasts: whom the client acts for,  *)
(* and how far broadcasts put it behind.                                   *)
(***************************************************************************)
EXTENDS ClientProtocol, FiniteSetTheorems, SequenceTheorems, TLAPS

-----------------------------------------------------------------------------
(* Messages.                                                               *)

MessageKinds == Kinds \cup {"error", "chat", "none"}

(* A message in answer to a login or a registration names an account. *)
Names(m) == m.kind \in {"login", "register"} => m.account \in Accounts

Messages ==
  {m \in [number : Int, kind : MessageKinds, account : Accounts \cup {NoAccount},
          size : Nat] : Names(m)}
Units == [of : Messages, part : {"first", "second", "payload"}]
Asks ==
  {r \in [number : Nat, kind : Kinds, account : Accounts \cup {NoAccount}] : Names(r)}

LEMMA NoMessageFacts ==
  /\ NoMessage \in Messages /\ NoMessage.kind = "none"
  /\ NoMessage.account = NoAccount /\ NoMessage.size = 0
BY DEF NoMessage, Messages, MessageKinds, Names

LEMMA ChatFacts ==
  ASSUME NEW n \in Nat
  PROVE  Chat(n) \in Messages /\ (n > 0 => Chat(n) # NoMessage)
BY DEF Chat, NoMessage, Messages, MessageKinds, Names

LEMMA RequestFacts ==
  ASSUME NEW n \in Nat, NEW kind \in Kinds, NEW a \in Accounts \cup {NoAccount},
         kind \in {"login", "register"} => a \in Accounts
  PROVE  /\ Request(n, kind, a) \in Asks
         /\ Request(n, kind, a).number = n
         /\ Request(n, kind, a).kind = kind /\ Request(n, kind, a).account = a
BY DEF Request, Asks, Names

(* An answer is well formed; a good one to a login names who logs in. *)
LEMMA AnswerFacts ==
  ASSUME NEW r \in Asks, NEW m \in Answers(r)
  PROVE  /\ m \in Messages
         /\ m.number = r.number
         /\ m.kind \in {"login", "register"} => m.kind = r.kind /\ m.account = r.account
<1> DEFINE sizes == IF r.kind \in {"login", "register"} THEN {1}
                    ELSE IF r.kind = "logout" THEN {0} ELSE Sizes
<1>1. sizes \subseteq Nat
  BY ClientAssumption
<1>2. r \in [number : Nat, kind : Kinds, account : Accounts \cup {NoAccount}] /\ Names(r)
  BY DEF Asks
<1>3. CASE \E s \in sizes : m = [number |-> r.number, kind |-> r.kind,
                                 account |-> r.account, size |-> s]
  BY <1>1, <1>2, <1>3 DEF Messages, MessageKinds, Names
<1>4. CASE m = [number |-> r.number, kind |-> "error", account |-> NoAccount, size |-> 1]
  BY <1>2, <1>4 DEF Messages, MessageKinds, Names
<1> QED
  BY <1>3, <1>4 DEF Answers

LEMMA MessageFields ==
  ASSUME NEW m \in Messages
  PROVE  /\ m.number \in Int /\ m.kind \in MessageKinds /\ m.size \in Nat
         /\ m.account \in Accounts \cup {NoAccount} /\ Names(m)
BY DEF Messages

LEMMA HeaderFacts ==
  ASSUME NEW m \in Messages
  PROVE  /\ Header(m) \in Seq(Units) /\ Len(Header(m)) = 2
         /\ Header(m)[1] = [of |-> m, part |-> "first"]
         /\ Header(m)[2] = [of |-> m, part |-> "second"]
         /\ Header(m)[1].of = m
         /\ Header(m)[1].part = "first" /\ Header(m)[2].part = "second"
BY DEF Header, Units

LEMMA PayloadFacts ==
  ASSUME NEW m \in Messages
  PROVE  /\ Payload(m) \in Seq(Units) /\ Len(Payload(m)) = m.size
         /\ \A i \in 1 .. m.size : Payload(m)[i] = [of |-> m, part |-> "payload"]
         /\ \A i \in 1 .. m.size : Payload(m)[i].part = "payload"
         /\ m.size = 0 => Payload(m) = << >>
<1>1. m.size \in Nat
  BY MessageFields
<1>2. Payload(m) \in [1 .. m.size -> Units]
  BY DEF Payload, Units
<1> QED
  BY <1>1, <1>2 DEF Payload

-----------------------------------------------------------------------------
(* The messages begun in a stretch of the stream.                          *)

LEMMA BegunPlaces ==
  ASSUME NEW s \in Seq(Units)
  PROVE  Begun(s) = {i \in 1 .. Len(s) : s[i].part = "first"}
BY DEF Begun

LEMMA BegunFinite ==
  ASSUME NEW s \in Seq(Units)
  PROVE  IsFiniteSet(Begun(s)) /\ Cardinality(Begun(s)) \in Nat
<1>1. IsFiniteSet(1 .. Len(s)) /\ Begun(s) \in SUBSET (1 .. Len(s))
  BY FS_Interval, BegunPlaces
<1> QED
  BY <1>1, FS_Subset, FS_CardinalityType

LEMMA BegunConcat ==
  ASSUME NEW s \in Seq(Units), NEW t \in Seq(Units)
  PROVE  Cardinality(Begun(s \o t)) = Cardinality(Begun(s)) + Cardinality(Begun(t))
<1> DEFINE n == Len(s)
           B == {i \in n + 1 .. n + Len(t) : t[i - n].part = "first"}
           f == [i \in Begun(t) |-> n + i]
<1>1. /\ n \in Nat /\ Len(t) \in Nat /\ s \o t \in Seq(Units)
      /\ Len(s \o t) = n + Len(t)
      /\ \A i \in 1 .. n + Len(t) : (s \o t)[i] = IF i <= n THEN s[i] ELSE t[i - n]
  BY ConcatProperties
<1>2. Begun(s) = {i \in 1 .. n : s[i].part = "first"}
      /\ Begun(t) = {i \in 1 .. Len(t) : t[i].part = "first"}
  BY BegunPlaces
<1>3. Begun(s \o t) = Begun(s) \cup B
  <2>1. Begun(s \o t) = {i \in 1 .. n + Len(t) : (s \o t)[i].part = "first"}
    BY <1>1, BegunPlaces
  <2>2. \A i : i \in Begun(s \o t) <=> i \in Begun(s) \cup B
    BY <2>1, <1>1, <1>2
  <2> QED
    BY <2>2
<1>4. Begun(s) \cap B = {}
  BY <1>1, <1>2
<1>5. f \in Bijection(Begun(t), B)
  <2>1. f \in [Begun(t) -> B]
    BY <1>1, <1>2
  <2>2. \A x, y \in Begun(t) : f[x] = f[y] => x = y
    BY <1>1, <1>2
  <2>3. \A k \in B : k - n \in Begun(t) /\ f[k - n] = k
    BY <1>1, <1>2
  <2>4. f \in Injection(Begun(t), B)
    BY <2>1, <2>2 DEF Injection, IsInjective
  <2>5. f \in Surjection(Begun(t), B)
    BY <2>1, <2>3 DEF Surjection
  <2> QED
    BY <2>4, <2>5 DEF Bijection
<1>6. IsFiniteSet(Begun(s)) /\ IsFiniteSet(Begun(t))
      /\ Cardinality(Begun(s)) \in Nat /\ Cardinality(Begun(t)) \in Nat
  BY BegunFinite
<1>7. IsFiniteSet(B) /\ Cardinality(B) = Cardinality(Begun(t))
  BY <1>5, <1>6, FS_Bijection DEF ExistsBijection
<1>8. Cardinality(Begun(s) \cap B) = 0
  BY <1>4, FS_EmptySet
<1>9. Cardinality(Begun(s) \cup B)
        = Cardinality(Begun(s)) + Cardinality(B) - Cardinality(Begun(s) \cap B)
  BY <1>6, <1>7, FS_Union
<1> HIDE DEF B, f, n
<1> QED
  BY <1>3, <1>6, <1>7, <1>8, <1>9

LEMMA BegunHeader ==
  ASSUME NEW m \in Messages
  PROVE  Cardinality(Begun(Header(m))) = 1
<1>1. Begun(Header(m)) = {i \in 1 .. 2 : Header(m)[i].part = "first"}
  <2>1. Header(m) \in Seq(Units) /\ Len(Header(m)) = 2
    BY HeaderFacts
  <2>2. Begun(Header(m)) = {i \in 1 .. Len(Header(m)) : Header(m)[i].part = "first"}
    BY <2>1, BegunPlaces
  <2> QED
    BY <2>1, <2>2
<1>2. \A i \in 1 .. 2 : (Header(m)[i].part = "first") <=> (i = 1)
  <2>1. Header(m)[1].part = "first" /\ Header(m)[2].part # "first"
    BY HeaderFacts
  <2>2. \A i \in 1 .. 2 : i = 1 \/ i = 2
    OBVIOUS
  <2> QED
    BY <2>1, <2>2
<1>3. Begun(Header(m)) = {1}
  BY <1>1, <1>2
<1> QED
  BY <1>3, FS_Singleton

LEMMA BegunPayload ==
  ASSUME NEW m \in Messages
  PROVE  Cardinality(Begun(Payload(m))) = 0
<1>1. m.size \in Nat
  BY MessageFields
<1>2. Begun(Payload(m)) = {i \in 1 .. m.size : Payload(m)[i].part = "first"}
  BY PayloadFacts, BegunPlaces
<1>3. \A i \in 1 .. m.size : Payload(m)[i].part # "first"
  BY PayloadFacts
<1>4. Begun(Payload(m)) = {}
  BY <1>2, <1>3
<1> QED
  BY <1>4, FS_EmptySet

LEMMA BegunNone == Cardinality(Begun(<< >>)) = 0
<1>1. Begun(<< >>) = {}
  BY DEF Begun
<1> QED
  BY <1>1, FS_EmptySet

(* What is read leaves the rest. *)
LEMMA BegunRest ==
  ASSUME NEW s \in Seq(Units), NEW k \in 0 .. Len(s)
  PROVE  /\ SubSeq(s, k + 1, Len(s)) \in Seq(Units)
         /\ SubSeq(s, 1, k) \in Seq(Units)
         /\ Cardinality(Begun(s)) = Cardinality(Begun(SubSeq(s, 1, k)))
                                    + Cardinality(Begun(SubSeq(s, k + 1, Len(s))))
<1>1. Len(s) \in Nat /\ \A i \in 1 .. Len(s) : s[i] \in Units
  OBVIOUS
<1>2. SubSeq(s, k + 1, Len(s)) \in Seq(Units) /\ SubSeq(s, 1, k) \in Seq(Units)
  BY <1>1, SubSeqProperties
<1>3. SubSeq(s, 1, k) \o SubSeq(s, k + 1, Len(s)) = s
  <2>1. 1 \in 1 .. Len(s) + 1 /\ k \in 1 - 1 .. Len(s) /\ Len(s) \in k .. Len(s)
    BY <1>1
  <2>2. SubSeq(s, 1, k) \o SubSeq(s, k + 1, Len(s)) = SubSeq(s, 1, Len(s))
    BY <2>1, ConcatAdjacentSubSeq
  <2> QED
    BY <2>2, SubSeqFull
<1> QED
  BY <1>2, <1>3, BegunConcat

-----------------------------------------------------------------------------
(* The inductive invariant.                                                *)

Clients ==
  [pc : {"idle", "header", "payload", "killed", "left"},
   where : {"authenticate", "registered", "menu"}, kind : Kinds,
   account : Accounts \cup {NoAccount}, header : Messages]
Jobs == [answer : Messages, sent : {"nothing", "header"}]

TypeOK ==
  /\ client \in Clients
  /\ g_user_id \in Accounts \cup {NoAccount}
  /\ requests \in Nat /\ failed \in BOOLEAN
  /\ toServer \in Seq(Asks)
  /\ jobs \in SUBSET Jobs /\ IsFiniteSet(jobs)
  /\ broadcast \in Messages /\ broadcasts \in Nat
  /\ toClient \in Seq(Units) /\ up \in BOOLEAN

(* Which screen waits for what, and for whom it is shown. *)
Screens ==
  /\ client.where = "registered" => client.account \in Accounts
  /\ client.where = "menu" => g_user_id \in Accounts
  /\ Waiting => IF client.kind \in {"login", "register"}
                THEN client.where # "menu" /\ client.account \in Accounts
                ELSE client.where = "menu"

(* Nothing is left of a server that has ended. *)
Gone == ~up => toServer = << >> /\ jobs = {}

(* As long as the client has read well and no broadcast has come, it has    *)
(* one request on the way or none: with the main thread, with a worker, or  *)
(* its answer in the stream; the end of the server cuts it off.             *)
Asked == Request(requests, client.kind, client.account)
Job(m, sent) == [answer |-> m, sent |-> sent]

OnTheWay(server, workers, stream) ==
  toServer = server /\ jobs = workers /\ toClient = stream
Nowhere == OnTheWay(<< >>, {}, << >>)

AwaitsHeader ==
  \/ OnTheWay(<<Asked>>, {}, << >>)
  \/ ~up /\ Nowhere
  \/ \E m \in Answers(Asked) :
       \/ OnTheWay(<< >>, {Job(m, "nothing")}, << >>)
       \/ m.size # 0 /\ OnTheWay(<< >>, {Job(m, "header")}, Header(m))
       \/ OnTheWay(<< >>, {}, Header(m) \o Payload(m))
       \/ ~up /\ OnTheWay(<< >>, {}, Header(m))

AwaitsPayload ==
  LET m == client.header IN
  /\ m \in Answers(Asked) /\ m.size # 0
  /\ \/ OnTheWay(<< >>, {Job(m, "header")}, << >>)
     \/ OnTheWay(<< >>, {}, Payload(m))
     \/ ~up /\ Nowhere

Undisturbed == broadcasts = 0 /\ ~failed

InStep ==
  Undisturbed =>
    /\ broadcast = NoBroadcast
    /\ client.pc = "idle" => Nowhere
    /\ client.pc = "header" => AwaitsHeader
    /\ client.pc = "payload" => AwaitsPayload
    /\ client.where = "menu" => g_user_id = client.account

(* The requests that the server has, in the order they were sent, ... *)
Numbered ==
  /\ \A i \in 1 .. Len(toServer) : toServer[i].number <= requests
  /\ \A i, k \in 1 .. Len(toServer) : i < k => toServer[i].number < toServer[k].number
  /\ \A j \in jobs : j.answer.number <= requests
  /\ \A j \in jobs : \A i \in 1 .. Len(toServer) : j.answer.number < toServer[i].number

(* ... and what the client has still to read or the server to send.  *)
Unanswered == {j \in jobs : j.sent = "nothing"}
ToRead == Cardinality(Begun(toClient)) + Len(toServer) + Cardinality(Unanswered)

Counts ==
  up /\ ~failed /\ client.pc \in {"idle", "header", "payload"} =>
    ToRead = broadcasts + (IF client.pc = "header" THEN 1 ELSE 0)

ClientInv == TypeOK /\ Screens /\ Gone
ProtocolInv == ClientInv /\ InStep /\ Numbered /\ Counts

LEMMA ClientFields ==
  ASSUME TypeOK
  PROVE  /\ client = [pc |-> client.pc, where |-> client.where, kind |-> client.kind,
                      account |-> client.account, header |-> client.header]
         /\ client.pc \in {"idle", "header", "payload", "killed", "left"}
         /\ client.where \in {"authenticate", "registered", "menu"}
         /\ client.kind \in Kinds /\ client.account \in Accounts \cup {NoAccount}
         /\ client.header \in Messages
BY DEF TypeOK, Clients

LEMMA AskedFacts ==
  ASSUME ClientInv, Waiting
  PROVE  /\ Asked \in Asks /\ Asked.number = requests
         /\ Asked.kind = client.kind /\ Asked.account = client.account
<1>1. client.kind \in Kinds /\ client.account \in Accounts \cup {NoAccount}
      /\ requests \in Nat
  BY ClientFields DEF ClientInv, TypeOK
<1>2. client.kind \in {"login", "register"} => client.account \in Accounts
  BY DEF ClientInv, Screens
<1> QED
  BY <1>1, <1>2, RequestFacts DEF Asked

LEMMA CountTypes ==
  ASSUME TypeOK
  PROVE  /\ Cardinality(Begun(toClient)) \in Nat /\ Len(toServer) \in Nat
         /\ IsFiniteSet(Unanswered) /\ Cardinality(Unanswered) \in Nat
         /\ broadcasts \in Nat /\ ToRead \in Nat
<1>1. Cardinality(Begun(toClient)) \in Nat
  BY BegunFinite DEF TypeOK
<1>2. Len(toServer) \in Nat /\ broadcasts \in Nat
  BY DEF TypeOK
<1>3. IsFiniteSet(Unanswered) /\ Cardinality(Unanswered) \in Nat
  BY FS_Subset, FS_CardinalityType DEF TypeOK, Unanswered
<1> QED
  BY <1>1, <1>2, <1>3 DEF ToRead

-----------------------------------------------------------------------------
(* The client sends a request.                                             *)

LEMMA SendStep ==
  ASSUME ProtocolInv, NEW kind \in Kinds, NEW a \in Accounts \cup {NoAccount},
         SendMessage(kind, a),
         IF kind \in {"login", "register"} THEN a \in Accounts /\ client.where # "menu"
         ELSE a = client.account /\ client.where = "menu"
  PROVE  ProtocolInv'
<1> DEFINE r == Request(requests + 1, kind, a)
           c == [client EXCEPT !.pc = "header", !.kind = kind, !.account = a]
           killed == [client EXCEPT !.pc = "killed"]
<1>1. /\ client.pc = "idle" /\ requests' = requests + 1
      /\ UNCHANGED <<g_user_id, failed, toClient, jobs, broadcast, broadcasts, up>>
      /\ \/ /\ client' = c
            /\ toServer' = IF up THEN Append(toServer, r) ELSE toServer
         \/ ~up /\ client' = killed /\ UNCHANGED toServer
  BY DEF SendMessage, theirs
<1>2. /\ TypeOK /\ Screens /\ Gone /\ requests \in Nat /\ toServer \in Seq(Asks)
  BY DEF ProtocolInv, ClientInv, TypeOK
<1>3. r \in Asks /\ r.number = requests + 1
  BY <1>2, RequestFacts
<1>4. /\ c \in Clients /\ c.pc = "header" /\ c.kind = kind /\ c.account = a
      /\ c.where = client.where /\ c.header = client.header
  BY <1>2, ClientFields DEF Clients
<1>5. /\ killed \in Clients /\ killed.pc = "killed" /\ killed.account = client.account
      /\ killed.where = client.where
  BY <1>2, ClientFields DEF Clients
<1> HIDE DEF c, killed
<1>6. ClientInv'
  <2>1. TypeOK'
    <3>1. toServer' \in Seq(Asks)
      BY <1>1, <1>2, <1>3
    <3>2. client' \in Clients /\ requests' \in Nat
      BY <1>1, <1>2, <1>4, <1>5
    <3> QED
      BY <1>1, <1>2, <3>1, <3>2 DEF TypeOK
  <2>2. Screens'
    BY <1>1, <1>2, <1>4, <1>5 DEF Screens, Waiting
  <2>3. Gone'
    BY <1>1, <1>2 DEF Gone
  <2> QED
    BY <2>1, <2>2, <2>3 DEF ClientInv
<1>7. InStep'
  <2> SUFFICES ASSUME Undisturbed' PROVE InStep'
    BY DEF InStep
  <2>1. /\ broadcast = NoBroadcast /\ Nowhere
        /\ client.where = "menu" => g_user_id = client.account
    BY <1>1 DEF ProtocolInv, InStep, Undisturbed
  <2>2. CASE client' = c /\ up
    <3>1. Asked' = r
      BY <1>1, <1>4, <2>2 DEF Asked
    <3>2. toServer' = <<r>>
      BY <1>1, <1>4, <1>5, <2>1, <2>2 DEF Nowhere, OnTheWay
    <3>3. AwaitsHeader'
      BY <1>1, <2>1, <3>1, <3>2 DEF AwaitsHeader, Nowhere, OnTheWay
    <3> QED
      BY <1>1, <1>4, <2>1, <2>2, <3>3 DEF InStep
  <2>3. CASE client' = c /\ ~up
    <3>1. AwaitsHeader'
      BY <1>1, <2>1, <2>3 DEF AwaitsHeader, Nowhere, OnTheWay
    <3> QED
      BY <1>1, <1>4, <2>1, <2>3, <3>1 DEF InStep
  <2>4. CASE client' = killed
    BY <1>1, <1>5, <2>1, <2>4 DEF InStep
  <2> QED
    BY <1>1, <2>2, <2>3, <2>4
<1>8. Numbered'
  <2>1. CASE UNCHANGED toServer
    BY <1>1, <1>2, <2>1 DEF ProtocolInv, Numbered, TypeOK, Jobs, Messages, Asks
  <2>2. CASE toServer' = Append(toServer, r)
    <3>1. /\ Len(toServer') = Len(toServer) + 1 /\ Len(toServer) \in Nat
          /\ \A i \in 1 .. Len(toServer) : toServer'[i] = toServer[i]
          /\ toServer'[Len(toServer) + 1] = r
      BY <1>2, <2>2
    <3>2. \A i \in 1 .. Len(toServer) : toServer[i].number \in Nat
      BY <1>2 DEF Asks
    <3>3. \A j \in jobs : j.answer.number \in Int
      BY <1>2 DEF TypeOK, Jobs, Messages
    <3>4. Numbered
      BY DEF ProtocolInv
    <3>5. \A i \in 1 .. Len(toServer') : i \in 1 .. Len(toServer) \/ i = Len(toServer) + 1
      BY <3>1
    <3>6. \A i \in 1 .. Len(toServer') : toServer'[i].number <= requests'
      BY <1>1, <1>2, <1>3, <3>1, <3>2, <3>4, <3>5 DEF Numbered
    <3>7. \A i, k \in 1 .. Len(toServer') : i < k => toServer'[i].number < toServer'[k].number
      BY <1>2, <1>3, <3>1, <3>2, <3>4, <3>5 DEF Numbered
    <3>8. \A j \in jobs' : j.answer.number <= requests'
      BY <1>1, <1>2, <3>3, <3>4 DEF Numbered
    <3>9. \A j \in jobs' : \A i \in 1 .. Len(toServer') :
            j.answer.number < toServer'[i].number
      BY <1>1, <1>2, <1>3, <3>1, <3>3, <3>4, <3>5 DEF Numbered
    <3> QED
      BY <3>6, <3>7, <3>8, <3>9 DEF Numbered
  <2> QED
    BY <1>1, <2>1, <2>2
<1>9. Counts'
  <2> SUFFICES ASSUME up', ~failed', client'.pc \in {"idle", "header", "payload"}
               PROVE  Counts'
    BY DEF Counts
  <2>1. client' = c /\ toServer' = Append(toServer, r)
    BY <1>1
  <2>2. ToRead = broadcasts /\ broadcasts \in Nat
    BY <1>1, <1>2 DEF ProtocolInv, Counts, TypeOK
  <2>3. Len(toServer') = Len(toServer) + 1 /\ Len(toServer) \in Nat
    BY <1>2, <2>1
  <2>4. Cardinality(Begun(toClient)) \in Nat /\ Cardinality(Unanswered) \in Nat
    BY <1>2, CountTypes
  <2>5. ToRead' = ToRead + 1
    BY <1>1, <2>3, <2>4 DEF ToRead, Unanswered
  <2> QED
    BY <1>1, <1>4, <2>1, <2>2, <2>5 DEF Counts
<1> QED
  BY <1>6, <1>7, <1>8, <1>9 DEF ProtocolInv

-----------------------------------------------------------------------------
(* The client reads.                                                       *)

LEMMA ProceedFacts ==
  ASSUME ClientInv, Waiting, NEW m \in Messages, Proceed(m)
  PROVE  /\ client' \in Clients /\ client'.pc = "idle"
         /\ client'.account = client.account
         /\ g_user_id' \in Accounts \cup {NoAccount}
         /\ Screens'
         /\ (m.kind \in {"login", "register"} => m.account = client.account)
            /\ (client.where = "menu" => g_user_id = client.account)
            => (client'.where = "menu" => g_user_id' = client'.account)
<1> DEFINE where == CASE client.kind = "logout" -> "authenticate"
                      [] client.kind = "login" ->
                           IF m.kind = "login" THEN "menu" ELSE "authenticate"
                      [] client.kind = "register" ->
                           IF m.kind = "register" THEN "registered" ELSE "authenticate"
                      [] client.kind = "other" -> "menu"
           c == [client EXCEPT !.pc = "idle", !.where = where, !.header = NoMessage]
<1>1. /\ client' = c
      /\ g_user_id' = CASE client.kind = "logout" -> NoAccount
                        [] client.kind \in {"login", "register"} /\ m.kind = client.kind ->
                             m.account
                        [] OTHER -> g_user_id
  BY DEF Proceed
<1>2. /\ client.kind \in {"register", "login", "logout", "other"}
      /\ g_user_id \in Accounts \cup {NoAccount}
  BY ClientFields DEF ClientInv, TypeOK, Kinds
<1>3. m.account \in Accounts \cup {NoAccount} /\ Names(m)
  BY MessageFields
<1>4. where \in {"authenticate", "registered", "menu"}
  BY <1>2
<1>5. /\ where = "menu" <=> \/ client.kind = "other"
                            \/ client.kind = "login" /\ m.kind = "login"
      /\ where = "registered" => client.kind = "register"
  BY <1>2
<1> HIDE DEF where
<1>6. /\ c \in Clients /\ c.pc = "idle" /\ c.account = client.account /\ c.where = where
      /\ c.kind = client.kind
  BY <1>4, ClientFields, NoMessageFacts DEF ClientInv, Clients
<1> HIDE DEF c
<1>7. g_user_id' \in Accounts \cup {NoAccount}
  BY <1>1, <1>2, <1>3
<1>8. /\ client.kind = "other" => client.where = "menu" /\ g_user_id' = g_user_id
      /\ client.kind = "login" /\ m.kind = "login" => g_user_id' = m.account
      /\ client.kind = "register" => client.account \in Accounts
      /\ client.where = "menu" => g_user_id \in Accounts
  BY <1>1 DEF ClientInv, Screens
<1>9. Screens'
  BY <1>1, <1>3, <1>5, <1>6, <1>8 DEF Screens, Waiting, Names
<1> QED
  BY <1>1, <1>5, <1>6, <1>7, <1>8, <1>9

LEMMA WaitingFor ==
  ASSUME TypeOK, Waiting
  PROVE  client.pc \in {"header", "payload"}
BY DEF Waiting

(* A read that fails. *)
LEMMA FailedStep ==
  ASSUME ProtocolInv, Waiting, ReceiveFails, toClient' \in Seq(Units),
         UNCHANGED <<requests, toServer, theirs>>
  PROVE  ProtocolInv'
<1>1. /\ Proceed(NoMessage) /\ failed' = TRUE /\ ClientInv /\ Numbered
      /\ UNCHANGED <<requests, toServer, jobs, broadcast, broadcasts, up>>
  BY DEF ReceiveFails, ProtocolInv, theirs
<1>2. /\ client' \in Clients /\ g_user_id' \in Accounts \cup {NoAccount} /\ Screens'
  BY <1>1, NoMessageFacts, ProceedFacts
<1>3. ClientInv'
  <2>1. TypeOK'
    BY <1>1, <1>2 DEF ClientInv, TypeOK
  <2>2. Gone'
    BY <1>1 DEF ClientInv, Gone
  <2> QED
    BY <1>2, <2>1, <2>2 DEF ClientInv
<1>4. InStep' /\ Counts'
  BY <1>1 DEF InStep, Undisturbed, Counts
<1>5. Numbered'
  BY <1>1 DEF Numbered
<1> QED
  BY <1>3, <1>4, <1>5 DEF ProtocolInv

(* A message is read as it was sent, header and payload. *)
LEMMA DeliveredStep ==
  ASSUME ProtocolInv, Waiting, NEW m \in Messages, Deliver(m),
         toClient' \in Seq(Units), UNCHANGED <<requests, toServer, theirs>>,
         Undisturbed => m \in Answers(Asked) /\ jobs = {} /\ toServer = << >>
                        /\ toClient' = << >>,
         Cardinality(Begun(toClient'))
           = Cardinality(Begun(toClient)) - (IF client.pc = "header" THEN 1 ELSE 0)
  PROVE  ProtocolInv'
<1>1. /\ Proceed(m) /\ failed' = failed /\ ClientInv /\ Numbered /\ TypeOK
      /\ UNCHANGED <<requests, toServer, jobs, broadcast, broadcasts, up>>
  BY DEF Deliver, ProtocolInv, theirs, ClientInv
<1>2. /\ client' \in Clients /\ g_user_id' \in Accounts \cup {NoAccount} /\ Screens'
      /\ client'.pc = "idle"
  BY <1>1, ProceedFacts
<1>3. ClientInv'
  <2>1. TypeOK'
    BY <1>1, <1>2 DEF TypeOK
  <2>2. Gone'
    BY <1>1 DEF ClientInv, Gone
  <2> QED
    BY <1>2, <2>1, <2>2 DEF ClientInv
<1>4. InStep'
  <2> SUFFICES ASSUME Undisturbed' PROVE InStep'
    BY DEF InStep
  <2>1. Undisturbed /\ m \in Answers(Asked) /\ Nowhere'
    BY <1>1 DEF Undisturbed, Nowhere, OnTheWay
  <2>2. /\ broadcast = NoBroadcast
        /\ client.where = "menu" => g_user_id = client.account
    BY <2>1 DEF ProtocolInv, InStep
  <2>3. m.kind \in {"login", "register"} => m.account = client.account
    BY <1>1, <2>1, AskedFacts, AnswerFacts
  <2>4. client'.where = "menu" => g_user_id' = client'.account
    BY <1>1, <2>2, <2>3, ProceedFacts
  <2> QED
    BY <1>1, <1>2, <2>1, <2>2, <2>4 DEF InStep
<1>5. Numbered'
  BY <1>1 DEF Numbered
<1>6. Counts'
  <2> SUFFICES ASSUME up', ~failed' PROVE Counts'
    BY DEF Counts
  <2>1. ToRead = broadcasts + (IF client.pc = "header" THEN 1 ELSE 0)
    BY <1>1 DEF ProtocolInv, Counts, Waiting
  <2>2. /\ Cardinality(Begun(toClient)) \in Nat /\ Cardinality(Unanswered) \in Nat
        /\ Len(toServer) \in Nat /\ broadcasts \in Nat
    BY <1>1, CountTypes
  <2>3. Unanswered' = Unanswered
    BY <1>1 DEF Unanswered
  <2>4. ToRead' = ToRead - (IF client.pc = "header" THEN 1 ELSE 0)
    BY <1>1, <2>2, <2>3 DEF ToRead
  <2>5. ToRead' = broadcasts'
    BY <1>1, <2>1, <2>2, <2>4
  <2> QED
    BY <1>1, <1>2, <2>2, <2>5 DEF Counts
<1> QED
  BY <1>3, <1>4, <1>5, <1>6 DEF ProtocolInv

(* What is in the stream while an undisturbed client waits for a header    *)
(* that has come: the header of its answer, and what goes on after it.     *)
LEMMA HeaderArrives ==
  ASSUME ProtocolInv, Undisturbed, client.pc = "header", Len(toClient) >= 2,
         NEW rest, rest = SubSeq(toClient, 3, Len(toClient))
  PROVE  \E m \in Answers(Asked) :
           /\ m \in Messages /\ toClient[1].of = m
           /\ toServer = << >>
           /\ \/ m.size # 0 /\ jobs = {Job(m, "header")} /\ rest = << >>
              \/ jobs = {} /\ rest = Payload(m)
              \/ ~up /\ jobs = {} /\ rest = << >>
<1>1. AwaitsHeader /\ ClientInv /\ Waiting
  BY DEF ProtocolInv, InStep, Waiting
<1>2. toClient # << >>
  OBVIOUS
<1>3. PICK m \in Answers(Asked) :
         \/ m.size # 0 /\ OnTheWay(<< >>, {Job(m, "header")}, Header(m))
         \/ OnTheWay(<< >>, {}, Header(m) \o Payload(m))
         \/ ~up /\ OnTheWay(<< >>, {}, Header(m))
  BY <1>1, <1>2 DEF AwaitsHeader, OnTheWay, Nowhere
<1>4. m \in Messages
  BY <1>1, AskedFacts, AnswerFacts
<1>5. ASSUME toClient = Header(m)
      PROVE  toClient[1].of = m /\ rest = << >>
  <2>1. Len(toClient) = 2 /\ toClient[1].of = m
    BY <1>4, <1>5, HeaderFacts
  <2> QED
    BY <2>1, SubSeqEmpty
<1>6. ASSUME toClient = Header(m) \o Payload(m)
      PROVE  toClient[1].of = m /\ rest = Payload(m)
  <2> DEFINE h == Header(m)
             p == Payload(m)
  <2>1. /\ h \in Seq(Units) /\ p \in Seq(Units) /\ Len(h) = 2 /\ h[1].of = m
    BY <1>4, HeaderFacts, PayloadFacts
  <2> HIDE DEF h, p
  <2>2. /\ toClient \in Seq(Units) /\ Len(toClient) = 2 + Len(p) /\ Len(p) \in Nat
        /\ \A i \in 1 .. 2 + Len(p) : toClient[i] = IF i <= 2 THEN h[i] ELSE p[i - 2]
    <3>1. toClient = h \o p
      BY <1>6 DEF h, p
    <3>2. /\ h \o p \in Seq(Units) /\ Len(h \o p) = Len(h) + Len(p)
          /\ \A i \in 1 .. Len(h) + Len(p) :
               (h \o p)[i] = IF i <= Len(h) THEN h[i] ELSE p[i - Len(h)]
      BY <2>1, ConcatProperties
    <3>3. Len(p) \in Nat
      BY <2>1
    <3> QED
      BY <2>1, <3>1, <3>2, <3>3
  <2>3. toClient[1].of = m
    BY <2>1, <2>2
  <2>4. /\ rest \in Seq(Units) /\ Len(rest) = Len(p)
        /\ \A i \in 1 .. Len(p) : rest[i] = toClient[i + 2]
    <3>1. \A i \in 3 .. Len(toClient) : toClient[i] \in Units
      BY <2>2
    <3> QED
      BY <2>2, <3>1, SubSeqProperties
  <2>5. \A i \in 1 .. Len(p) : rest[i] = p[i]
    BY <2>2, <2>4
  <2> QED
    BY <2>1, <2>3, <2>4, <2>5 DEF p
<1> QED
  BY <1>3, <1>4, <1>5, <1>6 DEF OnTheWay

LEMMA ReceiveHeaderStep ==
  ASSUME ProtocolInv, ReceiveHeader
  PROVE  ProtocolInv'
<1> DEFINE m == toClient[1].of
           rest == SubSeq(toClient, 3, Len(toClient))
           c == [client EXCEPT !.pc = "payload", !.header = m]
<1>1. /\ client.pc = "header" /\ Waiting /\ Len(toClient) >= 2 /\ toClient' = rest
      /\ UNCHANGED <<requests, toServer, theirs>>
  BY DEF ReceiveHeader, Waiting
<1>2. \/ ReceiveFails
      \/ SubSeq(toClient, 1, 2) = Header(m) /\ m.size = 0 /\ Deliver(m)
      \/ /\ SubSeq(toClient, 1, 2) = Header(m) /\ m.size # 0
         /\ client' = c /\ UNCHANGED <<g_user_id, failed>>
  BY DEF ReceiveHeader
<1>3. ClientInv /\ TypeOK /\ Screens /\ Gone /\ toClient \in Seq(Units)
  BY DEF ProtocolInv, ClientInv, TypeOK
<1>4. m \in Messages
  <2>1. toClient[1] \in Units
    BY <1>1, <1>3
  <2> QED
    BY <2>1 DEF Units
<1>5. /\ rest \in Seq(Units)
      /\ Cardinality(Begun(toClient))
           = Cardinality(Begun(SubSeq(toClient, 1, 2))) + Cardinality(Begun(rest))
  <2>1. 2 \in 0 .. Len(toClient)
    BY <1>1, <1>3
  <2> QED
    BY <1>3, <2>1, BegunRest
<1>6. Cardinality(Begun(toClient)) \in Nat /\ Cardinality(Begun(rest)) \in Nat
  BY <1>3, <1>5, BegunFinite
<1>7. SubSeq(toClient, 1, 2) = Header(m) =>
        Cardinality(Begun(rest)) = Cardinality(Begun(toClient)) - 1
  <2> DEFINE read == SubSeq(toClient, 1, 2)
  <2>1. Cardinality(Begun(Header(m))) = 1
    BY <1>4, BegunHeader
  <2>2. Cardinality(Begun(toClient)) = Cardinality(Begun(read)) + Cardinality(Begun(rest))
    BY <1>5
  <2> HIDE DEF m, rest, read
  <2>3. read = Header(m) => Cardinality(Begun(rest)) = Cardinality(Begun(toClient)) - 1
    BY <1>6, <2>1, <2>2
  <2> QED
    BY <2>3 DEF read
<1>8. Undisturbed =>
        /\ m \in Answers(Asked) /\ toServer = << >>
        /\ \/ m.size # 0 /\ jobs = {Job(m, "header")} /\ rest = << >>
           \/ jobs = {} /\ rest = Payload(m)
           \/ ~up /\ jobs = {} /\ rest = << >>
  BY <1>1, HeaderArrives
<1> HIDE DEF m, rest
<1>9. CASE ReceiveFails
  BY <1>1, <1>5, <1>9, FailedStep
<1>10. CASE SubSeq(toClient, 1, 2) = Header(m) /\ m.size = 0 /\ Deliver(m)
  <2>1. Undisturbed => m \in Answers(Asked) /\ jobs = {} /\ toServer = << >>
                       /\ toClient' = << >>
    BY <1>1, <1>4, <1>8, <1>10, PayloadFacts
  <2>2. Cardinality(Begun(toClient'))
          = Cardinality(Begun(toClient)) - (IF client.pc = "header" THEN 1 ELSE 0)
    BY <1>1, <1>7, <1>10
  <2>3. toClient' \in Seq(Units)
    BY <1>1, <1>5
  <2> QED
    BY <1>1, <1>4, <1>10, <2>1, <2>2, <2>3, DeliveredStep
<1>11. CASE /\ SubSeq(toClient, 1, 2) = Header(m) /\ m.size # 0
            /\ client' = c /\ UNCHANGED <<g_user_id, failed>>
  <2>1. /\ c \in Clients /\ c.pc = "payload" /\ c.header = m /\ c.where = client.where
        /\ c.kind = client.kind /\ c.account = client.account
    BY <1>3, <1>4, ClientFields DEF Clients
  <2> HIDE DEF c
  <2>2. UNCHANGED <<requests, toServer, jobs, broadcast, broadcasts, up, g_user_id, failed>>
    BY <1>1, <1>11 DEF theirs
  <2>3. ClientInv'
    <3>1. TypeOK'
      BY <1>1, <1>3, <1>5, <1>11, <2>1, <2>2 DEF TypeOK
    <3>2. Screens'
      BY <1>1, <1>3, <1>11, <2>1, <2>2 DEF Screens, Waiting
    <3>3. Gone'
      BY <1>3, <2>2 DEF Gone
    <3> QED
      BY <3>1, <3>2, <3>3 DEF ClientInv
  <2>4. InStep'
    <3> SUFFICES ASSUME Undisturbed' PROVE InStep'
      BY DEF InStep
    <3>1. Undisturbed
      BY <2>2 DEF Undisturbed
    <3>2. /\ broadcast = NoBroadcast
          /\ client.where = "menu" => g_user_id = client.account
      BY <3>1 DEF ProtocolInv, InStep
    <3>3. Asked' = Asked
      BY <1>11, <2>1, <2>2 DEF Asked
    <3>4. AwaitsPayload'
      BY <1>1, <1>8, <1>11, <2>1, <2>2, <3>1, <3>3
         DEF AwaitsPayload, OnTheWay, Nowhere
    <3> QED
      BY <1>11, <2>1, <2>2, <3>2, <3>4 DEF InStep
  <2>5. Numbered'
    BY <2>2 DEF ProtocolInv, Numbered
  <2>6. Counts'
    <3> SUFFICES ASSUME up', ~failed' PROVE Counts'
      BY DEF Counts
    <3>1. ToRead = broadcasts + 1
      BY <1>1, <2>2 DEF ProtocolInv, Counts
    <3>2. Unanswered' = Unanswered
      BY <2>2 DEF Unanswered
    <3>3. ToRead' = ToRead - 1
      BY <1>1, <1>3, <1>7, <1>11, <2>2, <3>2, CountTypes DEF ToRead
    <3>4. ToRead' = broadcasts
      BY <1>3, <3>1, <3>3, CountTypes
    <3> QED
      BY <1>3, <1>11, <2>1, <2>2, <3>4, CountTypes DEF Counts
  <2> QED
    BY <2>3, <2>4, <2>5, <2>6 DEF ProtocolInv
<1> QED
  BY <1>2, <1>9, <1>10, <1>11

LEMMA ReceivePayloadStep ==
  ASSUME ProtocolInv, ReceivePayload
  PROVE  ProtocolInv'
<1> DEFINE m == client.header
           rest == SubSeq(toClient, m.size + 1, Len(toClient))
<1>1. /\ client.pc = "payload" /\ Waiting /\ Len(toClient) >= m.size /\ toClient' = rest
      /\ UNCHANGED <<requests, toServer, theirs>>
  BY DEF ReceivePayload, Waiting
<1>2. \/ ReceiveFails
      \/ SubSeq(toClient, 1, m.size) = Payload(m) /\ Deliver(m)
  BY DEF ReceivePayload
<1>3. TypeOK /\ toClient \in Seq(Units)
  BY DEF ProtocolInv, ClientInv, TypeOK
<1>4. m \in Messages /\ m.size \in Nat
  BY <1>3, ClientFields, MessageFields
<1>5. /\ rest \in Seq(Units)
      /\ Cardinality(Begun(toClient))
           = Cardinality(Begun(SubSeq(toClient, 1, m.size))) + Cardinality(Begun(rest))
  <2>1. m.size \in 0 .. Len(toClient)
    BY <1>1, <1>3, <1>4
  <2> QED
    BY <1>3, <2>1, BegunRest
<1>6. Cardinality(Begun(toClient)) \in Nat /\ Cardinality(Begun(rest)) \in Nat
  BY <1>3, <1>5, BegunFinite
<1>7. CASE ReceiveFails
  <2>1. toClient' \in Seq(Units)
    BY <1>1, <1>5
  <2> QED
    BY <1>1, <1>7, <2>1, FailedStep
<1>8. CASE SubSeq(toClient, 1, m.size) = Payload(m) /\ Deliver(m)
  <2>1. Undisturbed => m \in Answers(Asked) /\ jobs = {} /\ toServer = << >>
                       /\ toClient' = << >>
    <3> SUFFICES ASSUME Undisturbed
                 PROVE  m \in Answers(Asked) /\ jobs = {} /\ toServer = << >>
                        /\ toClient' = << >>
      OBVIOUS
    <3>1. AwaitsPayload
      BY <1>1 DEF ProtocolInv, InStep
    <3>2. Len(toClient) > 0
      BY <1>1, <1>3, <1>4, <3>1 DEF AwaitsPayload
    <3>3. m \in Answers(Asked) /\ OnTheWay(<< >>, {}, Payload(m))
      BY <3>1, <3>2 DEF AwaitsPayload, OnTheWay, Nowhere
    <3>4. Len(toClient) = m.size
      BY <1>4, <3>3, PayloadFacts DEF OnTheWay
    <3>5. rest = << >>
      BY <1>4, <3>4, SubSeqEmpty
    <3> QED
      BY <1>1, <3>3, <3>5 DEF OnTheWay
  <2>2. Cardinality(Begun(rest)) = Cardinality(Begun(toClient))
    <3> DEFINE read == SubSeq(toClient, 1, m.size)
    <3>1. Cardinality(Begun(Payload(m))) = 0 /\ read = Payload(m)
      BY <1>4, <1>8, BegunPayload
    <3>2. Cardinality(Begun(toClient)) = Cardinality(Begun(read)) + Cardinality(Begun(rest))
      BY <1>5
    <3> HIDE DEF m, rest, read
    <3> QED
      BY <1>6, <3>1, <3>2
  <2> HIDE DEF m, rest
  <2>3. /\ toClient' \in Seq(Units)
        /\ Cardinality(Begun(toClient'))
             = Cardinality(Begun(toClient)) - (IF client.pc = "header" THEN 1 ELSE 0)
    BY <1>1, <1>5, <1>6, <2>2
  <2> QED
    BY <1>1, <1>4, <1>8, <2>1, <2>3, DeliveredStep
<1> QED
  BY <1>2, <1>7, <1>8

LEMMA ConnectionClosedStep ==
  ASSUME ProtocolInv, ConnectionClosed
  PROVE  ProtocolInv'
<1>1. toClient' \in Seq(Units)
  BY DEF ConnectionClosed
<1> QED
  BY <1>1, FailedStep DEF ConnectionClosed

LEMMA ExitStep ==
  ASSUME ProtocolInv, Exit
  PROVE  ProtocolInv'
<1> DEFINE c == [client EXCEPT !.pc = "left"]
<1>1. /\ client.pc = "idle" /\ client' = c /\ toClient' = << >>
      /\ UNCHANGED <<g_user_id, requests, failed, toServer, jobs, broadcast, broadcasts, up>>
  BY DEF Exit, theirs
<1>2. TypeOK /\ Screens /\ Gone
  BY DEF ProtocolInv, ClientInv
<1>3. /\ c \in Clients /\ c.pc = "left" /\ c.where = client.where
      /\ c.account = client.account
  BY <1>2, ClientFields DEF Clients
<1> HIDE DEF c
<1>4. TypeOK'
  BY <1>1, <1>2, <1>3 DEF TypeOK
<1>5. Screens' /\ Gone'
  BY <1>1, <1>2, <1>3 DEF Screens, Waiting, Gone
<1>6. InStep'
  BY <1>1, <1>3 DEF ProtocolInv, InStep, Undisturbed
<1>7. Numbered' /\ Counts'
  BY <1>1, <1>3 DEF ProtocolInv, Numbered, Counts
<1> QED
  BY <1>4, <1>5, <1>6, <1>7 DEF ProtocolInv, ClientInv

-----------------------------------------------------------------------------
(* The server reads and answers.                                           *)

LEMMA JobFields ==
  ASSUME NEW j \in Jobs
  PROVE  /\ j = Job(j.answer, j.sent) /\ j.answer \in Messages
         /\ j.sent \in {"nothing", "header"} /\ j.answer.number \in Int
BY MessageFields DEF Jobs, Job

LEMMA JobIs ==
  ASSUME NEW m, NEW sent
  PROVE  Job(m, sent).answer = m /\ Job(m, sent).sent = sent
BY DEF Job

(* What the server sends reaches the end of the stream. *)
LEMMA SentFacts ==
  ASSUME TypeOK, up, NEW u \in Seq(Units), Sent(u)
  PROVE  /\ toClient' \in Seq(Units)
         /\ client.pc \in {"idle", "header", "payload"} =>
              /\ toClient' = toClient \o u
              /\ Cardinality(Begun(toClient'))
                   = Cardinality(Begun(toClient)) + Cardinality(Begun(u))
              /\ toClient = << >> => toClient' = u
<1>1. toClient \in Seq(Units) /\ toClient \o u \in Seq(Units)
  BY ConcatProperties DEF TypeOK
<1>2. toClient' = IF Reachable THEN toClient \o u ELSE toClient
  BY DEF Sent
<1>3. client.pc \in {"idle", "header", "payload"} => toClient' = toClient \o u
  BY <1>2 DEF Reachable
<1>4. Cardinality(Begun(toClient \o u))
        = Cardinality(Begun(toClient)) + Cardinality(Begun(u))
  BY <1>1, BegunConcat
<1>5. toClient = << >> => toClient \o u = u
  BY ConcatEmptySeq
<1>6. toClient' \in Seq(Units)
  BY <1>1, <1>2
<1> QED
  BY <1>3, <1>4, <1>5, <1>6

LEMMA ReadRequestStep ==
  ASSUME ProtocolInv, ReadRequest
  PROVE  ProtocolInv'
<1> DEFINE r == Head(toServer)
<1>1. PICK m \in Answers(r) : jobs' = jobs \cup {Job(m, "nothing")}
  BY DEF ReadRequest, Job
<1>2. /\ up /\ toServer # << >> /\ toServer' = Tail(toServer)
      /\ UNCHANGED <<broadcast, broadcasts, up, toClient, client, g_user_id,
                     requests, failed>>
  BY DEF ReadRequest, ours
<1>3. /\ TypeOK /\ Screens /\ Gone /\ Numbered /\ requests \in Nat
      /\ toServer \in Seq(Asks) /\ jobs \in SUBSET Jobs /\ IsFiniteSet(jobs)
  BY DEF ProtocolInv, ClientInv, TypeOK
<1>4. /\ r \in Asks /\ r = toServer[1] /\ Tail(toServer) \in Seq(Asks)
      /\ Len(toServer) \in Nat \ {0} /\ Len(toServer') = Len(toServer) - 1
      /\ \A i \in 1 .. Len(toServer') : toServer'[i] = toServer[i + 1]
  BY <1>2, <1>3, HeadTailProperties
<1>5. /\ m \in Messages /\ m.number = r.number /\ Job(m, "nothing") \in Jobs
      /\ r.number \in Nat
  <2>1. m \in Messages /\ m.number = r.number
    BY <1>4, AnswerFacts
  <2> QED
    BY <1>4, <2>1 DEF Job, Jobs, Asks
<1> HIDE DEF r
<1>6. ClientInv'
  <2>1. TypeOK'
    <3>1. jobs' \in SUBSET Jobs /\ IsFiniteSet(jobs')
      BY <1>1, <1>3, <1>5, FS_AddElement
    <3> QED
      BY <1>2, <1>3, <1>4, <3>1 DEF TypeOK
  <2>2. Screens' /\ Gone'
    BY <1>2, <1>3 DEF Screens, Waiting, Gone
  <2> QED
    BY <2>1, <2>2 DEF ClientInv
<1>7. InStep'
  <2> SUFFICES ASSUME Undisturbed' PROVE InStep'
    BY DEF InStep
  <2>1. Undisturbed /\ InStep /\ Asked' = Asked
    BY <1>2 DEF Undisturbed, ProtocolInv, Asked
  <2>2. client.pc # "idle" /\ client.pc # "payload"
    BY <1>2, <2>1 DEF InStep, Nowhere, AwaitsPayload, OnTheWay
  <2>3. ASSUME client.pc = "header" PROVE AwaitsHeader'
    <3>1. OnTheWay(<<Asked>>, {}, << >>)
      BY <1>2, <2>1, <2>3 DEF InStep, AwaitsHeader, Nowhere, OnTheWay
    <3>2. r = Asked /\ Tail(toServer) = << >>
      BY <3>1 DEF OnTheWay, r
    <3>3. OnTheWay(<< >>, {Job(m, "nothing")}, << >>)'
      BY <1>1, <1>2, <3>1, <3>2 DEF OnTheWay
    <3>4. m \in Answers(Asked)'
      BY <2>1, <3>2
    <3> QED
      BY <3>3, <3>4 DEF AwaitsHeader
  <2> QED
    BY <1>2, <2>1, <2>2, <2>3 DEF InStep
<1>8. \A i \in 1 .. Len(toServer) : toServer[i].number \in Nat
  BY <1>3 DEF Asks
<1>9. Numbered'
  <2>1. \A i \in 1 .. Len(toServer') : i + 1 \in 1 .. Len(toServer) /\ i \in Nat
    BY <1>4
  <2>2. 1 \in 1 .. Len(toServer) /\ toServer[1].number = m.number
    BY <1>4, <1>5
  <2>3. \A i \in 1 .. Len(toServer') : toServer'[i].number <= requests'
    BY <1>2, <1>3, <1>4, <2>1 DEF Numbered
  <2>4. \A i, k \in 1 .. Len(toServer') : i < k => toServer'[i].number < toServer'[k].number
    BY <1>3, <1>4, <2>1 DEF Numbered
  <2>5. m.number <= requests
    BY <1>3, <2>2 DEF Numbered
  <2>6. \A i \in 1 .. Len(toServer') : m.number < toServer'[i].number
    BY <1>3, <1>4, <2>1, <2>2 DEF Numbered
  <2>7. \A j \in jobs' : j \in jobs \/ j.answer = m
    BY <1>1, JobIs
  <2>8. \A j \in jobs' : j.answer.number <= requests'
    BY <1>2, <1>3, <2>5, <2>7 DEF Numbered
  <2>9. \A j \in jobs' : \A i \in 1 .. Len(toServer') :
          j.answer.number < toServer'[i].number
    BY <1>3, <1>4, <2>1, <2>6, <2>7 DEF Numbered
  <2> QED
    BY <2>3, <2>4, <2>8, <2>9 DEF Numbered
<1>10. Counts'
  <2>1. Job(m, "nothing") \notin jobs
    <3>1. \A j \in jobs : j.answer.number < toServer[1].number
      BY <1>3, <1>4 DEF Numbered
    <3>2. toServer[1].number = m.number /\ m.number \in Nat
      BY <1>4, <1>5
    <3> QED
      BY <3>1, <3>2, JobIs
  <2>2. Unanswered' = Unanswered \cup {Job(m, "nothing")}
    BY <1>1, JobIs DEF Unanswered
  <2>3. Cardinality(Unanswered') = Cardinality(Unanswered) + 1
    <3>1. Job(m, "nothing") \notin Unanswered
      BY <2>1 DEF Unanswered
    <3> QED
      BY <1>3, <2>2, <3>1, CountTypes, FS_AddElement
  <2>4. ToRead' = ToRead
    BY <1>2, <1>3, <1>4, <2>3, CountTypes DEF ToRead
  <2> QED
    BY <1>2, <2>4 DEF ProtocolInv, Counts
<1> QED
  BY <1>6, <1>7, <1>9, <1>10 DEF ProtocolInv

(* Jobs that workers go on with are still numbered. *)
LEMMA NumbersKept ==
  ASSUME Numbered, UNCHANGED <<requests, toServer>>,
         \A j \in jobs' : \E k \in jobs : k.answer = j.answer
  PROVE  Numbered'
<1>1. \A j \in jobs' : j.answer.number <= requests
  BY DEF Numbered
<1>2. \A j \in jobs' : \A i \in 1 .. Len(toServer) : j.answer.number < toServer[i].number
  BY DEF Numbered
<1> QED
  BY <1>1, <1>2 DEF Numbered

LEMMA SendResponseStep ==
  ASSUME ProtocolInv, SendResponse
  PROVE  ProtocolInv'
<1>1. PICK j \in jobs :
         /\ j.sent = "nothing"
         /\ Sent(Header(j.answer))
         /\ jobs' = IF j.answer.size = 0 THEN jobs \ {j}
                    ELSE (jobs \ {j}) \cup {[j EXCEPT !.sent = "header"]}
  BY DEF SendResponse
<1> DEFINE m == j.answer
           h == Header(m)
           sent == Job(m, "header")
<1>2. UNCHANGED <<toServer, broadcast, broadcasts, up, client, g_user_id, requests, failed>>
  BY DEF SendResponse, ours
<1>3. /\ TypeOK /\ Screens /\ Gone /\ Numbered
      /\ jobs \in SUBSET Jobs /\ IsFiniteSet(jobs)
  BY DEF ProtocolInv, ClientInv, TypeOK
<1>4. /\ j = Job(m, "nothing") /\ m \in Messages /\ [j EXCEPT !.sent = "header"] = sent
      /\ sent \in Jobs
  <2>1. j = Job(m, "nothing") /\ m \in Messages
    BY <1>1, <1>3, JobFields
  <2> QED
    BY <2>1 DEF Job, Jobs
<1>5. jobs' = IF m.size = 0 THEN jobs \ {j} ELSE (jobs \ {j}) \cup {sent}
  BY <1>1, <1>4
<1>6. up
  BY <1>3 DEF Gone
<1>7. h \in Seq(Units) /\ Cardinality(Begun(h)) = 1 /\ Sent(h)
  BY <1>1, <1>4, HeaderFacts, BegunHeader
<1> HIDE DEF h
<1>8. /\ toClient' \in Seq(Units)
      /\ client.pc \in {"idle", "header", "payload"} =>
           /\ Cardinality(Begun(toClient')) = Cardinality(Begun(toClient)) + 1
           /\ toClient = << >> => toClient' = h
  BY <1>3, <1>6, <1>7, SentFacts
<1> HIDE DEF m, sent
<1>9. ClientInv'
  <2>1. jobs' \in SUBSET Jobs /\ IsFiniteSet(jobs')
    <3>1. IsFiniteSet(jobs \ {j})
      BY <1>3, FS_RemoveElement
    <3>2. IsFiniteSet((jobs \ {j}) \cup {sent})
      BY <3>1, FS_AddElement
    <3> QED
      BY <1>3, <1>4, <1>5, <3>1, <3>2
  <2>2. TypeOK'
    BY <1>2, <1>3, <1>8, <2>1 DEF TypeOK
  <2>3. Screens' /\ Gone'
    BY <1>2, <1>3, <1>6 DEF Screens, Waiting, Gone
  <2> QED
    BY <2>2, <2>3 DEF ClientInv
<1>10. InStep'
  <2> SUFFICES ASSUME Undisturbed' PROVE InStep'
    BY DEF InStep
  <2>1. Undisturbed /\ InStep /\ Asked' = Asked
    BY <1>2 DEF Undisturbed, ProtocolInv, Asked
  <2>2. client.pc # "idle"
    BY <2>1 DEF InStep, Nowhere, OnTheWay
  <2>3. client.pc # "payload"
    <3> SUFFICES ASSUME client.pc = "payload" PROVE FALSE
      OBVIOUS
    <3>1. j = Job(client.header, "header")
      BY <2>1 DEF InStep, AwaitsPayload, OnTheWay, Nowhere
    <3> QED
      BY <1>1, <3>1, JobIs
  <2>4. ASSUME client.pc = "header" PROVE AwaitsHeader'
    <3>1. PICK a \in Answers(Asked) :
             \/ OnTheWay(<< >>, {Job(a, "nothing")}, << >>)
             \/ a.size # 0 /\ OnTheWay(<< >>, {Job(a, "header")}, Header(a))
      BY <2>1, <2>4 DEF InStep, AwaitsHeader, OnTheWay, Nowhere
    <3>2. j # Job(a, "header")
      BY <1>1, JobIs
    <3>3. OnTheWay(<< >>, {Job(a, "nothing")}, << >>) /\ j = Job(a, "nothing")
      BY <3>1, <3>2 DEF OnTheWay
    <3>4. m = a /\ m \in Answers(Asked)'
      BY <2>1, <3>3, JobIs DEF m
    <3>5. toServer' = << >> /\ toClient' = h
      BY <1>2, <1>8, <2>4, <3>3 DEF OnTheWay
    <3>6. CASE m.size = 0
      <4>1. h = Header(m) \o Payload(m)
        BY <1>4, <1>7, <3>6, PayloadFacts, ConcatEmptySeq DEF h, m
      <4>2. OnTheWay(<< >>, {}, Header(m) \o Payload(m))'
        BY <1>5, <3>3, <3>5, <3>6, <4>1 DEF OnTheWay
      <4> QED
        BY <3>4, <4>2 DEF AwaitsHeader
    <3>7. CASE m.size # 0
      <4>1. OnTheWay(<< >>, {Job(m, "header")}, Header(m))'
        BY <1>5, <3>3, <3>5, <3>7 DEF OnTheWay, h, m, sent
      <4> QED
        BY <3>4, <3>7, <4>1 DEF AwaitsHeader
    <3> QED
      BY <3>6, <3>7
  <2> QED
    BY <1>2, <2>1, <2>2, <2>3, <2>4 DEF InStep
<1>11. Numbered'
  <2>1. \A k \in jobs' : k \in jobs \/ k = sent
    BY <1>5
  <2>2. sent.answer = j.answer
    BY JobIs DEF m, sent
  <2> QED
    BY <1>2, <1>3, <2>1, <2>2, NumbersKept
<1>12. Counts'
  <2> SUFFICES ASSUME client.pc \in {"idle", "header", "payload"} PROVE Counts'
    BY <1>2 DEF Counts
  <2>1. sent.sent = "header"
    BY JobIs DEF sent
  <2>2. Unanswered' = Unanswered \ {j} /\ j \in Unanswered
    BY <1>1, <1>5, <2>1 DEF Unanswered
  <2>3. Cardinality(Unanswered') = Cardinality(Unanswered) - 1
    BY <1>3, <2>2, CountTypes, FS_RemoveElement
  <2>4. ToRead' = ToRead
    BY <1>2, <1>3, <1>8, <2>3, CountTypes DEF ToRead
  <2> QED
    BY <1>2, <2>4 DEF ProtocolInv, Counts
<1> QED
  BY <1>9, <1>10, <1>11, <1>12 DEF ProtocolInv

LEMMA SendResponsePayloadStep ==
  ASSUME ProtocolInv, SendResponsePayload
  PROVE  ProtocolInv'
<1>1. PICK j \in jobs :
         j.sent = "header" /\ Sent(Payload(j.answer)) /\ jobs' = jobs \ {j}
  BY DEF SendResponsePayload
<1> DEFINE m == j.answer
           p == Payload(m)
<1>2. UNCHANGED <<toServer, broadcast, broadcasts, up, client, g_user_id, requests, failed>>
  BY DEF SendResponsePayload, ours
<1>3. /\ TypeOK /\ Screens /\ Gone /\ Numbered
      /\ jobs \in SUBSET Jobs /\ IsFiniteSet(jobs) /\ toClient \in Seq(Units)
  BY DEF ProtocolInv, ClientInv, TypeOK
<1>4. j = Job(m, "header") /\ m \in Messages
  BY <1>1, <1>3, JobFields
<1>5. up
  BY <1>3 DEF Gone
<1>6. p \in Seq(Units) /\ Cardinality(Begun(p)) = 0 /\ Sent(p)
  BY <1>1, <1>4, PayloadFacts, BegunPayload
<1> HIDE DEF p
<1>7. /\ toClient' \in Seq(Units)
      /\ client.pc \in {"idle", "header", "payload"} =>
           /\ Cardinality(Begun(toClient')) = Cardinality(Begun(toClient)) + 0
           /\ toClient' = toClient \o p
           /\ toClient = << >> => toClient' = p
  BY <1>3, <1>5, <1>6, SentFacts
<1> HIDE DEF m
<1>8. ClientInv'
  <2>1. jobs' \in SUBSET Jobs /\ IsFiniteSet(jobs')
    BY <1>1, <1>3, FS_RemoveElement
  <2>2. TypeOK'
    BY <1>2, <1>3, <1>7, <2>1 DEF TypeOK
  <2>3. Screens' /\ Gone'
    BY <1>2, <1>3, <1>5 DEF Screens, Waiting, Gone
  <2> QED
    BY <2>2, <2>3 DEF ClientInv
<1>9. InStep'
  <2> SUFFICES ASSUME Undisturbed' PROVE InStep'
    BY DEF InStep
  <2>1. Undisturbed /\ InStep /\ Asked' = Asked
    BY <1>2 DEF Undisturbed, ProtocolInv, Asked
  <2>2. client.pc # "idle"
    BY <2>1 DEF InStep, Nowhere, OnTheWay
  <2>3. ASSUME client.pc = "header" PROVE AwaitsHeader'
    <3>1. PICK a \in Answers(Asked) :
             \/ OnTheWay(<< >>, {Job(a, "nothing")}, << >>)
             \/ OnTheWay(<< >>, {Job(a, "header")}, Header(a))
      BY <2>1, <2>3 DEF InStep, AwaitsHeader, OnTheWay, Nowhere
    <3>2. j # Job(a, "nothing")
      BY <1>1, JobIs
    <3>3. OnTheWay(<< >>, {Job(a, "header")}, Header(a)) /\ j = Job(a, "header")
      BY <3>1, <3>2 DEF OnTheWay
    <3>4. m = a /\ m \in Answers(Asked)'
      BY <2>1, <3>3, JobIs DEF m
    <3>5. toClient' = Header(m) \o p
      BY <1>7, <2>3, <3>3, <3>4 DEF OnTheWay
    <3>6. OnTheWay(<< >>, {}, Header(m) \o Payload(m))'
      BY <1>1, <1>2, <3>3, <3>5 DEF OnTheWay, p
    <3> QED
      BY <3>4, <3>6 DEF AwaitsHeader
  <2>4. ASSUME client.pc = "payload" PROVE AwaitsPayload'
    <3>1. AwaitsPayload /\ client' = client
      BY <1>2, <2>1, <2>4 DEF InStep
    <3>2. OnTheWay(<< >>, {Job(client.header, "header")}, << >>)
          /\ j = Job(client.header, "header")
      BY <3>1 DEF AwaitsPayload, OnTheWay, Nowhere
    <3>3. m = client.header
      BY <3>2, JobIs DEF m
    <3>4. OnTheWay(<< >>, {}, Payload(client.header))'
      BY <1>1, <1>2, <1>7, <2>4, <3>1, <3>2, <3>3 DEF OnTheWay, p
    <3> QED
      BY <2>1, <3>1, <3>4 DEF AwaitsPayload
  <2> QED
    BY <1>2, <2>1, <2>2, <2>3, <2>4 DEF InStep
<1>10. Numbered'
  BY <1>1, <1>2, <1>3, NumbersKept
<1>11. Counts'
  <2> SUFFICES ASSUME client.pc \in {"idle", "header", "payload"} PROVE Counts'
    BY <1>2 DEF Counts
  <2>1. Unanswered' = Unanswered
    BY <1>1 DEF Unanswered
  <2>2. ToRead' = ToRead
    BY <1>2, <1>3, <1>7, <2>1, CountTypes DEF ToRead
  <2> QED
    BY <1>2, <2>2 DEF ProtocolInv, Counts
<1> QED
  BY <1>8, <1>9, <1>10, <1>11 DEF ProtocolInv

LEMMA BroadcastStep ==
  ASSUME ProtocolInv, Broadcast
  PROVE  ProtocolInv'
<1> DEFINE chat == Chat(broadcasts + 1)
           h == Header(chat)
<1>1. /\ up /\ broadcasts' = broadcasts + 1 /\ broadcast' = chat /\ Sent(h)
      /\ UNCHANGED <<toServer, jobs, up, client, g_user_id, requests, failed>>
  BY DEF Broadcast, Reachable, ours
<1>2. TypeOK /\ Screens /\ Gone /\ Numbered /\ broadcasts \in Nat
  BY DEF ProtocolInv, ClientInv, TypeOK
<1>3. chat \in Messages
  BY <1>2, ChatFacts
<1> HIDE DEF chat
<1>4. h \in Seq(Units) /\ Cardinality(Begun(h)) = 1
  BY <1>3, HeaderFacts, BegunHeader
<1> HIDE DEF h
<1>5. /\ toClient' \in Seq(Units)
      /\ client.pc \in {"idle", "header", "payload"} =>
           Cardinality(Begun(toClient')) = Cardinality(Begun(toClient)) + 1
  BY <1>1, <1>2, <1>4, SentFacts
<1>6. ClientInv'
  <2>1. TypeOK'
    BY <1>1, <1>2, <1>3, <1>5 DEF TypeOK
  <2>2. Screens' /\ Gone'
    BY <1>1, <1>2 DEF Screens, Waiting, Gone
  <2> QED
    BY <2>1, <2>2 DEF ClientInv
<1>7. InStep'
  BY <1>1, <1>2 DEF InStep, Undisturbed
<1>8. Numbered'
  BY <1>1, <1>2 DEF Numbered
<1>9. Counts'
  <2> SUFFICES ASSUME ~failed, client.pc \in {"idle", "header", "payload"} PROVE Counts'
    BY <1>1 DEF Counts
  <2>1. Unanswered' = Unanswered
    BY <1>1 DEF Unanswered
  <2>2. ToRead' = ToRead + 1 /\ ToRead \in Nat
    BY <1>1, <1>2, <1>5, <2>1, CountTypes DEF ToRead
  <2>3. ToRead = broadcasts + (IF client.pc = "header" THEN 1 ELSE 0)
    BY <1>1 DEF ProtocolInv, Counts
  <2>4. ToRead' = broadcasts' + (IF client'.pc = "header" THEN 1 ELSE 0)
    BY <1>1, <1>2, <2>2, <2>3
  <2> QED
    BY <2>4 DEF Counts
<1> QED
  BY <1>6, <1>7, <1>8, <1>9 DEF ProtocolInv

LEMMA BroadcastPayloadStep ==
  ASSUME ProtocolInv, BroadcastPayload
  PROVE  ProtocolInv'
<1> DEFINE p == Payload(broadcast)
<1>1. /\ up /\ broadcast # NoBroadcast /\ Sent(p) /\ broadcast' = NoBroadcast
      /\ UNCHANGED <<toServer, jobs, broadcasts, up, client, g_user_id, requests, failed>>
  BY DEF BroadcastPayload, ours
<1>2. TypeOK /\ Screens /\ Gone /\ Numbered /\ broadcast \in Messages
  BY DEF ProtocolInv, ClientInv, TypeOK
<1>3. p \in Seq(Units) /\ Cardinality(Begun(p)) = 0
  BY <1>2, PayloadFacts, BegunPayload
<1> HIDE DEF p
<1>4. /\ toClient' \in Seq(Units)
      /\ client.pc \in {"idle", "header", "payload"} =>
           Cardinality(Begun(toClient')) = Cardinality(Begun(toClient)) + 0
  BY <1>1, <1>2, <1>3, SentFacts
<1>5. ClientInv'
  <2>1. NoBroadcast \in Messages
    BY NoMessageFacts DEF NoBroadcast
  <2>2. TypeOK'
    BY <1>1, <1>2, <1>4, <2>1 DEF TypeOK
  <2>3. Screens' /\ Gone'
    BY <1>1, <1>2 DEF Screens, Waiting, Gone
  <2> QED
    BY <2>2, <2>3 DEF ClientInv
<1>6. InStep'
  BY <1>1 DEF ProtocolInv, InStep, Undisturbed
<1>7. Numbered'
  BY <1>1, <1>2 DEF Numbered
<1>8. Counts'
  <2> SUFFICES ASSUME client.pc \in {"idle", "header", "payload"} PROVE Counts'
    BY <1>1 DEF Counts
  <2>1. Unanswered' = Unanswered
    BY <1>1 DEF Unanswered
  <2>2. ToRead' = ToRead
    BY <1>1, <1>2, <1>4, <2>1, CountTypes DEF ToRead
  <2> QED
    BY <1>1, <2>2 DEF ProtocolInv, Counts
<1> QED
  BY <1>5, <1>6, <1>7, <1>8 DEF ProtocolInv

LEMMA ServerEndsStep ==
  ASSUME ProtocolInv, ServerEnds
  PROVE  ProtocolInv'
<1>1. /\ ~up' /\ jobs' = {} /\ toServer' = << >> /\ broadcast' = NoBroadcast
      /\ UNCHANGED <<broadcasts, toClient, client, g_user_id, requests, failed>>
  BY DEF ServerEnds, ours
<1>2. TypeOK /\ Screens /\ requests \in Nat
  BY DEF ProtocolInv, ClientInv, TypeOK
<1>3. ClientInv'
  <2>1. NoBroadcast \in Messages /\ IsFiniteSet({})
    BY NoMessageFacts, FS_EmptySet DEF NoBroadcast
  <2>2. up' \in BOOLEAN
    BY DEF ServerEnds
  <2>3. TypeOK'
    BY <1>1, <1>2, <2>1, <2>2 DEF TypeOK
  <2>4. Screens' /\ Gone'
    BY <1>1, <1>2 DEF Screens, Waiting, Gone
  <2> QED
    BY <2>3, <2>4 DEF ClientInv
<1>4. InStep'
  <2> SUFFICES ASSUME Undisturbed' PROVE InStep'
    BY DEF InStep
  <2>1. InStep /\ Undisturbed /\ Asked' = Asked
    BY <1>1 DEF ProtocolInv, Undisturbed, Asked
  <2>2. client.pc = "idle" => Nowhere'
    BY <1>1, <2>1 DEF InStep, Nowhere, OnTheWay
  <2>3. ASSUME client.pc = "header" PROVE AwaitsHeader'
    <3>1. AwaitsHeader
      BY <2>1, <2>3 DEF InStep
    <3>2. CASE toClient = << >>
      BY <1>1, <3>2 DEF AwaitsHeader, Nowhere, OnTheWay
    <3>3. CASE toClient # << >>
      <4>1. PICK a \in Answers(Asked) :
              toClient = Header(a) \/ toClient = Header(a) \o Payload(a)
        BY <3>1, <3>3 DEF AwaitsHeader, Nowhere, OnTheWay
      <4>2. \/ OnTheWay(<< >>, {}, Header(a) \o Payload(a))'
            \/ ~up' /\ OnTheWay(<< >>, {}, Header(a))'
        BY <1>1, <4>1 DEF OnTheWay
      <4>3. a \in Answers(Asked)'
        BY <2>1
      <4> QED
        BY <4>2, <4>3 DEF AwaitsHeader
    <3> QED
      BY <3>2, <3>3
  <2>4. ASSUME client.pc = "payload" PROVE AwaitsPayload'
    <3>1. AwaitsPayload
      BY <2>1, <2>4 DEF InStep
    <3> QED
      BY <1>1, <2>1, <3>1 DEF AwaitsPayload, Nowhere, OnTheWay
  <2> QED
    BY <1>1, <2>1, <2>2, <2>3, <2>4 DEF InStep
<1>5. Numbered' /\ Counts'
  BY <1>1, <1>2 DEF Numbered, Counts
<1> QED
  BY <1>3, <1>4, <1>5 DEF ProtocolInv

-----------------------------------------------------------------------------
LEMMA ProtocolInit == Init => ProtocolInv
<1> SUFFICES ASSUME Init PROVE ProtocolInv
  OBVIOUS
<1>1. /\ client \in Clients /\ client.pc = "idle" /\ client.where = "authenticate"
  BY NoMessageFacts DEF Init, NewClient, Clients, Kinds
<1>2. NoBroadcast \in Messages /\ IsFiniteSet({}) /\ Cardinality({}) = 0
  BY NoMessageFacts, FS_EmptySet DEF NoBroadcast
<1>3. ClientInv
  <2>1. TypeOK
    <3>1. jobs \in SUBSET Jobs /\ IsFiniteSet(jobs)
      BY <1>2 DEF Init
    <3>2. toServer \in Seq(Asks) /\ toClient \in Seq(Units)
      BY DEF Init
    <3> QED
      BY <1>1, <1>2, <3>1, <3>2 DEF Init, TypeOK
  <2>2. Screens
    BY <1>1 DEF Screens, Waiting
  <2>3. Gone
    BY DEF Init, Gone
  <2> QED
    BY <2>1, <2>2, <2>3 DEF ClientInv
<1>4. InStep
  BY <1>1 DEF Init, InStep, Nowhere, OnTheWay
<1>5. Numbered
  BY DEF Init, Numbered
<1>6. Counts
  <2>1. Unanswered = {} /\ Len(toServer) = 0 /\ toClient = << >>
    BY DEF Init, Unanswered
  <2>2. ToRead = 0
    BY <1>2, <2>1, BegunNone DEF ToRead
  <2> QED
    BY <1>1, <2>2 DEF Init, Counts
<1> QED
  BY <1>3, <1>4, <1>5, <1>6 DEF ProtocolInv

LEMMA UserStep ==
  ASSUME ProtocolInv, User
  PROVE  ProtocolInv'
<1>1. TypeOK /\ Screens /\ client.account \in Accounts \cup {NoAccount}
  BY ClientFields DEF ProtocolInv, ClientInv
<1>2. {"register", "login", "logout", "other"} = Kinds
  BY DEF Kinds
<1>3. CASE HandleLogin
  BY <1>2, <1>3, SendStep DEF HandleLogin
<1>4. CASE HandleRegister
  BY <1>2, <1>4, SendStep DEF HandleRegister
<1>5. CASE LoginAfterRegister
  <2>1. client.account \in Accounts /\ client.where # "menu"
        /\ SendMessage("login", client.account)
    BY <1>1, <1>5 DEF LoginAfterRegister, Screens
  <2> QED
    BY <1>2, <2>1, SendStep
<1>6. CASE HandleMenu
  BY <1>1, <1>2, <1>6, SendStep DEF HandleMenu
<1>7. CASE Logout
  BY <1>1, <1>2, <1>7, SendStep DEF Logout
<1>8. CASE Exit
  BY <1>8, ExitStep
<1> QED
  BY <1>3, <1>4, <1>5, <1>6, <1>7, <1>8 DEF User

LEMMA ProtocolStep == ProtocolInv /\ [Next]_vars => ProtocolInv'
<1> SUFFICES ASSUME ProtocolInv, [Next]_vars PROVE ProtocolInv'
  OBVIOUS
<1>1. CASE User
  BY <1>1, UserStep
<1>2. CASE Receive
  BY <1>2, ReceiveHeaderStep, ReceivePayloadStep, ConnectionClosedStep DEF Receive
<1>3. CASE Server
  BY <1>3, ReadRequestStep, SendResponseStep, SendResponsePayloadStep,
     BroadcastPayloadStep DEF Server
<1>4. CASE Broadcast
  BY <1>4, BroadcastStep
<1>5. CASE ServerEnds
  BY <1>5, ServerEndsStep
<1>6. CASE UNCHANGED vars
  <2>1. UNCHANGED <<client, g_user_id, requests, failed, toServer, jobs, broadcast,
                    broadcasts, toClient, up>>
    BY <1>6 DEF vars
  <2>2. ClientInv'
    BY <2>1 DEF ProtocolInv, ClientInv, TypeOK, Screens, Waiting, Gone
  <2>3. InStep'
    BY <2>1 DEF ProtocolInv, InStep, Undisturbed, AwaitsHeader, AwaitsPayload,
                Nowhere, OnTheWay, Asked
  <2>4. Numbered' /\ Counts'
    BY <2>1 DEF ProtocolInv, Numbered, Counts, ToRead, Unanswered
  <2> QED
    BY <2>2, <2>3, <2>4 DEF ProtocolInv
<1> QED
  BY <1>1, <1>2, <1>3, <1>4, <1>5, <1>6 DEF Next

LEMMA ProtocolInvariant == Spec => []ProtocolInv
BY ProtocolInit, ProtocolStep, PTL DEF Spec

(* The client acts for an account that an answer has named, and as long as  *)
(* no broadcast has come and no read has failed, for the one whose name was *)
(* typed last.                                                              *)
THEOREM ActsForItsAccount == Spec => []ActsAsLoggedIn
<1>1. ProtocolInv => ActsAsLoggedIn
  BY DEF ProtocolInv, ClientInv, Screens, InStep, Undisturbed, ActsAsLoggedIn
<1> QED
  BY <1>1, ProtocolInvariant, PTL

(* A client whose reads have not failed is behind by as many messages as    *)
(* there were broadcasts.                                                   *)
THEOREM OneMessageBehind == Spec => []LagsByBroadcasts
<1>1. ProtocolInv => LagsByBroadcasts
  <2> SUFFICES ASSUME ProtocolInv, client.pc = "idle", up, ~failed,
                      toServer = << >>, jobs = {}
               PROVE  Cardinality(Begun(toClient)) = broadcasts
    BY DEF LagsByBroadcasts
  <2>1. ToRead = broadcasts + 0
    BY DEF ProtocolInv, Counts
  <2>2. Len(toServer) = 0 /\ Cardinality(Unanswered) = 0
    <3>1. Unanswered = {}
      BY DEF Unanswered
    <3> QED
      BY <3>1, FS_EmptySet
  <2>3. Cardinality(Begun(toClient)) \in Nat /\ broadcasts \in Nat
    BY CountTypes DEF ProtocolInv, ClientInv
  <2> QED
    BY <2>1, <2>2, <2>3 DEF ToRead
<1> QED
  BY <1>1, ProtocolInvariant, PTL

=============================================================================
