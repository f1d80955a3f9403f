------------------------- MODULE NotificationsProofs -------------------------
(***************************************************************************)
(* Proofs about Notifications, for any users, clients and calls.           *)
(*                                                                         *)
(* All of it rests on who may be on which Subject: the Subject a client    *)
(* was given is in the map under that client's user or under nobody, and   *)
(* once out of the map it never comes back, since a Subject that is put    *)
(* there is a new one.  So the subscribed clients whose Subject is in the  *)
(* map are exactly those a notification is pushed to.                      *)
(***************************************************************************)
EXTENDS Notifications, FiniteSetTheorems, TLAPS

(* A client that has called holds a Subject, made for its user. *)
Holds(c) == phase[c] # "away" => stream[c] \in 1 .. streams /\ user[c] \in Users

Owned ==
    /\ \A c \in Clients : Holds(c)
    /\ \A u, w \in Users : streamOf[u] = streamOf[w] /\ streamOf[u] # 0 => u = w
    /\ \A c \in Clients, u \in Users :
          phase[c] # "away" /\ streamOf[u] = stream[c] => user[c] = u

(* Nothing is delivered before the subscription. *)
Fresh == \A c \in Clients :
            /\ phase[c] = "called" => received[c] = <<>>
            /\ phase[c] = "subscribed" => from[c] =< Sent

(* How often the method of a call has run, at each stage of the call. *)
Counted == \A k \in Calls :
              /\ call[k] \in {"asked", "refused"} => effects[k] = 0
              /\ call[k] \in {"served", "ok"} => effects[k] = 1
              /\ effects[k] =< 1

Inv == TypeOK /\ Owned /\ Fresh /\ Counted

Joined == {c \in Clients : phase[c] = "subscribed" /\ Mapped(c)}

USE BoundAssumption DEF Sent

-----------------------------------------------------------------------------
(* What each method keeps of the types. *)
LEMMA TypeInit == Init => TypeOK
<1> SUFFICES ASSUME Init PROVE TypeOK
  OBVIOUS
<1>1. /\ notifications \in [Ids -> Notification \cup {None}]
      /\ user \in [Clients -> Users \cup {None}]
  BY DEF Init
<1>2. /\ streams \in 0 .. MaxStreams /\ now \in 0 .. MaxTime
      /\ streamOf \in [Users -> 0 .. streams]
      /\ stream \in [Clients -> 0 .. streams]
      /\ from \in [Clients -> 0 .. MaxSent]
      /\ effects \in [Calls -> Nat]
  BY DEF Init
<1>3. phase \in [Clients -> Phases] /\ call \in [Calls -> CallPhases] /\ late \in BOOLEAN
  BY DEF Init, Phases, CallPhases
<1>4. <<>> \in Seq(Ids) /\ <<>> \in Seq(Users) /\ Len(<<>>) = 0
  OBVIOUS
<1>5. received \in [Clients -> Seq(Ids)] /\ sentTo \in Seq(Users) /\ Sent =< MaxSent
  BY <1>4 DEF Init
<1>6. QED BY <1>1, <1>2, <1>3, <1>5 DEF TypeOK

LEMMA SubscribeTyped ==
    ASSUME TypeOK, NEW c \in Clients, NEW u \in Users, Subscribe(c, u)
    PROVE  TypeOK'
<1>1. streams' \in 0 .. MaxStreams /\ streams =< streams'
  BY DEF TypeOK, Subscribe
<1>2. streamOf' \in [Users -> 0 .. streams'] /\ streamOf'[u] \in 0 .. streams'
  BY <1>1 DEF TypeOK, Subscribe
<1>3. stream' \in [Clients -> 0 .. streams']
  BY <1>1, <1>2 DEF TypeOK, Subscribe
<1>4. received' \in [Clients -> Seq(Ids)]
  BY DEF TypeOK, Subscribe
<1>5. phase' \in [Clients -> Phases] /\ user' \in [Clients -> Users \cup {None}]
  BY DEF TypeOK, Subscribe, Phases
<1>6. QED BY <1>1, <1>2, <1>3, <1>4, <1>5 DEF TypeOK, Subscribe

LEMMA ConnectTyped ==
    ASSUME TypeOK, NEW c \in Clients, Connect(c)
    PROVE  TypeOK'
<1>1. Sent \in 0 .. MaxSent
  BY DEF TypeOK
<1>2. phase' \in [Clients -> Phases] /\ from' \in [Clients -> 0 .. MaxSent]
  BY <1>1 DEF TypeOK, Connect, Phases
<1>3. late' \in BOOLEAN
  BY DEF TypeOK, Connect
<1>4. QED BY <1>2, <1>3 DEF TypeOK, Connect, service

LEMMA TeardownTyped ==
    ASSUME TypeOK, NEW c \in Clients, Teardown(c)
    PROVE  TypeOK'
<1>1. streamOf' \in [Users -> 0 .. streams]
  <2>1. streamOf \in [Users -> 0 .. streams] /\ 0 \in 0 .. streams
    BY DEF TypeOK
  <2>2. streamOf' = streamOf \/ streamOf' = [streamOf EXCEPT ![user[c]] = 0]
    BY DEF Teardown
  <2>3. QED BY <2>1, <2>2
<1>2. /\ phase' \in [Clients -> Phases]
      /\ stream' \in [Clients -> 0 .. streams]
      /\ from' \in [Clients -> 0 .. MaxSent]
  BY DEF TypeOK, Teardown, Leave, Phases
<1>3. QED BY <1>1, <1>2 DEF TypeOK, Teardown, Leave

LEMMA SendTyped ==
    ASSUME TypeOK, NEW u \in Users, SendNotification(u), UNCHANGED now
    PROVE  /\ notifications' \in [Ids -> Notification \cup {None}]
           /\ received' \in [Clients -> Seq(Ids)]
           /\ sentTo' \in Seq(Users) /\ Sent' = Sent + 1 /\ Sent' =< MaxSent
<1>1. sentTo \in Seq(Users) /\ Sent \in Nat /\ Sent < MaxSent
  BY DEF TypeOK, SendNotification
<1>2. sentTo' \in Seq(Users) /\ Sent' = Sent + 1 /\ Sent' =< MaxSent
  BY <1>1 DEF SendNotification
<1>3. Sent + 1 \in Ids
  BY <1>1 DEF Ids
<1>4. [userId |-> u, createdAt |-> now, isRead |-> FALSE] \in Notification
  BY DEF TypeOK, Notification
<1>5. notifications' \in [Ids -> Notification \cup {None}]
  BY <1>3, <1>4 DEF TypeOK, SendNotification
<1>6. \A c \in Clients : received[c] \in Seq(Ids) /\ Append(received[c], Sent + 1) \in Seq(Ids)
  BY <1>3 DEF TypeOK
<1>7. received' \in [Clients -> Seq(Ids)]
  BY <1>6 DEF SendNotification, Push
<1>8. QED BY <1>2, <1>5, <1>7

LEMMA ChangeTyped ==
    ASSUME TypeOK, NEW u \in Users, NEW i \in Ids, MayChange(i, u),
           MarkAsRead(i) \/ DeleteNotification(i)
    PROVE  notifications' \in [Ids -> Notification \cup {None}]
<1>1. notifications[i] \in Notification
  BY DEF MayChange, TypeOK
<1>2. [notifications[i] EXCEPT !.isRead = TRUE] \in Notification
  BY <1>1 DEF Notification
<1>3. QED BY <1>2 DEF MarkAsRead, DeleteNotification, TypeOK

-----------------------------------------------------------------------------
(* Who is on which Subject. *)

(* A Subject that is put in the map is a new one, so that of nobody else;  *)
(* the one found there belongs to this user. *)
LEMMA SubscribeOwned ==
    ASSUME TypeOK, Owned, NEW c \in Clients, NEW u \in Users, Subscribe(c, u)
    PROVE  Owned' /\ Joined' = Joined
<1> DEFINE s == streamOf'[u]
<1>1. /\ streams \in Nat /\ streams' \in Nat /\ streams =< streams'
      /\ streamOf[u] \in 0 .. streams
      /\ s = IF streamOf[u] = 0 THEN streams + 1 ELSE streamOf[u]
      /\ s \in 1 .. streams'
  BY DEF TypeOK, Subscribe
<1>2. \A w \in Users : w # u => streamOf'[w] = streamOf[w] /\ streamOf[w] \in 0 .. streams
  BY DEF TypeOK, Subscribe
<1>3. /\ phase[c] = "away" /\ phase'[c] = "called" /\ stream'[c] = s /\ user'[c] = u
      /\ \A d \in Clients : d # c =>
            phase'[d] = phase[d] /\ stream'[d] = stream[d] /\ user'[d] = user[d]
  BY DEF TypeOK, Subscribe
<1> HIDE DEF s
<1>4. \A w \in Users : streamOf'[w] = s => w = u
  BY <1>1, <1>2 DEF Owned
<1>5. \A d \in Clients, w \in Users :
         d # c /\ phase[d] # "away" =>
            (streamOf'[w] = stream[d] <=> streamOf[w] = stream[d])
  BY <1>1, <1>2 DEF Owned, Holds, s
<1>6. \A d \in Clients : Holds(d)'
  BY <1>1, <1>3 DEF Owned, Holds
<1>7. \A v, w \in Users : streamOf'[v] = streamOf'[w] /\ streamOf'[v] # 0 => v = w
  BY <1>2, <1>4 DEF Owned, s
<1>8. \A d \in Clients, w \in Users :
         phase'[d] # "away" /\ streamOf'[w] = stream'[d] => user'[d] = w
  BY <1>3, <1>4, <1>5 DEF Owned
<1>9. \A d \in Clients : d \in Joined' <=> d \in Joined
  <2> TAKE d \in Clients
  <2>1. CASE d = c
    BY <1>3, <2>1 DEF Joined
  <2>2. CASE d # c
    BY <1>3, <1>5, <2>2 DEF Joined, Mapped, Owned, Holds
  <2>3. QED BY <2>1, <2>2
<1>10. Joined \subseteq Clients /\ Joined' \subseteq Clients
  BY DEF Joined
<1>11. QED BY <1>6, <1>7, <1>8, <1>9, <1>10 DEF Owned

LEMMA ConnectOwned ==
    ASSUME TypeOK, Owned, NEW c \in Clients, Connect(c)
    PROVE  /\ Owned'
           /\ Joined' = IF Mapped(c) THEN Joined \cup {c} ELSE Joined
<1>1. /\ phase[c] = "called" /\ phase'[c] = "subscribed"
      /\ \A d \in Clients : d # c => phase'[d] = phase[d]
      /\ UNCHANGED <<streams, streamOf, stream, user>>
  BY DEF TypeOK, Connect, service
<1>2. Owned'
  BY <1>1 DEF Owned, Holds
<1>3. \A d \in Clients : d \in Joined' <=> d \in Joined \/ (d = c /\ Mapped(c))
  BY <1>1 DEF Joined, Mapped
<1>4. QED BY <1>2, <1>3 DEF Joined

(* A Subject that leaves the map takes all that are on it with it. *)
LEMMA TeardownOwned ==
    ASSUME TypeOK, Owned, NEW c \in Clients, Teardown(c)
    PROVE  Owned' /\ Joined' \subseteq Joined
<1>1. /\ phase[c] = "subscribed" /\ phase'[c] = "away"
      /\ \A d \in Clients : d # c => phase'[d] = phase[d] /\ stream'[d] = stream[d]
      /\ UNCHANGED <<streams, user>>
  BY DEF TypeOK, Teardown, Leave
<1>2. user[c] \in Users
  BY <1>1 DEF Owned, Holds
<1>3. \A w \in Users : streamOf'[w] \in {0, streamOf[w]}
  <2>1. streamOf' = streamOf \/ streamOf' = [streamOf EXCEPT ![user[c]] = 0]
    BY DEF Teardown
  <2>2. QED BY <2>1 DEF TypeOK
<1>4. \A d \in Clients : Holds(d)'
  BY <1>1 DEF Owned, Holds
<1>5. \A v, w \in Users : streamOf'[v] = streamOf'[w] /\ streamOf'[v] # 0 => v = w
  BY <1>3 DEF Owned
<1>6. \A d \in Clients, w \in Users :
         phase'[d] # "away" /\ streamOf'[w] = stream'[d]
            => d # c /\ streamOf[w] = stream[d]
  BY <1>1, <1>3 DEF Owned, Holds
<1>7. \A d \in Clients, w \in Users :
         phase'[d] # "away" /\ streamOf'[w] = stream'[d] => user'[d] = w
  BY <1>1, <1>6 DEF Owned
<1>8. Owned'
  BY <1>4, <1>5, <1>7 DEF Owned
<1>9. Joined' \subseteq Joined
  BY <1>1, <1>6 DEF Joined, Mapped, Owned, Holds
<1>10. QED BY <1>8, <1>9

(* Those a notification is pushed to are those that have joined its user's *)
(* stream. *)
LEMMA PushedToJoined ==
    ASSUME TypeOK, Owned, NEW u \in Users, NEW c \in Clients
    PROVE  streamOf[u] # 0 /\ c \in Observers(streamOf[u])
              <=> c \in Joined /\ user[c] = u
<1>1. ASSUME streamOf[u] # 0, c \in Observers(streamOf[u])
      PROVE  c \in Joined /\ user[c] = u
  BY <1>1 DEF Observers, Joined, Mapped, Owned
<1>2. ASSUME c \in Joined, user[c] = u
      PROVE  streamOf[u] # 0 /\ c \in Observers(streamOf[u])
  BY <1>2 DEF Observers, Joined, Mapped, Owned, Holds
<1>3. QED BY <1>1, <1>2

-----------------------------------------------------------------------------
(* The invariant.  A step of a client leaves the calls alone, and a step   *)
(* of a call the streams, but for what it delivers. *)
LEMMA ClientStepInv ==
    ASSUME Inv, NEW c \in Clients, ClientStep(c)
    PROVE  Inv'
<1>1. ASSUME NEW u \in Users, Subscribe(c, u)
      PROVE  Inv'
  <2>1. TypeOK' /\ Owned'
    BY <1>1, SubscribeTyped, SubscribeOwned DEF Inv
  <2>2. Fresh'
    BY <1>1 DEF Inv, Fresh, TypeOK, Subscribe
  <2>3. Counted'
    BY <1>1 DEF Inv, Counted, Subscribe
  <2>4. QED BY <2>1, <2>2, <2>3 DEF Inv
<1>2. ASSUME Connect(c)
      PROVE  Inv'
  <2>1. TypeOK' /\ Owned'
    BY <1>2, ConnectTyped, ConnectOwned DEF Inv
  <2>2. Fresh'
    BY <1>2 DEF Inv, Fresh, TypeOK, Connect
  <2>3. Counted'
    BY <1>2 DEF Inv, Counted, Connect
  <2>4. QED BY <2>1, <2>2, <2>3 DEF Inv
<1>3. ASSUME Teardown(c)
      PROVE  Inv'
  <2>1. TypeOK' /\ Owned'
    BY <1>3, TeardownTyped, TeardownOwned DEF Inv
  <2>2. Fresh'
    BY <1>3 DEF Inv, Fresh, TypeOK, Teardown, Leave
  <2>3. Counted'
    BY <1>3 DEF Inv, Counted, Teardown, Leave
  <2>4. QED BY <2>1, <2>2, <2>3 DEF Inv
<1>4. QED BY <1>1, <1>2, <1>3 DEF ClientStep

(* What a call leaves as it is. *)
StreamsKept == UNCHANGED <<streamOf, streams, phase, user, stream, from, late, now>>

LEMMA KeptOwned ==
    ASSUME Owned, StreamsKept
    PROVE  Owned' /\ Joined' = Joined
BY DEF Owned, Holds, StreamsKept, Joined, Mapped

LEMMA ServeInv ==
    ASSUME Inv, NEW k \in Calls, Serve(k)
    PROVE  Inv'
<1>1. /\ call[k] = "asked" /\ call' = [call EXCEPT ![k] = "served"]
      /\ effects' = [effects EXCEPT ![k] = @ + 1] /\ UNCHANGED now
  BY DEF Serve
<1>2. Counted' /\ call' \in [Calls -> CallPhases] /\ effects' \in [Calls -> Nat]
  BY <1>1 DEF Inv, Counted, TypeOK, CallPhases
<1>3. ASSUME NEW u \in Users, SendNotification(u)
      PROVE  Inv'
  <2>1. StreamsKept
    BY <1>1, <1>3 DEF SendNotification, StreamsKept
  <2>2. TypeOK'
    BY <1>1, <1>2, <1>3, <2>1, SendTyped DEF Inv, TypeOK, StreamsKept
  <2>3. Sent' = Sent + 1
    BY <1>1, <1>3, SendTyped DEF Inv
  <2>4. \A c \in Clients : phase[c] = "called" => received'[c] = received[c]
    BY <1>3 DEF SendNotification, Push, Observers
  <2>5. Fresh'
    BY <2>1, <2>3, <2>4 DEF Inv, Fresh, StreamsKept, TypeOK
  <2>6. QED BY <1>2, <2>1, <2>2, <2>5, KeptOwned DEF Inv
<1>4. ASSUME UNCHANGED <<service, clients, sentTo>>
      PROVE  Inv'
  BY <1>1, <1>2, <1>4, KeptOwned
     DEF Inv, TypeOK, StreamsKept, Fresh, service, clients
<1>5. ASSUME NEW u \in Users, NEW i \in Ids, MayChange(i, u),
             MarkAsRead(i) \/ DeleteNotification(i)
      PROVE  Inv'
  <2>1. notifications' \in [Ids -> Notification \cup {None}]
    BY <1>5, ChangeTyped DEF Inv
  <2>2. UNCHANGED <<streamOf, streams, clients, sentTo>>
    BY <1>5 DEF MarkAsRead, DeleteNotification
  <2>3. QED
    BY <1>1, <1>2, <2>1, <2>2, KeptOwned
       DEF Inv, TypeOK, StreamsKept, Fresh, clients
<1>6. QED BY <1>3, <1>4, <1>5 DEF Serve

LEMMA OtherStepInv ==
    ASSUME Inv,
           \/ \E k \in Calls : Ask(k) \/ Refuse(k) \/ Break(k) \/ Return(k)
           \/ Tick \/ UNCHANGED vars
    PROVE  Inv'
<1>1. UNCHANGED <<service, clients, sentTo>>
  BY DEF Ask, Refuse, Break, Return, Tick, vars
<1>2. Owned' /\ Fresh'
  BY <1>1 DEF Inv, Owned, Holds, Fresh, service, clients
<1> DEFINE Calling == /\ Counted' /\ now' \in 0 .. MaxTime
                      /\ call' \in [Calls -> CallPhases] /\ effects' \in [Calls -> Nat]
<1>3. Calling
  <2>1. ASSUME NEW k \in Calls, Ask(k) PROVE Calling
    BY <2>1 DEF Inv, Counted, TypeOK, CallPhases, Ask
  <2>2. ASSUME NEW k \in Calls, Refuse(k) \/ Break(k) PROVE Calling
    BY <2>2 DEF Inv, Counted, TypeOK, CallPhases, Refuse, Break
  <2>3. ASSUME NEW k \in Calls, Return(k) PROVE Calling
    BY <2>3 DEF Inv, Counted, TypeOK, CallPhases, Return
  <2>4. ASSUME Tick \/ UNCHANGED vars PROVE Calling
    BY <2>4 DEF Inv, Counted, TypeOK, Tick, vars
  <2>5. QED BY <2>1, <2>2, <2>3, <2>4
<1>4. QED BY <1>1, <1>2, <1>3 DEF Inv, TypeOK, service, clients

LEMMA InitInv == Init => Inv
<1> SUFFICES ASSUME Init PROVE Inv
  OBVIOUS
<1>1. Owned /\ Fresh /\ Counted
  BY DEF Init, Owned, Holds, Fresh, Counted
<1>2. QED BY <1>1, TypeInit DEF Inv

LEMMA NextInv == Inv /\ [Next]_vars => Inv'
BY ClientStepInv, ServeInv, OtherStepInv DEF Next, CallStep

LEMMA Invariance == Spec => []Inv
BY InitInv, NextInv, PTL DEF Spec

(* The types of the service, of its clients and of the calls hold for any  *)
(* users, clients and calls. *)
THEOREM TypeCorrect == Spec => []TypeOK
<1>1. Inv => TypeOK
  BY DEF Inv
<1>2. QED BY <1>1, Invariance, PTL

(* Whatever breaks, a REST call runs its method at most once, and one that *)
(* succeeds has run it.                                                    *)
THEOREM CallsTakeEffectOnce == Spec => []AtMostOnce
<1>1. Inv => AtMostOnce
  BY DEF Inv, Counted, AtMostOnce
<1>2. QED BY <1>1, Invariance, PTL

-----------------------------------------------------------------------------
(* What a client that has joined has received. *)
Got(c) ==
    /\ {received[c][n] : n \in DOMAIN received[c]} = SentSince(c)
    /\ \A m, n \in DOMAIN received[c] : m < n => received[c][m] < received[c][n]

AllGot == \A c \in Joined : Got(c)

LEMMA GotKept ==
    ASSUME NEW c \in Clients, Got(c),
           received'[c] = received[c], SentSince(c)' = SentSince(c)
    PROVE  Got(c)'
BY DEF Got

(* One more notification, at the end. *)
LEMMA GotOneMore ==
    ASSUME TypeOK, NEW c \in Clients, Got(c),
           received'[c] = Append(received[c], Sent + 1),
           SentSince(c)' = SentSince(c) \cup {Sent + 1}
    PROVE  Got(c)'
<1> DEFINE s == received[c]
           t == received'[c]
           k == Sent + 1
<1>1. /\ s \in Seq(Ids) /\ Len(s) \in Nat /\ Sent \in Nat
      /\ DOMAIN s = 1 .. Len(s)
      /\ t = Append(s, k)
  BY DEF TypeOK
<1>2. /\ DOMAIN t = 1 .. Len(s) + 1
      /\ t[Len(s) + 1] = k
      /\ \A n \in 1 .. Len(s) : t[n] = s[n]
  BY <1>1
<1>3. \A n \in 1 .. Len(s) : s[n] \in SentSince(c) /\ s[n] \in Int /\ s[n] < k
  <2>1. \A n \in 1 .. Len(s) : s[n] \in SentSince(c) /\ s[n] \in Ids
    BY <1>1 DEF Got
  <2>2. \A i \in SentSince(c) : i =< Sent
    BY DEF SentSince
  <2>3. QED BY <1>1, <2>1, <2>2 DEF Ids
<1> HIDE DEF t, s, k
<1>4. {t[n] : n \in DOMAIN t} = {s[n] : n \in DOMAIN s} \cup {k}
  <2>1. \A n \in DOMAIN t : t[n] = k \/ (n \in DOMAIN s /\ t[n] = s[n])
    BY <1>1, <1>2
  <2>2. \A n \in DOMAIN s : n \in DOMAIN t /\ t[n] = s[n]
    BY <1>1, <1>2
  <2>3. Len(s) + 1 \in DOMAIN t /\ t[Len(s) + 1] = k
    BY <1>1, <1>2
  <2>4. QED BY <2>1, <2>2, <2>3
<1>5. \A m, n \in DOMAIN t : m < n => t[m] < t[n]
  <2>1. \A m, n \in DOMAIN s : m < n => s[m] < s[n]
    BY DEF Got, s
  <2>2. QED BY <1>1, <1>2, <1>3, <2>1
<1>6. QED BY <1>4, <1>5 DEF Got, t, s, k

(* What has been sent since a client subscribed, after one more is sent. *)
LEMMA SentOneMore ==
    ASSUME Inv, NEW u \in Users, SendNotification(u), UNCHANGED now,
           NEW c \in Clients, phase[c] = "subscribed"
    PROVE  SentSince(c)' = IF user[c] = u THEN SentSince(c) \cup {Sent + 1}
                                          ELSE SentSince(c)
<1>1. /\ sentTo \in Seq(Users) /\ Sent \in Nat
      /\ sentTo' = Append(sentTo, u) /\ Sent' = Sent + 1
      /\ from'[c] = from[c] /\ user'[c] = user[c]
      /\ from[c] \in Nat /\ from[c] =< Sent
  BY SendTyped DEF Inv, TypeOK, Fresh, SendNotification
<1>2. /\ sentTo'[Sent + 1] = u
      /\ \A i \in 1 .. Sent : sentTo'[i] = sentTo[i]
  BY <1>1
<1>3. from'[c] + 1 .. Sent' = (from[c] + 1 .. Sent) \cup {Sent + 1}
  BY <1>1
<1>4. QED BY <1>1, <1>2, <1>3 DEF SentSince

LEMMA AllGotClient ==
    ASSUME Inv, AllGot, NEW c \in Clients, ClientStep(c)
    PROVE  AllGot'
<1>1. ASSUME NEW u \in Users, Subscribe(c, u)
      PROVE  AllGot'
  <2> SUFFICES ASSUME NEW d \in Joined' PROVE Got(d)'
    BY DEF AllGot
  <2>1. d \in Joined /\ d \in Clients /\ d # c
    BY <1>1, SubscribeOwned DEF Inv, Joined, Subscribe
  <2>2. received'[d] = received[d] /\ SentSince(d)' = SentSince(d)
    BY <1>1, <2>1 DEF Inv, TypeOK, Subscribe, SentSince
  <2>3. QED BY <2>1, <2>2, GotKept DEF AllGot
<1>2. ASSUME Connect(c)
      PROVE  AllGot'
  <2> SUFFICES ASSUME NEW d \in Joined' PROVE Got(d)'
    BY DEF AllGot
  <2>1. CASE d = c
    <3>1. received'[c] = <<>> /\ Sent' = Sent /\ from'[c] = Sent /\ Sent \in Nat
      BY <1>2 DEF Inv, TypeOK, Fresh, Connect
    <3>2. SentSince(c)' = {}
      BY <3>1 DEF SentSince
    <3>3. QED BY <2>1, <3>1, <3>2 DEF Got
  <2>2. CASE d # c
    <3>1. d \in Joined /\ d \in Clients
      BY <1>2, <2>2, ConnectOwned DEF Inv, Joined
    <3>2. received'[d] = received[d] /\ SentSince(d)' = SentSince(d)
      BY <1>2, <2>2, <3>1 DEF Inv, TypeOK, Connect, SentSince
    <3>3. QED BY <3>1, <3>2, GotKept DEF AllGot
  <2>3. QED BY <2>1, <2>2
<1>3. ASSUME Teardown(c)
      PROVE  AllGot'
  <2> SUFFICES ASSUME NEW d \in Joined' PROVE Got(d)'
    BY DEF AllGot
  <2>1. d \in Joined /\ d \in Clients /\ d # c
    BY <1>3, TeardownOwned DEF Inv, TypeOK, Joined, Teardown, Leave
  <2>2. received'[d] = received[d] /\ SentSince(d)' = SentSince(d)
    BY <1>3, <2>1 DEF Inv, TypeOK, Teardown, Leave, SentSince
  <2>3. QED BY <2>1, <2>2, GotKept DEF AllGot
<1>4. QED BY <1>1, <1>2, <1>3 DEF ClientStep

LEMMA AllGotSend ==
    ASSUME Inv, AllGot, NEW u \in Users, SendNotification(u), UNCHANGED now
    PROVE  AllGot'
<1> SUFFICES ASSUME NEW d \in Joined' PROVE Got(d)'
  BY DEF AllGot
<1>1. d \in Joined /\ d \in Clients /\ phase[d] = "subscribed" /\ Got(d)
  BY KeptOwned DEF Inv, AllGot, StreamsKept, SendNotification, Joined
<1>2. SentSince(d)' = IF user[d] = u THEN SentSince(d) \cup {Sent + 1} ELSE SentSince(d)
  BY <1>1, SentOneMore
<1>3. received'[d] = IF user[d] = u THEN Append(received[d], Sent + 1) ELSE received[d]
  BY <1>1, PushedToJoined DEF Inv, SendNotification, Push
<1>4. QED BY <1>1, <1>2, <1>3, GotKept, GotOneMore DEF Inv

LEMMA AllGotNext == Inv /\ AllGot /\ [Next]_vars => AllGot'
<1> SUFFICES ASSUME Inv, AllGot, [Next]_vars PROVE AllGot'
  OBVIOUS
<1>1. CASE \E c \in Clients : ClientStep(c)
  BY <1>1, AllGotClient
<1>2. ASSUME NEW k \in Calls, NEW u \in Users, Serve(k), SendNotification(u)
      PROVE  AllGot'
  BY <1>2, AllGotSend DEF Serve
<1>3. ASSUME UNCHANGED <<streamOf, streams, clients, sentTo>>
      PROVE  AllGot'
  BY <1>3 DEF AllGot, Got, Joined, Mapped, SentSince, clients
<1>4. ASSUME NEW k \in Calls, CallStep(k)
      PROVE  AllGot'
  <2>1. ASSUME Serve(k), ~\E u \in Users : SendNotification(u)
        PROVE  UNCHANGED <<streamOf, streams, clients, sentTo>>
    BY <2>1 DEF Serve, service, clients, MarkAsRead, DeleteNotification
  <2>2. ASSUME ~Serve(k)
        PROVE  UNCHANGED <<streamOf, streams, clients, sentTo>>
    BY <1>4, <2>2 DEF CallStep, Ask, Refuse, Break, Return, service, clients
  <2>3. QED BY <1>2, <1>3, <2>1, <2>2
<1>5. CASE Tick \/ UNCHANGED vars
  BY <1>3, <1>5 DEF Tick, vars, service
<1>6. QED BY <1>1, <1>4, <1>5 DEF Next

(* A subscriber whose Subject is in the map misses nothing, gets nothing   *)
(* twice, out of order or meant for others, for any number of clients.     *)
THEOREM NothingIsMissed == Spec => []MissesNothing
<1>1. Init => AllGot
  BY DEF Init, AllGot, Joined
<1>2. AllGot => MissesNothing
  BY DEF AllGot, Got, Joined, MissesNothing
<1>3. QED BY <1>1, <1>2, AllGotNext, Invariance, PTL DEF Spec

-----------------------------------------------------------------------------
(* The clients a step of the service leaves where they were. *)
LEMMA StandingKept ==
    ASSUME UNCHANGED <<streamOf, streams, phase, user, stream, late>>
    PROVE  /\ CutOffOnlyAfterLate => CutOffOnlyAfterLate'
           /\ StreamsAreUsed => StreamsAreUsed'
BY DEF CutOffOnlyAfterLate, StreamsAreUsed, Mapped

LEMMA StepKinds ==
    ASSUME [Next]_vars
    PROVE  \/ \E c \in Clients : ClientStep(c)
           \/ UNCHANGED <<streamOf, streams, phase, user, stream, late>>
<1>1. ASSUME NEW k \in Calls, CallStep(k)
      PROVE  UNCHANGED <<streamOf, streams, phase, user, stream, late>>
  BY <1>1 DEF CallStep, Ask, Serve, Refuse, Break, Return, service, clients,
              SendNotification, MarkAsRead, DeleteNotification
<1>2. CASE Tick \/ UNCHANGED vars
  BY <1>2 DEF Tick, vars, service, clients
<1>3. QED BY <1>1, <1>2 DEF Next

LEMMA CutOffNext == Inv /\ CutOffOnlyAfterLate /\ [Next]_vars => CutOffOnlyAfterLate'
<1> SUFFICES ASSUME Inv, CutOffOnlyAfterLate, NEW c \in Clients, ClientStep(c), ~late'
             PROVE  \A d \in Clients : phase'[d] = "subscribed" => Mapped(d)'
  BY StepKinds, StandingKept DEF CutOffOnlyAfterLate
<1>1. ASSUME NEW u \in Users, Subscribe(c, u)
      PROVE  \A d \in Clients : phase'[d] = "subscribed" => Mapped(d)'
  <2> SUFFICES ASSUME NEW d \in Clients, phase'[d] = "subscribed" PROVE Mapped(d)'
    OBVIOUS
  <2>1. phase[d] = "subscribed" /\ ~late
    BY <1>1 DEF Inv, TypeOK, Subscribe
  <2>2. d \in Joined'
    BY <1>1, <2>1, SubscribeOwned DEF Inv, CutOffOnlyAfterLate, Joined
  <2>3. QED BY <2>2 DEF Joined
<1>2. ASSUME Connect(c)
      PROVE  \A d \in Clients : phase'[d] = "subscribed" => Mapped(d)'
  <2>1. /\ ~late /\ Mapped(c) /\ UNCHANGED <<streamOf, stream, user>>
        /\ \A d \in Clients : d # c => phase'[d] = phase[d]
    BY <1>2 DEF Inv, TypeOK, Connect, service
  <2>2. QED BY <2>1 DEF CutOffOnlyAfterLate, Mapped
<1>3. ASSUME Teardown(c)
      PROVE  \A d \in Clients : phase'[d] = "subscribed" => Mapped(d)'
  <2> SUFFICES ASSUME NEW d \in Clients, phase'[d] = "subscribed" PROVE Mapped(d)'
    OBVIOUS
  <2>1. /\ d # c /\ phase[c] = "subscribed" /\ phase[d] = "subscribed" /\ ~late
        /\ user' = user /\ stream'[d] = stream[d]
    BY <1>3 DEF Inv, TypeOK, Teardown, Leave
  <2>2. streamOf[user[d]] = stream[d] /\ streamOf[user[c]] = stream[c]
    BY <2>1 DEF CutOffOnlyAfterLate, Mapped
  <2>3. CASE user[d] = user[c]
    <3>1. d \in Observers(stream[c])
      BY <2>1, <2>2, <2>3 DEF Observers
    <3>2. streamOf' = streamOf
      BY <1>3, <2>1, <3>1 DEF Teardown
    <3>3. QED BY <2>1, <2>2, <3>2 DEF Mapped
  <2>4. CASE user[d] # user[c]
    <3>1. user[d] \in Users /\ user[c] \in Users
      BY <2>1 DEF Inv, Owned, Holds
    <3>2. streamOf'[user[d]] = streamOf[user[d]]
      BY <1>3, <2>4, <3>1 DEF Inv, TypeOK, Teardown
    <3>3. QED BY <2>1, <2>2, <3>2 DEF Mapped
  <2>5. QED BY <2>3, <2>4
<1>4. QED BY <1>1, <1>2, <1>3 DEF ClientStep

(* Among any number of clients, one is cut off by another's teardown only  *)
(* after somebody has subscribed to a Subject that was out of the map.     *)
THEOREM CutOffNeedsLate == Spec => []CutOffOnlyAfterLate
<1>1. Init => CutOffOnlyAfterLate
  BY DEF Init, CutOffOnlyAfterLate
<1>2. QED BY <1>1, CutOffNext, Invariance, PTL DEF Spec

LEMMA UsedNext == Inv /\ StreamsAreUsed /\ [Next]_vars => StreamsAreUsed'
<1> SUFFICES ASSUME Inv, StreamsAreUsed, NEW c \in Clients, ClientStep(c),
                    NEW w \in Users, streamOf'[w] # 0
             PROVE  \E d \in Clients : phase'[d] # "away" /\ stream'[d] = streamOf'[w]
  BY StepKinds, StandingKept DEF StreamsAreUsed
<1>1. ASSUME NEW u \in Users, Subscribe(c, u)
      PROVE  \E d \in Clients : phase'[d] # "away" /\ stream'[d] = streamOf'[w]
  <2>1. /\ phase[c] = "away" /\ phase'[c] = "called" /\ stream'[c] = streamOf'[u]
        /\ \A d \in Clients : d # c => phase'[d] = phase[d] /\ stream'[d] = stream[d]
    BY <1>1 DEF Inv, TypeOK, Subscribe
  <2>2. w # u => streamOf'[w] = streamOf[w]
    BY <1>1 DEF Inv, TypeOK, Subscribe
  <2>3. QED BY <2>1, <2>2 DEF StreamsAreUsed
<1>2. ASSUME Connect(c)
      PROVE  \E d \in Clients : phase'[d] # "away" /\ stream'[d] = streamOf'[w]
  <2>1. /\ UNCHANGED <<streamOf, stream>>
        /\ \A d \in Clients : phase[d] # "away" => phase'[d] # "away"
    BY <1>2 DEF Inv, TypeOK, Connect, service
  <2>2. QED BY <2>1 DEF StreamsAreUsed
<1>3. ASSUME Teardown(c)
      PROVE  \E d \in Clients : phase'[d] # "away" /\ stream'[d] = streamOf'[w]
  <2>1. /\ phase[c] = "subscribed"
        /\ \A d \in Clients : d # c => phase'[d] = phase[d] /\ stream'[d] = stream[d]
    BY <1>3 DEF Inv, TypeOK, Teardown, Leave
  <2>2. streamOf' = streamOf \/ streamOf' = [streamOf EXCEPT ![user[c]] = 0]
    BY <1>3 DEF Teardown
  <2>3. streamOf'[w] = streamOf[w] /\ streamOf[w] # 0
    BY <2>2 DEF Inv, TypeOK
  <2>4. PICK d \in Clients : phase[d] # "away" /\ stream[d] = streamOf[w]
    BY <2>3 DEF StreamsAreUsed
  <2>5. CASE d # c
    BY <2>1, <2>3, <2>4, <2>5
  <2>6. CASE d = c
    <3>1. user[c] = w
      BY <2>1, <2>4, <2>6 DEF Inv, Owned
    <3>2. Observers(stream[c]) # {c}
      BY <1>3, <2>3, <3>1 DEF Inv, TypeOK, Teardown
    <3>3. c \in Observers(stream[c])
      BY <2>1 DEF Observers
    <3>4. PICK o \in Observers(stream[c]) : o # c
      BY <3>2, <3>3
    <3>5. o \in Clients /\ phase[o] = "subscribed" /\ stream[o] = stream[c]
      BY <3>4 DEF Observers
    <3>6. QED BY <2>1, <2>3, <2>4, <2>6, <3>4, <3>5
  <2>7. QED BY <2>5, <2>6
<1>4. QED BY <1>1, <1>2, <1>3 DEF ClientStep

(* No Subject is left in the map once its clients are gone. *)
THEOREM UnusedStreamsAreDropped == Spec => []StreamsAreUsed
<1>1. Init => StreamsAreUsed
  BY DEF Init, StreamsAreUsed
<1>2. QED BY <1>1, UsedNext, Invariance, PTL DEF Spec

-----------------------------------------------------------------------------
(* The refinement.  Joined is the mapping's set of readers. *)
LEMMA FeedKept ==
    ASSUME UNCHANGED <<sentTo, user, received>>, Joined' = Joined
    PROVE  UNCHANGED Feed!bvars
BY DEF Feed!bvars, Joined

LEMMA FeedClient ==
    ASSUME Inv, NEW c \in Clients, ClientStep(c)
    PROVE  [Feed!Next]_Feed!bvars
<1>1. ASSUME NEW u \in Users, Subscribe(c, u)
      PROVE  Feed!Open(c)
  <2>1. Joined' = Joined /\ c \notin Joined
    BY <1>1, SubscribeOwned DEF Inv, Joined, Subscribe
  <2>2. QED BY <1>1, <2>1 DEF Feed!Open, Subscribe, Joined
<1>2. ASSUME Connect(c)
      PROVE  Feed!Join(c) \/ UNCHANGED Feed!bvars
  <2>1. Joined' = IF Mapped(c) THEN Joined \cup {c} ELSE Joined
    BY <1>2, ConnectOwned DEF Inv
  <2>2. received[c] = <<>> /\ UNCHANGED <<sentTo, user, received>>
    BY <1>2 DEF Inv, Fresh, Connect
  <2>3. QED BY <2>1, <2>2 DEF Feed!Join, Feed!bvars, Joined
<1>3. ASSUME Teardown(c)
      PROVE  Feed!Drop
  <2>1. Joined' \in SUBSET Joined /\ UNCHANGED <<sentTo, user, received>>
    BY <1>3, TeardownOwned DEF Inv, Teardown, Leave
  <2>2. QED BY <2>1 DEF Feed!Drop, Joined
<1>4. QED BY <1>1, <1>2, <1>3 DEF ClientStep, Feed!Next

LEMMA FeedSend ==
    ASSUME Inv, NEW u \in Users, SendNotification(u), UNCHANGED now
    PROVE  Feed!Publish(u)
<1>1. Joined' = Joined
  BY KeptOwned DEF Inv, StreamsKept, SendNotification
<1>2. received' = [c \in Clients |-> IF c \in Joined /\ user[c] = u
                                     THEN Append(received[c], Sent + 1) ELSE received[c]]
  BY PushedToJoined DEF Inv, SendNotification, Push
<1>3. sentTo' = Append(sentTo, u) /\ user' = user
  BY DEF SendNotification
<1>4. QED BY <1>1, <1>2, <1>3 DEF Feed!Publish, Joined

LEMMA FeedNext == Inv /\ [Next]_vars => [Feed!Next]_Feed!bvars
<1> SUFFICES ASSUME Inv, [Next]_vars PROVE [Feed!Next]_Feed!bvars
  OBVIOUS
<1>1. CASE \E c \in Clients : ClientStep(c)
  BY <1>1, FeedClient
<1>2. ASSUME NEW k \in Calls, NEW u \in Users, Serve(k), SendNotification(u)
      PROVE  Feed!Next
  BY <1>2, FeedSend DEF Serve, Feed!Next
<1>3. ASSUME UNCHANGED <<streamOf, streams, clients, sentTo>>
      PROVE  UNCHANGED Feed!bvars
  BY <1>3, FeedKept DEF Joined, Mapped, clients
<1>4. ASSUME NEW k \in Calls, CallStep(k)
      PROVE  [Feed!Next]_Feed!bvars
  <2>1. ASSUME Serve(k), ~\E u \in Users : SendNotification(u)
        PROVE  UNCHANGED <<streamOf, streams, clients, sentTo>>
    BY <2>1 DEF Serve, service, clients, MarkAsRead, DeleteNotification
  <2>2. ASSUME ~Serve(k)
        PROVE  UNCHANGED <<streamOf, streams, clients, sentTo>>
    BY <1>4, <2>2 DEF CallStep, Ask, Refuse, Break, Return, service, clients
  <2>3. QED BY <1>2, <1>3, <2>1, <2>2
<1>5. CASE Tick \/ UNCHANGED vars
  BY <1>3, <1>5 DEF Tick, vars, service
<1>6. QED BY <1>1, <1>4, <1>5 DEF Next

(* The notification streams implement Broadcast: a notification is put in  *)
(* the inbox of every client that has joined its user's stream, and of     *)
(* nobody else, whatever the service does with its map of Subjects.        *)
THEOREM NotificationsImplementBroadcast == Spec => ImplementsBroadcast
<1>1. Init => Feed!Init
  BY DEF Init, Feed!Init
<1>2. QED BY <1>1, FeedNext, Invariance, PTL DEF Spec, ImplementsBroadcast, Feed!Spec
-----------------------------------------------------------------------------
(* Pages.  A notification's position is the number of those before it, so  *)
(* it is less than their number, and lies in one stretch of limit places.  *)
LEMMA PositionBound ==
    ASSUME TypeOK, NEW S \in SUBSET Ids, \A i \in S : notifications[i] # None, NEW i \in S
    PROVE  /\ Cardinality(S) \in 0 .. MaxSent
           /\ Position(i, S) \in 0 .. Cardinality(S) - 1
<1>1. IsFiniteSet(Ids) /\ Cardinality(Ids) = MaxSent
  BY FS_Interval DEF Ids
<1>2. IsFiniteSet(S) /\ Cardinality(S) =< MaxSent /\ Cardinality(S) \in Nat
  BY <1>1, FS_Subset, FS_CardinalityType
<1> DEFINE T == {j \in S : Before(j, i)}
<1>3. notifications[i].createdAt \in Nat /\ i \in Nat
  BY DEF TypeOK, Notification, Ids
<1>4. ~Before(i, i)
  BY <1>3 DEF Before
<1>5. T \in SUBSET S /\ T # S
  BY <1>4
<1> HIDE DEF T
<1>6. /\ IsFiniteSet(T) /\ Cardinality(T) =< Cardinality(S)
      /\ Cardinality(S) = Cardinality(T) => S = T
  BY <1>2, <1>5, FS_Subset
<1>7. Cardinality(T) \in Nat
  BY <1>6, FS_CardinalityType
<1>8. Position(i, S) = Cardinality(T)
  BY DEF Position, T
<1>9. QED BY <1>2, <1>5, <1>6, <1>7, <1>8

LEMMA Stretch ==
    ASSUME NEW q \in Nat, NEW limit \in Nat \ {0}
    PROVE  /\ q \div limit \in 0 .. q
           /\ (q \div limit) * limit =< q /\ q < (q \div limit) * limit + limit
BY SMTT(30)

LEMMA Multiples ==
    ASSUME NEW a \in Nat, NEW b \in Nat, a < b, NEW limit \in Nat
    PROVE  a * limit \in Nat /\ b * limit \in Nat /\ a * limit + limit =< b * limit
<1>1. b = (a + 1) + (b - a - 1) /\ b - a - 1 \in Nat
  OBVIOUS
<1>2. b * limit = (a + 1) * limit + (b - a - 1) * limit
  BY <1>1, SMTT(30)
<1>3. (b - a - 1) * limit \in Nat /\ (a + 1) * limit = a * limit + limit /\ a * limit \in Nat
  BY <1>1, SMTT(30)
<1>4. QED BY <1>2, <1>3

LEMMA OnePage ==
    ASSUME NEW q \in Nat, NEW n \in Nat, q < n, n =< MaxSent, NEW limit \in Nat \ {0}
    PROVE  \E p \in 1 .. MaxSent : \A k \in 1 .. MaxSent :
              q \in FromEnd((k - 1) * limit, n) .. FromEnd((k - 1) * limit + limit, n) - 1
                 <=> k = p
<1>1. PICK d, e : /\ d \in 0 .. q /\ e = d * limit
                  /\ e =< q /\ q < e + limit
  BY Stretch
<1>2. d \in Nat /\ d + 1 \in 1 .. MaxSent
  BY <1>1
<1>3. e \in Nat
  BY <1>1, <1>2, Multiples, d < d + 1
<1>4. ASSUME NEW k \in 1 .. MaxSent
      PROVE  q \in FromEnd((k - 1) * limit, n) .. FromEnd((k - 1) * limit + limit, n) - 1
                <=> k = d + 1
  <2>1. k - 1 \in Nat /\ k - 1 < k
    OBVIOUS
  <2>2. PICK start : start = (k - 1) * limit
    OBVIOUS
  <2>3. start \in Nat
    BY <2>1, <2>2, Multiples
  <2>4. FromEnd(start, n) = start /\ FromEnd(start + limit, n) = start + limit
    BY <2>3 DEF FromEnd
  <2>5. k - 1 < d => start + limit =< e
    BY <1>1, <1>2, <2>1, <2>2, Multiples
  <2>6. d < k - 1 => e + limit =< start
    BY <1>1, <1>2, <2>1, <2>2, Multiples
  <2>7. k - 1 = d => start = e
    BY <1>1, <2>2
  <2>8. q \in start .. start + limit - 1 <=> k = d + 1
    <3>1. q \in start .. start + limit - 1 => ~(k - 1 < d) /\ ~(d < k - 1)
      BY <1>1, <1>3, <2>3, <2>5, <2>6
    <3>2. k - 1 = d => q \in start .. start + limit - 1
      BY <1>1, <1>3, <2>3, <2>7
    <3>3. QED BY <1>2, <3>1, <3>2
  <2>9. QED BY <2>2, <2>4, <2>8
<1>5. QED BY <1>2, <1>4

(* Pages of any size, read one after another with nothing changed in        *)
(* between, show each notification of a user's list once                    *)
(* (grpc-notification.service.ts, getNotifications).                        *)
THEOREM PagesCoverEachOnce == Spec => []PagesCoverOnce
<1>1. Inv => PagesCoverOnce
  <2> SUFFICES ASSUME Inv, NEW u \in Users, NEW unreadOnly \in BOOLEAN, NEW limit \in Limits,
                      NEW S, S = Listed(u, unreadOnly), NEW i \in S
               PROVE  Cardinality({p \in 1 .. MaxSent : i \in Page(S, p, limit)}) = 1
    BY DEF PagesCoverOnce
  <2>1. S \in SUBSET Ids /\ \A j \in S : notifications[j] # None
    BY DEF Listed, MayChange
  <2>2. limit \in Nat \ {0}
    BY LimitAssumption
  <2>3. PICK n, q : n = Cardinality(S) /\ q = Position(i, S)
    OBVIOUS
  <2>4. n \in 0 .. MaxSent /\ q \in 0 .. n - 1
    BY <2>1, <2>3, PositionBound DEF Inv
  <2>5. q \in Nat /\ n \in Nat /\ q < n /\ n =< MaxSent
    BY <2>4, BoundAssumption
  <2>6. PICK p \in 1 .. MaxSent : \A k \in 1 .. MaxSent :
           q \in FromEnd((k - 1) * limit, n) .. FromEnd((k - 1) * limit + limit, n) - 1 <=> k = p
    BY ONLY <2>2, <2>5, OnePage
  <2>7. {k \in 1 .. MaxSent : i \in Page(S, k, limit)} = {p}
    BY <2>3, <2>6 DEF Page
  <2>8. QED BY <2>7, FS_Singleton
<1>2. QED BY <1>1, Invariance, PTL
=============================================================================
