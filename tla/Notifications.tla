---------------------------- MODULE Notifications ----------------------------
(***************************************************************************)
(* GrpcNotificationService: a map of notifications, and a map from users   *)
(* to the Subject their subscribers listen on.  The methods run to their   *)
(* end without an await.  A subscription takes two steps: the call, which  *)
(* finds or makes the Subject, and the subscription of the transport to    *)
(* the Observable it was given; what the call found may be out of the map  *)
(* by then.                                                                *)
(*                                                                         *)
(* The other methods are called by REST routes through GrpcClientService,  *)
(* over a transport that can break before the method has run or after.     *)
(*                                                                         *)
(* A Subject is a number; its observers are the clients subscribed to it.  *)
(* Left out: titles, messages, types and metadata.                         *)
(***************************************************************************)
EXTENDS Integers, Sequences, FiniteSets

CONSTANTS Users,
          Clients,     \* subscribers of the notification streams
          Calls,       \* slots for REST calls
          Limits,      \* sizes of the pages a list is read in
          None,
          MaxSent,     \* bound: notifications sent
          MaxStreams,  \* bound: Subjects made
          MaxTime      \* bound: the clock stops here

ASSUME LimitAssumption == Limits \subseteq Nat \ {0}
ASSUME BoundAssumption == MaxSent \in Nat /\ MaxStreams \in Nat /\ MaxTime \in Nat

VARIABLES notifications, \* [1 .. MaxSent -> Notification or None], by id
          streamOf,      \* [Users -> Subject or 0], notificationStreams
          streams,       \* number of Subjects made
          phase,         \* [Clients -> Phases]
          user,          \* [Clients -> Users or None], whom a client subscribes for
          stream,        \* [Clients -> Subject], userStream of its Observable
          received,      \* [Clients -> Seq(ids)]
          now,           \* Date.now()
          call,          \* [Calls -> CallPhases], REST calls under way
          sentTo,        \* history: the user of each notification sent
          from,          \* history: [Clients -> Nat], sent before it subscribed
          late,          \* history: somebody subscribed to a Subject not mapped
          effects        \* history: [Calls -> Nat], times the call's method ran

service == <<notifications, streamOf, streams>>
clients == <<phase, user, stream, received, from, late>>
vars == <<service, clients, now, call, sentTo, effects>>

Ids == 1 .. MaxSent
Notification == [userId : Users, createdAt : Nat, isRead : BOOLEAN]
Phases == {"away", "called", "subscribed"}
CallPhases == {"idle", "asked", "served", "refused", "ok", "error"}

Sent == Len(sentTo)    \* notificationIdCounter - 1
Observers(s) == {c \in Clients : phase[c] = "subscribed" /\ stream[c] = s}
Mapped(c) == streamOf[user[c]] = stream[c]

Init == /\ notifications = [i \in Ids |-> None]
        /\ streamOf = [u \in Users |-> 0]
        /\ streams = 0
        /\ phase = [c \in Clients |-> "away"]
        /\ user = [c \in Clients |-> None]
        /\ stream = [c \in Clients |-> 0]
        /\ received = [c \in Clients |-> <<>>]
        /\ now = 0
        /\ call = [k \in Calls |-> "idle"]
        /\ sentTo = <<>>
        /\ from = [c \in Clients |-> 0]
        /\ late = FALSE
        /\ effects = [k \in Calls |-> 0]

-----------------------------------------------------------------------------
(* subscribeToNotifications: the call ... *)
Subscribe(c, u) ==
    /\ phase[c] = "away"
    /\ streamOf[u] = 0 => streams < MaxStreams
    /\ streams' = IF streamOf[u] = 0 THEN streams + 1 ELSE streams
    /\ streamOf' = IF streamOf[u] = 0 THEN [streamOf EXCEPT ![u] = streams + 1]
                                      ELSE streamOf
    /\ stream' = [stream EXCEPT ![c] = streamOf'[u]]
    /\ user' = [user EXCEPT ![c] = u]
    /\ phase' = [phase EXCEPT ![c] = "called"]
    /\ received' = [received EXCEPT ![c] = <<>>]
    /\ UNCHANGED <<notifications, now, call, sentTo, from, late, effects>>

(* ... the subscription to what it returned ... *)
Connect(c) ==
    /\ phase[c] = "called"
    /\ phase' = [phase EXCEPT ![c] = "subscribed"]
    /\ from' = [from EXCEPT ![c] = Sent]
    /\ late' = (late \/ ~Mapped(c))
    /\ UNCHANGED <<service, user, stream, received, now, call, sentTo, effects>>

(* ... and the teardown, which drops the map entry of the user when the    *)
(* Subject of this client has no observer left.                            *)
Leave(c) ==
    /\ phase[c] = "subscribed"
    /\ phase' = [phase EXCEPT ![c] = "away"]
    /\ stream' = [stream EXCEPT ![c] = 0]
    /\ from' = [from EXCEPT ![c] = 0]
    /\ UNCHANGED <<notifications, streams, user, received, late,
                   now, call, sentTo, effects>>

TeardownAlways(c) ==    \* mistake: the other observers are not looked for
    /\ Leave(c)
    /\ streamOf' = [streamOf EXCEPT ![user[c]] = 0]

TeardownNever(c) ==    \* mistake: the Subject is left in the map
    Leave(c) /\ UNCHANGED streamOf

Teardown(c) ==
    /\ Leave(c)
    /\ streamOf' = IF Observers(stream[c]) = {c}
                   THEN [streamOf EXCEPT ![user[c]] = 0] ELSE streamOf

-----------------------------------------------------------------------------
(* sendNotification: stored, then put on the Subject that is in the map.   *)
PushOfTheNext(u) ==    \* mistake: the id is read off the counter once more
    received' = [c \in Clients |->
        IF streamOf[u] # 0 /\ c \in Observers(streamOf[u])
        THEN Append(received[c], Sent + 2) ELSE received[c]]

PushToCallers(u) ==    \* mistake: clients that have not subscribed yet get it too
    received' = [c \in Clients |->
        IF phase[c] # "away" /\ streamOf[u] # 0 /\ stream[c] = streamOf[u]
        THEN Append(received[c], Sent + 1) ELSE received[c]]

PushToEveryStream(u) ==    \* mistake: to every client of the user, mapped or not
    received' = [c \in Clients |-> IF phase[c] = "subscribed" /\ user[c] = u
                                   THEN Append(received[c], Sent + 1) ELSE received[c]]

Push(u) ==
    received' = [c \in Clients |->
        IF streamOf[u] # 0 /\ c \in Observers(streamOf[u])
        THEN Append(received[c], Sent + 1) ELSE received[c]]

SendNotification(u) ==
    /\ Sent < MaxSent
    /\ notifications' = [notifications EXCEPT ![Sent + 1] =
                            [userId |-> u, createdAt |-> now, isRead |-> FALSE]]
    /\ sentTo' = Append(sentTo, u)
    /\ Push(u)
    /\ UNCHANGED <<streamOf, streams, phase, user, stream, from, late>>

(* markAsRead and deleteNotification: of an existing one of one's own.     *)
MayChange(i, u) == i \in Ids /\ notifications[i] # None /\ notifications[i].userId = u

MarkAsRead(i) ==
    /\ notifications' = [notifications EXCEPT ![i].isRead = TRUE]
    /\ UNCHANGED <<streamOf, streams, clients, sentTo>>

DeleteNotification(i) ==
    /\ notifications' = [notifications EXCEPT ![i] = None]
    /\ UNCHANGED <<streamOf, streams, clients, sentTo>>

(* getNotifications: a user's notifications, all or unread, newest first;  *)
(* sort is stable, so those of the same millisecond keep the map's order.  *)
Listed(u, unreadOnly) ==
    {i \in Ids : MayChange(i, u) /\ (unreadOnly => ~notifications[i].isRead)}

Before(i, j) ==
    LET a == notifications[i].createdAt
        b == notifications[j].createdAt
    IN  a > b \/ (a = b /\ i < j)

Position(i, S) == Cardinality({j \in S : Before(j, i)})

(* slice(start, end): a negative index counts from the end of the array.   *)
FromEnd(k, n) == IF k < 0 THEN (IF n + k < 0 THEN 0 ELSE n + k) ELSE k

PageFromOne(S, page, limit) ==    \* mistake: page is taken as an index from zero
    {i \in S : Position(i, S) \in page * limit .. page * limit + limit - 1}

Page(S, page, limit) ==
    LET n == Cardinality(S)
        start == (page - 1) * limit
    IN  {i \in S : Position(i, S) \in FromEnd(start, n) .. FromEnd(start + limit, n) - 1}

-----------------------------------------------------------------------------
(* A REST route asks its gRPC client, which waits for the first value.     *)
(* What it asks for is chosen when the method runs: nothing depends on it  *)
(* before.                                                                 *)
Ask(k) ==
    /\ call[k] \in {"idle", "ok", "error"}
    /\ call' = [call EXCEPT ![k] = "asked"]
    /\ effects' = [effects EXCEPT ![k] = 0]
    /\ UNCHANGED <<service, clients, now, sentTo>>

(* The method runs, and returns ... *)
Serve(k) ==
    /\ call[k] = "asked"
    /\ \E u \in Users :
          \/ SendNotification(u)
          \/ UNCHANGED <<service, clients, sentTo>>    \* getNotifications
          \/ \E i \in Ids : MayChange(i, u) /\ (MarkAsRead(i) \/ DeleteNotification(i))
    /\ call' = [call EXCEPT ![k] = "served"]
    /\ effects' = [effects EXCEPT ![k] = @ + 1]
    /\ UNCHANGED now

(* ... or throws: no such notification, or another user's. *)
Refuse(k) ==
    /\ call[k] = "asked"
    /\ \E u \in Users, i \in Ids : ~MayChange(i, u)
    /\ call' = [call EXCEPT ![k] = "refused"]
    /\ UNCHANGED <<service, clients, now, sentTo, effects>>

BreakAndAskAgain(k) ==    \* mistake: a broken call is made once more
    /\ call[k] \in {"asked", "served", "refused"}
    /\ call' = [call EXCEPT ![k] = "asked"]
    /\ UNCHANGED <<service, clients, now, sentTo, effects>>

(* The transport breaks: the client's promise is rejected, and the route   *)
(* fails, whether or not the method has run.  Nobody retries.              *)
Break(k) ==
    /\ call[k] \in {"asked", "served", "refused"}
    /\ call' = [call EXCEPT ![k] = "error"]
    /\ UNCHANGED <<service, clients, now, sentTo, effects>>

Return(k) ==
    /\ call[k] \in {"served", "refused"}
    /\ call' = [call EXCEPT ![k] = IF @ = "served" THEN "ok" ELSE "error"]
    /\ UNCHANGED <<service, clients, now, sentTo, effects>>

Tick == /\ now < MaxTime
        /\ now' = now + 1
        /\ UNCHANGED <<service, clients, call, sentTo, effects>>

ClientStep(c) == (\E u \in Users : Subscribe(c, u)) \/ Connect(c) \/ Teardown(c)

CallStep(k) == Ask(k) \/ Serve(k) \/ Refuse(k) \/ Break(k) \/ Return(k)

Next == \/ \E c \in Clients : ClientStep(c)
        \/ \E k \in Calls : CallStep(k)
        \/ Tick

Spec == Init /\ [][Next]_vars

-----------------------------------------------------------------------------
TypeOK ==
    /\ notifications \in [Ids -> Notification \cup {None}]
    /\ streamOf \in [Users -> 0 .. streams]
    /\ streams \in 0 .. MaxStreams
    /\ phase \in [Clients -> Phases]
    /\ user \in [Clients -> Users \cup {None}]
    /\ stream \in [Clients -> 0 .. streams]
    /\ received \in [Clients -> Seq(Ids)]
    /\ now \in 0 .. MaxTime
    /\ call \in [Calls -> CallPhases]
    /\ sentTo \in Seq(Users) /\ Sent =< MaxSent
    /\ from \in [Clients -> 0 .. MaxSent]
    /\ late \in BOOLEAN
    /\ effects \in [Calls -> Nat]

(* A subscriber whose Subject is in the map has received every notification *)
(* sent to its user since it subscribed and nothing else, each once and in  *)
(* the order they were sent, whoever else subscribes, leaves or sends.      *)
SentSince(c) == {i \in from[c] + 1 .. Sent : sentTo[i] = user[c]}

MissesNothing ==
    \A c \in Clients : phase[c] = "subscribed" /\ Mapped(c) =>
        /\ {received[c][n] : n \in DOMAIN received[c]} = SentSince(c)
        /\ \A m, n \in DOMAIN received[c] : m < n => received[c][m] < received[c][n]

(* The teardown of one client cuts off others, of its own Subject or of a   *)
(* newer one, in one way only: somebody has subscribed to a Subject that    *)
(* was out of the map by then.                                              *)
CutOffOnlyAfterLate ==
    ~late => \A c \in Clients : phase[c] = "subscribed" => Mapped(c)

(* A Subject does not outlive its clients: one in the map has an observer,  *)
(* or a client that is about to subscribe.                                  *)
StreamsAreUsed ==
    \A u \in Users : streamOf[u] # 0 =>
        \E c \in Clients : phase[c] # "away" /\ stream[c] = streamOf[u]

(* Pages read one after another, with nothing sent, read or deleted in      *)
(* between, show every notification of the list once.                       *)
PagesCoverOnce ==
    \A u \in Users, unreadOnly \in BOOLEAN, limit \in Limits :
        LET S == Listed(u, unreadOnly) IN
        \A i \in S : Cardinality({p \in 1 .. MaxSent : i \in Page(S, p, limit)}) = 1

(* A REST call takes effect at most once, and one that succeeds exactly     *)
(* once; one that fails may have taken effect, the client cannot tell.      *)
AtMostOnce ==
    \A k \in Calls : effects[k] =< 1 /\ (call[k] = "ok" => effects[k] = 1)

(* What the streams promise: the clients on a mapped Subject are the        *)
(* readers that have joined.                                                *)
Feed == INSTANCE Broadcast WITH
            Readers <- Clients, Topics <- Users \cup {None},
            log <- sentTo, topic <- user, inbox <- received,
            joined <- {c \in Clients : phase[c] = "subscribed" /\ Mapped(c)}

ImplementsBroadcast == Feed!Spec
=============================================================================
