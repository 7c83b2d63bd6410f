---------------------------- MODULE RealtimeHub -----------------------------
(***************************************************************************)
(* The realtime hub: every API process keeps its WebSockets in memory      *)
(* (backend/src/realtime/hub.py), Redis carries the messages between the   *)
(* processes and holds who is looking at a case.                           *)
(*                                                                         *)
(* A socket is one connection of a browser tab; a reconnect is another     *)
(* socket.  Redis PUBLISH puts a message into the buffer of every          *)
(* subscribed listener at once; each listener is one task that takes a     *)
(* message, copies the set of its connections under the lock and then      *)
(* awaits one send after the other, while sockets come and go.             *)
(***************************************************************************)
EXTENDS Naturals, SequencesExt

CONSTANTS Process,    \* API processes
          Socket,     \* connections; the model's bound
          Event,      \* case events and tenant events; the model's bound
          Case,       \* the cases somebody looks at
          Feed,       \* the tenant's activity feed, a channel like a case
          UserOf,     \* the user of each socket
          ChannelOf,  \* the channel each socket is opened for
          CaseOf,     \* the case each event is about, or Feed
          TTL,        \* _PRESENCE_TTL_SECONDS, in ticks
          Nil         \* no process, no message, no score

Channel == Case \cup {Feed}
Person == {UserOf[s] : s \in Socket}

ASSUME UserAssumption == DOMAIN UserOf = Socket
ASSUME ChannelAssumption == ChannelOf \in [Socket -> Channel]
ASSUME CaseAssumption == CaseOf \in [Event -> Channel]
ASSUME TTLAssumption == TTL \in Nat \ {0}
ASSUME FeedAssumption == Feed \notin Case
ASSUME NilAssumption == Nil \notin Process \cup (0..TTL)

VARIABLES at,         \* the process a socket has reached
          sock,       \* how far its handler is
          sockets,    \* _case_connections and _tenant_connections of a process
          score,      \* age in ticks of each member of the presence sets
          away,       \* ticks since a user last had a live socket on a case
          starting,   \* processes whose listener has yet to subscribe
          listening,  \* processes whose listener is subscribed and runs
          stage,      \* how far the publisher of an event is
          published,  \* <<channel, event>> in the order Redis took them
          inbox,      \* messages buffered for each listener
          sending,    \* the message a listener is handing out, and to whom yet
          got,        \* messages each open socket has been sent
          joined      \* messages published when an open socket was both registered
                      \* and listened for

hubVars == <<at, sock, sockets, score, away, starting, listening, stage, published,
          inbox, sending, got, joined>>

client   == <<got, joined>>
presence == <<score, away>>
traffic  == <<starting, listening, stage, published, inbox, sending>>

Message == Channel \X Event
Age == 0..TTL      \* TTL stands for TTL or more
Open == {"registered", "in"}

\* A message to be sent to some sockets; nobody is sent anything.
Handout(m, S) == [msg |-> IF S = {} THEN Nil ELSE m, to |-> S]
Nothing == Handout(Nil, {})

HubInit ==
  /\ at = [s \in Socket |-> Nil]
  /\ sock = [s \in Socket |-> "new"]
  /\ sockets = [p \in Process |-> {}]
  /\ score = [c \in Case |-> [u \in Person |-> Nil]]
  /\ away = [c \in Case |-> [u \in Person |-> TTL]]
  /\ starting = Process
  /\ listening = {}
  /\ stage = [e \in Event |-> "new"]
  /\ published = << >>
  /\ inbox = [p \in Process |-> << >>]
  /\ sending = [p \in Process |-> Nothing]
  /\ got = [s \in Socket |-> << >>]
  /\ joined = [s \in Socket |-> 0]
-----------------------------------------------------------------------------
(* Presence: one Redis sorted set for each case, members users, scores the *)
(* time of their last sign of life.  The key itself expires after four TTL *)
(* without a touch, when every member is long stale; the model leaves the  *)
(* stale members there.                                                    *)

Touched_Milliseconds(s) ==   \* mutant: a score that is no time
  score' = [score EXCEPT ![ChannelOf[s]][UserOf[s]] = TTL + 1]

Touched(s) == score' = [score EXCEPT ![ChannelOf[s]][UserOf[s]] = 0]

Present(c, u) == \E s \in Socket :
                    sock[s] \in Open /\ ChannelOf[s] = c /\ UserOf[s] = u

Returned(s) == away' = IF ChannelOf[s] \in Case
                       THEN [away EXCEPT ![ChannelOf[s]][UserOf[s]] = 0]
                       ELSE away

Viewers_NoCutoff(c) == {u \in Person : score[c][u] # Nil}   \* mutant

\* get_active_viewers: zremrangebyscore(0, now - TTL) takes its bound with it.
Viewers(c) == {u \in Person : score[c][u] # Nil /\ score[c][u] < TTL}

HubTick ==
  /\ score' = [c \in Case |-> [u \in Person |->
                 IF score[c][u] = Nil \/ score[c][u] = TTL THEN score[c][u]
                 ELSE score[c][u] + 1]]
  /\ away' = [c \in Case |-> [u \in Person |->
                IF Present(c, u) THEN 0
                ELSE IF away[c][u] = TTL THEN TTL ELSE away[c][u] + 1]]
  /\ UNCHANGED <<at, sock, sockets, client, traffic>>
-----------------------------------------------------------------------------
(* case_stream and tenant_stream                                           *)

\* The connections of these sockets are over; nobody asks what they were sent.
Closed(S) == /\ got' = [s \in Socket |-> IF s \in S THEN << >> ELSE got[s]]
             /\ joined' = [s \in Socket |-> IF s \in S THEN 0 ELSE joined[s]]

\* The token is checked and the socket accepted: its client believes it is
\* connected, but it is not registered yet.
Accept(s, p) ==
  /\ sock[s] = "new"
  /\ sock' = [sock EXCEPT ![s] = "accepted"]
  /\ at' = [at EXCEPT ![s] = p]
  /\ UNCHANGED <<sockets, client, presence, traffic>>

\* connect_case and connect_tenant, under the lock.  A tenant stream is in.
Register(s) ==
  /\ sock[s] = "accepted"
  /\ sock' = [sock EXCEPT ![s] = IF ChannelOf[s] = Feed THEN "in" ELSE "registered"]
  /\ sockets' = [sockets EXCEPT ![at[s]] = @ \cup {s}]
  /\ joined' = [joined EXCEPT ![s] = Len(published)]
  /\ Returned(s)
  /\ UNCHANGED <<at, score, got, traffic>>

\* connect_case goes on with the presence.
Enter(s) ==
  /\ sock[s] = "registered"
  /\ sock' = [sock EXCEPT ![s] = "in"]
  /\ Touched(s)
  /\ UNCHANGED <<at, sockets, client, away, traffic>>

\* Redis fails there, outside the try: the handler ends and the client is cut
\* off, but the dead socket stays registered until the process ends.  The zadd
\* may have been done, and the expire after it have failed.
EnterFails(s) ==
  /\ sock[s] = "registered"
  /\ sock' = [sock EXCEPT ![s] = "leaked"]
  /\ Closed({s})
  /\ Touched(s) \/ UNCHANGED score
  /\ UNCHANGED <<at, sockets, away, traffic>>

Ping_PongOnly(s) ==   \* mutant: a case stream answers as a tenant stream does
  /\ sock[s] = "in"
  /\ UNCHANGED hubVars

\* A keepalive.  A tenant stream only answers it.
Ping(s) ==
  /\ sock[s] = "in"
  /\ ChannelOf[s] \in Case
  /\ Touched(s)
  /\ UNCHANGED <<at, sock, sockets, client, away, traffic>>

\* The client goes, or the touch of a ping fails: the finally clause begins.
Leave(s) ==
  /\ sock[s] = "in"
  /\ sock' = [sock EXCEPT ![s] = "leaving"]
  /\ Closed({s})
  /\ UNCHANGED <<at, sockets, presence, traffic>>

Unregister_PopsChannel(s) ==   \* mutant: the channel's whole set is dropped
  /\ sock[s] = "leaving"
  /\ sock' = [sock EXCEPT ![s] = IF ChannelOf[s] = Feed THEN "gone" ELSE "forgetting"]
  /\ sockets' = [sockets EXCEPT ![at[s]] = {t \in @ : ChannelOf[t] # ChannelOf[s]}]
  /\ UNCHANGED <<at, client, presence, traffic>>

\* disconnect_case and disconnect_tenant, under the lock.
Unregister(s) ==
  /\ sock[s] = "leaving"
  /\ sock' = [sock EXCEPT ![s] = IF ChannelOf[s] = Feed THEN "gone" ELSE "forgetting"]
  /\ sockets' = [sockets EXCEPT ![at[s]] = @ \ {s}]
  /\ UNCHANGED <<at, client, presence, traffic>>

\* disconnect_case ends with a zrem of the user, whatever other tabs of the
\* same user are open; it may fail.
Forget(s) ==
  /\ sock[s] = "forgetting"
  /\ sock' = [sock EXCEPT ![s] = "gone"]
  /\ score' \in {score, [score EXCEPT ![ChannelOf[s]][UserOf[s]] = Nil]}
  /\ UNCHANGED <<at, sockets, client, away, traffic>>
-----------------------------------------------------------------------------
(* Publishing                                                              *)

\* PUBLISH: Redis appends to the buffer of every subscribed connection.
Publish(c, e) ==
  /\ published' = Append(published, <<c, e>>)
  /\ inbox' = [p \in Process |-> IF p \in listening THEN Append(inbox[p], <<c, e>>)
                                                    ELSE inbox[p]]

\* publish_case_event: the case channel first, then the tenant's.
PublishToCase(e) ==
  /\ stage[e] = "new"
  /\ CaseOf[e] \in Case
  /\ Publish(CaseOf[e], e)
  /\ stage' = [stage EXCEPT ![e] = "half"]
  /\ UNCHANGED <<at, sock, sockets, client, presence, starting, listening, sending>>

\* Its second call, and the only one of publish_tenant_event.
PublishToTenant(e) ==
  /\ stage[e] = (IF CaseOf[e] \in Case THEN "half" ELSE "new")
  /\ Publish(Feed, e)
  /\ stage' = [stage EXCEPT ![e] = "done"]
  /\ UNCHANGED <<at, sock, sockets, client, presence, starting, listening, sending>>

\* publish_case and publish_tenant suppress every failure: a failing first call
\* skips the second, and nothing is tried again.
PublishFails(e) ==
  /\ stage[e] \in {"new", "half"}
  /\ stage' = [stage EXCEPT ![e] = "done"]
  /\ UNCHANGED <<at, sock, sockets, client, presence, starting, listening, published,
                 inbox, sending>>
-----------------------------------------------------------------------------
(* The listener of a process                                               *)

\* Redis takes the psubscribe.  start_listener has only made the task, so sockets may
\* be registered by then: what was published before is not for them.
Subscribe(p) ==
  /\ p \in starting
  /\ starting' = starting \ {p}
  /\ listening' = listening \cup {p}
  /\ joined' = [s \in Socket |-> IF at[s] = p /\ sock[s] \in Open THEN Len(published)
                                 ELSE joined[s]]
  /\ UNCHANGED <<at, sock, sockets, got, presence, stage, published, inbox, sending>>

\* psubscribe raises, outside the try: the task ends as ListenerFails ends it.
SubscribeFails(p) ==
  /\ p \in starting
  /\ starting' = starting \ {p}
  /\ UNCHANGED <<at, sock, sockets, client, presence, listening, stage, published, inbox,
                 sending>>

\* The next message, and the connections of its channel at this moment.
Deliver(p) ==
  /\ p \in listening
  /\ sending[p].to = {}
  /\ inbox[p] # << >>
  /\ sending' = [sending EXCEPT ![p] =
       Handout(Head(inbox[p]),
               {s \in sockets[p] : ChannelOf[s] = Head(inbox[p])[1]})]
  /\ inbox' = [inbox EXCEPT ![p] = Tail(@)]
  /\ UNCHANGED <<at, sock, sockets, client, presence, starting, listening, stage,
                 published>>

\* send_text, its failure suppressed: only an open socket receives it.
Send(p, s) ==
  /\ p \in listening
  /\ s \in sending[p].to
  /\ sending' = [sending EXCEPT ![p] = Handout(@.msg, @.to \ {s})]
  /\ got' = IF sock[s] \in Open THEN [got EXCEPT ![s] = Append(@, sending[p].msg)]
                                ELSE got
  /\ UNCHANGED <<at, sock, sockets, joined, presence, starting, listening, stage,
                 published, inbox>>

\* The connection to Redis breaks: _listen logs the exception and ends, and
\* start_listener, called once at startup, never starts another task.
ListenerFails(p) ==
  /\ p \in listening
  /\ sending[p].to = {}
  /\ listening' = listening \ {p}
  /\ inbox' = [inbox EXCEPT ![p] = << >>]
  /\ UNCHANGED <<at, sock, sockets, client, presence, starting, stage, published, sending>>

\* The process stops (stop() in the lifespan, or a crash) and is started again:
\* its sockets are gone, their presence stays, a new listener is to subscribe.
Restart(p) ==
  /\ LET cut == {s \in Socket : at[s] = p}
     IN  /\ sock' = [s \in Socket |-> IF s \in cut THEN "gone" ELSE sock[s]]
         /\ Closed(cut)
  /\ sockets' = [sockets EXCEPT ![p] = {}]
  /\ starting' = starting \cup {p}
  /\ listening' = listening \ {p}
  /\ inbox' = [inbox EXCEPT ![p] = << >>]
  /\ sending' = [sending EXCEPT ![p] = Nothing]
  /\ UNCHANGED <<at, presence, stage, published>>
-----------------------------------------------------------------------------
Handler(s) == \/ \E p \in Process : Accept(s, p)
              \/ Register(s)
              \/ Enter(s)
              \/ EnterFails(s)
              \/ Ping(s)
              \/ Leave(s)
              \/ Unregister(s)
              \/ Forget(s)

Publisher(e) == PublishToCase(e) \/ PublishToTenant(e) \/ PublishFails(e)

Listener(p) == \/ Subscribe(p)
               \/ SubscribeFails(p)
               \/ Deliver(p)
               \/ \E s \in Socket : Send(p, s)
               \/ ListenerFails(p)

HubNext ==
  \/ \E s \in Socket : Handler(s)
  \/ \E e \in Event : Publisher(e)
  \/ \E p \in Process : Listener(p) \/ Restart(p)
  \/ HubTick

HubSpec == HubInit /\ [][HubNext]_hubVars

\* A browser pings every 15 seconds while its tab is open.
FairHubSpec == HubSpec /\ \A s \in Socket : WF_hubVars(Ping(s))
-----------------------------------------------------------------------------
HubTypeOK ==
  /\ at \in [Socket -> Process \cup {Nil}]
  /\ sock \in [Socket -> {"new", "accepted", "registered", "in", "leaving",
                          "forgetting", "gone", "leaked"}]
  /\ sockets \in [Process -> SUBSET Socket]
  /\ score \in [Case -> [Person -> Age \cup {Nil}]]
  /\ away \in [Case -> [Person -> Age]]
  /\ starting \subseteq Process
  /\ listening \subseteq Process \ starting
  /\ stage \in [Event -> {"new", "half", "done"}]
  /\ published \in Seq(Message)
  /\ inbox \in [Process -> Seq(Message)]
  /\ sending \in [Process -> [msg : Message \cup {Nil}, to : SUBSET Socket]]
  /\ got \in [Socket -> Seq(Message)]
  /\ joined \in [Socket -> Nat]

\* The messages of a queue on a channel, in their order.  (SelectSeq, as a
\* recursive function that the provers can expand.)
OnChannel(q, c) ==
  LET kept[n \in 0..Len(q)] == IF n = 0 THEN << >>
                               ELSE IF q[n][1] = c THEN Append(kept[n - 1], q[n])
                               ELSE kept[n - 1]
  IN  kept[Len(q)]

\* What a socket has been sent, is being sent and will be sent.
Stream(s) == LET p == at[s]
                 now == IF s \in sending[p].to THEN <<sending[p].msg>> ELSE << >>
             IN  got[s] \o now \o OnChannel(inbox[p], ChannelOf[s])

\* "Realtime": while its listener runs, a connected socket misses no message of its
\* channel published since it was registered and the listener subscribed, whichever
\* came later, and gets none twice or out of order, while other sockets come and go
\* in the middle of a delivery.  What is published between its registration and the
\* subscription it is never sent, and neither is what is published after the
\* listener ended.
NoMessageLost ==
  \A s \in Socket : sock[s] \in Open /\ at[s] \in listening =>
    LET since == SubSeq(published, joined[s] + 1, Len(published))
    IN  IsSuffix(OnChannel(since, ChannelOf[s]), Stream(s))

\* The converse: it is sent nothing but messages of its channel, each as often as it
\* was published and in that order, from some message on up to the last.
NothingElseSent ==
  \A s \in Socket : sock[s] \in Open /\ at[s] \in listening =>
    IsSuffix(Stream(s), OnChannel(published, ChannelOf[s]))

\* "currently viewing the case (within presence TTL)": whoever is shown had a
\* tab open on the case less than a TTL ago, crashes and failing calls included.
ViewersWereThere == \A c \in Case : \A u \in Viewers(c) : away[c][u] < TTL

\* Closing one tab hides a user who has another, but not for good: as long as a
\* tab stays open, its user is shown again and again.
WatcherReturns ==
  \A s \in Socket : ChannelOf[s] \in Case =>
    (<>[](sock[s] = "in") => []<>(UserOf[s] \in Viewers(ChannelOf[s])))
=============================================================================
