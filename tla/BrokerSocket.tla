---------------------------- MODULE BrokerSocket ----------------------------
(***************************************************************************)
(* The broker's process and its connections (conductor-runtime): start,    *)
(* stop and signals of brokers that share one socket path, and the framing *)
(* of JSON-RPC lines.  What a request does is the subject of Delegation.   *)
(*                                                                         *)
(* A broker is one thread: a handler runs until it awaits.  One action is  *)
(* what happens between two awaits.  A line arrives in two pieces, and a   *)
(* read takes any number of pieces.                                        *)
(***************************************************************************)
EXTENDS Naturals, Sequences, FiniteSets, SequencesExt

CONSTANTS Brokers,      \* broker processes
          Unit,         \* those the service manager starts, on its own socket
          Clients,
          MaxStarts, MaxSent, MaxFaults     \* bounds

ASSUME BrokersAssumption ==
    /\ Unit \subseteq Brokers /\ {"none", "unit", "stale"} \cap Brokers = {}
    /\ MaxStarts \in Nat /\ MaxSent \in Nat /\ MaxFaults \in Nat

VARIABLES
    path,      \* whose socket the path is: a broker's, a dead one's (stale), the unit's, none
    st,        \* what each broker does
    bound,     \* the brokers that serve a socket of their own: not is_socket_activated
    python,
    conn,      \* per client: the broker its connection leads to, or "none"
    open,      \* per client: whether its end is open
    at,        \* per client: what its handler does
    sent,      \* per connection: the messages sent
    wire,      \* per connection: the pieces not read yet
    buffer,    \* per connection: the pieces read and not yet dispatched
    done,      \* per connection: the messages dispatched
    got,       \* per connection: the answers written
    older,     \* history: per broker, those with a socket of their own that run since before it
    overtaken, \* history: the brokers that ran when another one bound the path
    outlived,  \* history: the brokers one of whose older ones has ended by a stop
    everBound, \* history: a broker bound the path
    starts, faults

lines == <<conn, open, at, sent, wire, buffer, done, got>>
history == <<older, overtaken, outlived, everBound, starts, faults>>
brokerVars == <<path, st, bound, python, lines, history>>

Running == {b \in Brokers : st[b] # "off"}
Attached(b) == {c \in Clients : conn[c] = b /\ at[c] # "none"}    \* self._clients

(* The kinds of line, and what _process_raw_message answers: nothing to a  *)
(* notification, whatever becomes of it; an error under its own id to a    *)
(* request that is invalid or fails, under no id to what is not JSON.      *)
Kinds == {"request", "failing", "notification", "garbled"}
Answer(m) == [id |-> IF m.kind = "garbled" THEN 0 ELSE m.id, ok |-> m.kind = "request"]

Silent(m) == m.kind = "notification"

-----------------------------------------------------------------------------
(* Start and stop.                                                         *)

Fault == faults < MaxFaults /\ faults' = faults + 1

Goto(b, step) == st' = [st EXCEPT ![b] = step]

(* start on the socket the unit hands over, which is left alone.           *)
Activated(b) ==
    /\ b \in Unit
    /\ UNCHANGED <<path, bound, overtaken, everBound, faults>>

(* start without one, or when it cannot be taken over: what is at the path *)
(* goes, though another broker may live there.                             *)
Bind(b) ==
    /\ IF b \in Unit THEN Fault ELSE UNCHANGED faults
    /\ path' = b
    /\ bound' = bound \cup {b}
    /\ overtaken' = overtaken \cup Running
    /\ everBound' = TRUE

Start(b) ==
    /\ st[b] = "off" /\ starts < MaxStarts
    /\ starts' = starts + 1
    /\ older' = [older EXCEPT ![b] = Running \cap bound]
    /\ Activated(b) \/ Bind(b)
    /\ Goto(b, "serving")
    /\ UNCHANGED <<python, outlived, lines>>

(* SIGTERM or SIGINT: stop sets _running and closes the listening socket,  *)
(* and from Python 3.13 on the path with it, if it is still this one; then *)
(* wait_closed.                                                            *)
Stop(b) ==
    /\ st[b] = "serving"
    /\ path' = IF python = "3.13" /\ path = b THEN "none" ELSE path
    /\ Goto(b, "wait")
    /\ UNCHANGED <<bound, python, lines, history>>

(* The process ends, and with it, if it has not closed them, its           *)
(* connections; it is not older any more than the others.                  *)
Drop(b) ==
    /\ Goto(b, "off")
    /\ bound' = bound \ {b}
    /\ older' = [a \in Brokers |-> older[a] \ {b}]
    /\ overtaken' = overtaken \ {b}
    /\ at' = [c \in Clients |-> IF conn[c] = b THEN "none" ELSE at[c]]
    /\ conn' = [c \in Clients |-> IF conn[c] = b THEN "none" ELSE conn[c]]
    /\ UNCHANGED <<open, sent, wire, buffer, done, got>>

(* wait_closed waits for the connections from Python 3.12 on.              *)
Closed(b) == python # "3.11" => Attached(b) = {}

(* Mutation: the listening socket of the unit is taken for the broker's.   *)
FinishStopAlways(b) ==
    /\ st[b] = "wait" /\ Closed(b)
    /\ path' = "none"
    /\ Drop(b)
    /\ outlived' = (outlived \cup {a \in Brokers : b \in older[a]}) \ {b}
    /\ UNCHANGED <<python, everBound, starts, faults>>

(* The rest of stop: clients are disconnected, and whatever is at the path *)
(* by now is removed, unless the unit owns the socket.                     *)
FinishStop(b) ==
    /\ st[b] = "wait" /\ Closed(b)
    /\ path' = IF b \in bound THEN "none" ELSE path
    /\ Drop(b)
    /\ outlived' = (outlived \cup {a \in Brokers : b \in older[a]}) \ {b}
    /\ UNCHANGED <<python, everBound, starts, faults>>

(* A broker is killed: by whom it pleases, or by the service manager when  *)
(* it does not stop in time.                                               *)
KillBroker(b) ==
    /\ st[b] # "off"
    /\ Fault \/ (b \in Unit /\ st[b] = "wait" /\ UNCHANGED faults)
    /\ path' = IF path = b THEN "stale" ELSE path
    /\ Drop(b)
    /\ outlived' = outlived \ {b}
    /\ UNCHANGED <<python, everBound, starts>>

-----------------------------------------------------------------------------
(* Clients.                                                                *)

Listening(b) == st[b] = "serving" /\ path = IF b \in bound THEN b ELSE "unit"

Connect(c, b) ==
    /\ conn[c] = "none" /\ Listening(b)
    /\ conn' = [conn EXCEPT ![c] = b]
    /\ open' = [open EXCEPT ![c] = TRUE]
    /\ at' = [at EXCEPT ![c] = "read"]
    /\ sent' = [sent EXCEPT ![c] = <<>>] /\ wire' = [wire EXCEPT ![c] = <<>>]
    /\ buffer' = [buffer EXCEPT ![c] = <<>>] /\ done' = [done EXCEPT ![c] = <<>>]
    /\ got' = [got EXCEPT ![c] = <<>>]
    /\ UNCHANGED <<path, st, bound, python, history>>

(* A line, or the half of one before the client hangs up.                  *)
Send(c, kind) ==
    LET m == [id |-> Len(sent[c]) + 1, kind |-> kind]
    IN  /\ conn[c] # "none" /\ open[c] /\ Len(sent[c]) < MaxSent
        /\ sent' = [sent EXCEPT ![c] = Append(@, m)]
        /\ \/ wire' = [wire EXCEPT ![c] =
                            @ \o <<[msg |-> m, end |-> FALSE], [msg |-> m, end |-> TRUE]>>]
              /\ UNCHANGED open
           \/ wire' = [wire EXCEPT ![c] = Append(@, [msg |-> m, end |-> FALSE])]
              /\ open' = [open EXCEPT ![c] = FALSE]
        /\ UNCHANGED <<path, st, bound, python, conn, at, buffer, done, got, history>>

Hangup(c) ==
    /\ conn[c] # "none" /\ open[c]
    /\ open' = [open EXCEPT ![c] = FALSE]
    /\ UNCHANGED <<path, st, bound, python, conn, at, sent, wire, buffer, done, got, history>>

-----------------------------------------------------------------------------
(* _handle_client.                                                         *)

(* The finally clause.                                                     *)
End(c) ==
    /\ at' = [at EXCEPT ![c] = "none"]
    /\ conn' = [conn EXCEPT ![c] = "none"]

(* Mutation: what is left of the last read is dropped.                     *)
ReadAfresh(c) ==
    /\ at[c] = "read" /\ wire[c] # <<>>
    /\ \E n \in 1 .. Len(wire[c]) :
          /\ buffer' = [buffer EXCEPT ![c] = SubSeq(wire[c], 1, n)]
          /\ wire' = [wire EXCEPT ![c] = SubSeq(@, n + 1, Len(@))]
    /\ at' = [at EXCEPT ![c] = "lines"]
    /\ UNCHANGED <<path, st, bound, python, conn, open, sent, done, got, history>>

(* reader.read returns what has arrived, at least one piece.               *)
Read(c) ==
    /\ at[c] = "read" /\ wire[c] # <<>>
    /\ \E n \in 1 .. Len(wire[c]) :
          /\ buffer' = [buffer EXCEPT ![c] = @ \o SubSeq(wire[c], 1, n)]
          /\ wire' = [wire EXCEPT ![c] = SubSeq(@, n + 1, Len(@))]
    /\ at' = [at EXCEPT ![c] = "lines"]
    /\ UNCHANGED <<path, st, bound, python, conn, open, sent, done, got, history>>

(* Mutation: the rest of a line is waited for.                             *)
EofPatient(c) ==
    /\ at[c] = "read" /\ wire[c] = <<>> /\ buffer[c] = <<>> /\ ~ open[c]
    /\ End(c)
    /\ UNCHANGED <<path, st, bound, python, open, sent, wire, buffer, done, got, history>>

(* It returns nothing: the client has hung up.                             *)
Eof(c) ==
    /\ at[c] = "read" /\ wire[c] = <<>> /\ ~ open[c]
    /\ End(c)
    /\ UNCHANGED <<path, st, bound, python, open, sent, wire, buffer, done, got, history>>

Complete(c) == \E i \in DOMAIN buffer[c] : buffer[c][i].end

(* buffer.split: the first line; without its beginning it is not JSON.     *)
Line(c) ==
    LET first == Head(buffer[c])
    IN  IF first.end THEN [first.msg EXCEPT !.kind = "garbled"] ELSE first.msg

Rest(c) == IF Head(buffer[c]).end THEN Tail(buffer[c]) ELSE Tail(Tail(buffer[c]))

(* A line is dispatched and answered; writing to a client that has hung up *)
(* may raise, after the dispatch.                                          *)
Dispatch(c) ==
    /\ at[c] = "lines" /\ Complete(c)
    /\ done' = [done EXCEPT ![c] = Append(@, Line(c))]
    /\ buffer' = [buffer EXCEPT ![c] = Rest(c)]
    /\ got' = [got EXCEPT ![c] = IF Silent(Line(c)) THEN @ ELSE Append(@, Answer(Line(c)))]
    /\ \/ UNCHANGED <<at, conn>>
       \/ ~ open[c] /\ ~ Silent(Line(c)) /\ End(c)
    /\ UNCHANGED <<path, st, bound, python, open, sent, wire, history>>

(* No line is left: another read, while the broker is running.             *)
Again(c) ==
    /\ at[c] = "lines" /\ ~ Complete(c)
    /\ IF st[conn[c]] = "serving" THEN at' = [at EXCEPT ![c] = "read"] /\ UNCHANGED conn ELSE End(c)
    /\ UNCHANGED <<path, st, bound, python, open, sent, wire, buffer, done, got, history>>

Handle(c) == Read(c) \/ Eof(c) \/ Dispatch(c) \/ Again(c)

BrokerInit ==
    /\ path = "unit"
    /\ st = [b \in Brokers |-> "off"]
    /\ bound = {}
    /\ python \in {"3.11", "3.12", "3.13"}
    /\ conn = [c \in Clients |-> "none"] /\ open = [c \in Clients |-> FALSE]
    /\ at = [c \in Clients |-> "none"]
    /\ sent = [c \in Clients |-> <<>>] /\ wire = [c \in Clients |-> <<>>]
    /\ buffer = [c \in Clients |-> <<>>]
    /\ done = [c \in Clients |-> <<>>] /\ got = [c \in Clients |-> <<>>]
    /\ older = [b \in Brokers |-> {}] /\ overtaken = {} /\ outlived = {} /\ everBound = FALSE
    /\ starts = 0 /\ faults = 0

BrokerNext ==
    \/ \E b \in Brokers : Start(b) \/ Stop(b) \/ FinishStop(b) \/ KillBroker(b)
    \/ \E c \in Clients : \/ \E b \in Brokers : Connect(c, b)
                          \/ \E kind \in Kinds : Send(c, kind)
                          \/ Hangup(c) \/ Handle(c)

(* The event loop runs what is ready; nobody has to speak, leave or stop.  *)
BrokerFairness ==
    /\ \A c \in Clients : WF_brokerVars(Handle(c))
    /\ \A b \in Brokers : WF_brokerVars(FinishStop(b))

BrokerSpec == BrokerInit /\ [][BrokerNext]_brokerVars /\ BrokerFairness

-----------------------------------------------------------------------------
(* Properties.                                                             *)

(* The answers are those to the messages, one to each that wants one, in   *)
(* their order.                                                            *)
Answered(msgs, answers) ==
    \E line \in [DOMAIN answers -> {i \in DOMAIN msgs : ~ Silent(msgs[i])}] :
        /\ \A i, j \in DOMAIN answers : i < j => line[i] < line[j]
        /\ \A i \in DOMAIN msgs : ~ Silent(msgs[i]) => \E j \in DOMAIN answers : line[j] = i
        /\ \A j \in DOMAIN answers : answers[j] = Answer(msgs[line[j]])

(* _handle_client and _process_raw_message: however the lines of a         *)
(* connection are cut into reads, each is dispatched once, in the order it *)
(* was sent, and every request is answered once under its own id, through  *)
(* errors, notifications, hang-ups and a stop in between.                  *)
LinesAreAnsweredOnce ==
    \A c \in Clients : IsPrefix(done[c], sent[c]) /\ Answered(done[c], got[c])

(* start and stop: a broker that serves a socket of its own loses the path *)
(* in two ways only, to a broker that bound it later, or to one that was   *)
(* there before it and has stopped, late, since; not to a predecessor that *)
(* was killed, to one that had stopped before, or to a broker of the       *)
(* unit's socket.  The unit loses its path only to one that binds it.  And *)
(* the path never leads to a broker that has ended, unless by a kill.      *)
PathLeadsHome ==
    /\ \A b \in Brokers : st[b] = "serving" =>
          IF b \in bound
          THEN path = b \/ b \in overtaken \cup outlived
          ELSE path = "unit" \/ everBound
    /\ path \in Brokers => path \in Running \cap bound

(* stop ends, unless a client stays connected without a word: then         *)
(* wait_closed waits for it, in front of the loop that would disconnect it. *)
StopSticksOnClientsOnly ==
    \A b \in Brokers :
        <>[](st[b] = "wait") => <>[](\E c \in Attached(b) : open[c])

=============================================================================
