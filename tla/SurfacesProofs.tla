--------------------------- MODULE SurfacesProofs ---------------------------
(***************************************************************************)
(* Theorems about BrokerSocket and ControlCenter: for any brokers and      *)
(* clients, any number of starts, kills, lines, windows and presses.       *)
(***************************************************************************)
EXTENDS BrokerSocket, ControlCenter, TLAPS, FiniteSetTheorems

-----------------------------------------------------------------------------
(* The socket path.                                                        *)

(* Of two brokers with sockets of their own one has overtaken the other    *)
(* and is the younger; and the path is the unit's until a broker binds it. *)
PathInv ==
    /\ st \in [Brokers -> {"off", "serving", "wait"}]
    /\ bound \subseteq Running /\ everBound \in BOOLEAN
    /\ older \in [Brokers -> SUBSET Brokers]
    /\ \A a, b \in bound : a # b => b \in overtaken \/ a \in older[b]
    /\ ~ everBound => path = "unit" /\ bound = {}
    /\ PathLeadsHome

LEMMA PathStep == PathInv /\ [BrokerNext]_brokerVars => PathInv'
  <1> SUFFICES ASSUME PathInv, [BrokerNext]_brokerVars PROVE PathInv'
    OBVIOUS
  <1> USE DEF PathInv, Running, PathLeadsHome
  <1>1. ASSUME NEW b \in Brokers, Start(b) PROVE PathInv'
    <2>1. b \notin bound /\ st' = [st EXCEPT ![b] = "serving"]
      BY <1>1 DEF Start, Goto
    <2>2. /\ older' \in [Brokers -> SUBSET Brokers] /\ older'[b] = Running \cap bound
          /\ \A a \in Brokers \ {b} : older'[a] = older[a]
      BY <1>1 DEF Start
    <2>3. outlived' = outlived
      BY <1>1 DEF Start
    <2>4. CASE Activated(b)
      BY <2>1, <2>2, <2>3, <2>4 DEF Activated
    <2>5. CASE Bind(b)
      <3>1. /\ path' = b /\ bound' = bound \cup {b} /\ overtaken' = overtaken \cup Running
            /\ everBound'
        BY <2>5 DEF Bind
      <3>2. everBound' \in BOOLEAN
        BY <2>5 DEF Bind
      <3>3. bound' \subseteq Running' /\ st' \in [Brokers -> {"off", "serving", "wait"}]
        BY <2>1, <3>1
      <3>4. \A a, c \in bound' : a # c => c \in overtaken' \/ a \in older'[c]
        BY <2>2, <3>1
      <3>5. PathLeadsHome'
        BY <2>1, <2>3, <3>1, <3>3
      <3> QED
        BY <2>2, <3>1, <3>2, <3>3, <3>4, <3>5
    <2> QED
      BY <1>1, <2>4, <2>5 DEF Start
  <1>2. ASSUME NEW b \in Brokers, Stop(b) PROVE PathInv'
    <2>1. /\ st' = [st EXCEPT ![b] = "wait"] /\ st[b] = "serving"
          /\ UNCHANGED <<bound, older, overtaken, outlived, everBound>>
          /\ path' = path \/ (path = b /\ path' = "none")
      BY <1>2 DEF Stop, Goto, history
    <2>2. Running' = Running
      BY <2>1
    <2>3. path = b => everBound
      BY BrokersAssumption
    <2> QED
      BY <2>1, <2>2, <2>3, BrokersAssumption
  <1>3. ASSUME NEW b \in Brokers, Drop(b), UNCHANGED everBound, path # b \/ path' \notin Brokers,
               path' = path \/ (everBound /\ path' \notin Brokers),
               \A a \in Brokers \ {b} : a \in outlived => a \in outlived',
               path' # path => \A a \in bound \ {b} :
                                  path = a => a \in overtaken \cup outlived'
        PROVE  PathInv'
    <2>1. /\ st' = [st EXCEPT ![b] = "off"] /\ bound' = bound \ {b}
          /\ older' = [a \in Brokers |-> older[a] \ {b}]
          /\ overtaken' = overtaken \ {b}
      BY <1>3 DEF Drop, Goto
    <2>2. Running' = Running \ {b} /\ st' \in [Brokers -> {"off", "serving", "wait"}]
      BY <2>1
    <2>3. \A a, c \in bound' : a # c => c \in overtaken' \/ a \in older'[c]
      BY <2>1
    <2>4. ASSUME NEW a \in Brokers, st'[a] = "serving"
          PROVE  IF a \in bound' THEN path' = a \/ a \in overtaken' \cup outlived'
                 ELSE path' = "unit" \/ everBound'
      <3>1. a # b /\ st[a] = "serving"
        BY <2>1, <2>4
      <3>2. CASE a \in bound
        BY <1>3, <2>1, <3>1, <3>2
      <3>3. CASE a \notin bound
        BY <1>3, <2>1, <3>1, <3>3
      <3> QED
        BY <3>2, <3>3
    <2>5. path' \in Brokers => path' \in Running' \cap bound'
      BY <1>3, <2>1, <2>2
    <2> QED
      BY <1>3, <2>1, <2>2, <2>3, <2>4, <2>5
  <1>4. ASSUME NEW b \in Brokers, FinishStop(b) PROVE PathInv'
    <2>1. /\ Drop(b) /\ everBound' = everBound
          /\ outlived' = (outlived \cup {a \in Brokers : b \in older[a]}) \ {b}
          /\ path' = IF b \in bound THEN "none" ELSE path
      BY <1>4 DEF FinishStop
    <2>2. b \in bound => everBound
      OBVIOUS
    <2>3. \A a \in bound \ {b} : b \in bound => a \in overtaken \cup outlived'
      BY <2>1
    <2> QED
      BY <1>3, <2>1, <2>2, <2>3, BrokersAssumption
  <1>5. ASSUME NEW b \in Brokers, KillBroker(b) PROVE PathInv'
    <2>1. /\ Drop(b) /\ everBound' = everBound /\ outlived' = outlived \ {b}
          /\ path' = IF path = b THEN "stale" ELSE path
      BY <1>5 DEF KillBroker
    <2>2. path = b => everBound
      BY BrokersAssumption
    <2> QED
      BY <1>3, <2>1, <2>2, BrokersAssumption
  <1>6. ASSUME UNCHANGED <<path, st, bound, history>> PROVE PathInv'
    BY <1>6 DEF history
  <1>7. ASSUME NEW c \in Clients, Handle(c) PROVE UNCHANGED <<path, st, bound, history>>
    BY <1>7 DEF Handle, Read, Eof, Dispatch, Again
  <1>8. ASSUME NEW c \in Clients, NEW b \in Brokers, Connect(c, b)
        PROVE  UNCHANGED <<path, st, bound, history>>
    BY <1>8 DEF Connect
  <1>9. ASSUME NEW c \in Clients, NEW kind \in Kinds, Send(c, kind)
        PROVE  UNCHANGED <<path, st, bound, history>>
    BY <1>9 DEF Send
  <1>10. ASSUME NEW c \in Clients, Hangup(c) PROVE UNCHANGED <<path, st, bound, history>>
    BY <1>10 DEF Hangup
  <1>11. CASE UNCHANGED brokerVars
    BY <1>6, <1>11 DEF brokerVars
  <1> QED
    BY <1>1, <1>2, <1>4, <1>5, <1>6, <1>7, <1>8, <1>9, <1>10, <1>11 DEF BrokerNext

(* ConductorServer.start and stop: with any number of brokers, started by  *)
(* hand, on the unit's socket or beside it when its activation fails, a    *)
(* broker with a socket of its own loses the path only to one that binds   *)
(* it later or to an older one that stops late; and the unit only to one   *)
(* that binds the path.                                                    *)
THEOREM PathIsTheServers == BrokerSpec => []PathLeadsHome
  <1>1. ASSUME BrokerInit PROVE PathInv
    <2>1. /\ \A b \in Brokers : st[b] = "off"
          /\ st \in [Brokers -> {"off", "serving", "wait"}]
      BY <1>1 DEF BrokerInit
    <2>2. /\ path = "unit" /\ everBound \in BOOLEAN /\ bound = {}
          /\ older \in [Brokers -> SUBSET Brokers]
      BY <1>1 DEF BrokerInit
    <2> QED
      BY <2>1, <2>2, BrokersAssumption DEF PathInv, Running, PathLeadsHome
  <1>2. PathInv => PathLeadsHome
    BY DEF PathInv
  <1> QED
    BY <1>1, <1>2, PathStep, PTL DEF BrokerSpec

-----------------------------------------------------------------------------
(* The lines of a connection: s was sent, d dispatched and g answered,     *)
(* the pieces in b have been read and those in w have not; o: the client   *)
(* may still write.                                                        *)

Message == [id : Nat, kind : Kinds]
Piece == [msg : Message, end : BOOLEAN]

At(b, w, k) == IF k <= Len(b) THEN b[k] ELSE w[k - Len(b)]

(* What was read and what was not are the two halves of each line that was *)
(* sent and not dispatched; the second half of the last one may be missing *)
(* for good.                                                               *)
Framed(s, d, b, w, o) ==
    /\ s \in Seq(Message) /\ d \in Seq(Message) /\ b \in Seq(Piece) /\ w \in Seq(Piece)
    /\ Len(d) <= Len(s)
    /\ \A i \in 1 .. Len(d) : d[i] = s[i]
    /\ \/ Len(b) + Len(w) = 2 * (Len(s) - Len(d))
       \/ ~ o /\ Len(b) + Len(w) + 1 = 2 * (Len(s) - Len(d))
    /\ \A k \in 1 .. Len(s) - Len(d) :
          /\ 2 * k - 1 <= Len(b) + Len(w) =>
                At(b, w, 2 * k - 1) = [msg |-> s[Len(d) + k], end |-> FALSE]
          /\ 2 * k <= Len(b) + Len(w) =>
                At(b, w, 2 * k) = [msg |-> s[Len(d) + k], end |-> TRUE]

(* The pieces that are there count alike however they are split.           *)
LEMMA Reframed ==
    ASSUME NEW s, NEW d, NEW b, NEW w, NEW o, Framed(s, d, b, w, o),
           NEW x \in Seq(Piece), NEW y \in Seq(Piece), Len(x) + Len(y) = Len(b) + Len(w),
           \A k \in 1 .. Len(b) + Len(w) : At(x, y, k) = At(b, w, k)
    PROVE  Framed(s, d, x, y, o)
  <1>1. /\ s \in Seq(Message) /\ d \in Seq(Message) /\ b \in Seq(Piece) /\ w \in Seq(Piece)
        /\ Len(d) <= Len(s) /\ \A i \in 1 .. Len(d) : d[i] = s[i]
    BY DEF Framed
  <1>2. Len(s) \in Nat /\ Len(d) \in Nat /\ Len(b) \in Nat /\ Len(w) \in Nat
    BY <1>1
  <1>3. ASSUME NEW k \in 1 .. Len(s) - Len(d), 2 * k - 1 <= Len(x) + Len(y)
        PROVE  At(x, y, 2 * k - 1) = [msg |-> s[Len(d) + k], end |-> FALSE]
    <2>1. 2 * k - 1 \in 1 .. Len(b) + Len(w)
      BY <1>2, <1>3
    <2>2. At(b, w, 2 * k - 1) = [msg |-> s[Len(d) + k], end |-> FALSE]
      BY <1>3 DEF Framed
    <2> QED
      BY <2>1, <2>2
  <1>4. ASSUME NEW k \in 1 .. Len(s) - Len(d), 2 * k <= Len(x) + Len(y)
        PROVE  At(x, y, 2 * k) = [msg |-> s[Len(d) + k], end |-> TRUE]
    <2>1. 2 * k \in 1 .. Len(b) + Len(w)
      BY <1>2, <1>4
    <2>2. At(b, w, 2 * k) = [msg |-> s[Len(d) + k], end |-> TRUE]
      BY <1>4 DEF Framed
    <2> QED
      BY <2>1, <2>2
  <1>5. \/ Len(x) + Len(y) = 2 * (Len(s) - Len(d))
        \/ ~ o /\ Len(x) + Len(y) + 1 = 2 * (Len(s) - Len(d))
    BY DEF Framed
  <1> QED
    BY <1>1, <1>3, <1>4, <1>5 DEF Framed

(* One more line, or its first half and the end.                           *)
Written(w, m, x, o) ==
    /\ x \in Seq(Piece)
    /\ \A i \in 1 .. Len(w) : x[i] = w[i]
    /\ x[Len(w) + 1] = [msg |-> m, end |-> FALSE]
    /\ \/ Len(x) = Len(w) + 2 /\ x[Len(w) + 2] = [msg |-> m, end |-> TRUE]
       \/ Len(x) = Len(w) + 1 /\ ~ o

LEMMA FramedSend ==
    ASSUME NEW s, NEW d, NEW b, NEW w, NEW m \in Message, Framed(s, d, b, w, TRUE),
           NEW x, NEW o, Written(w, m, x, o)
    PROVE  Framed(Append(s, m), d, b, x, o)
  <1> DEFINE t == Append(s, m)
  <1>1. /\ s \in Seq(Message) /\ d \in Seq(Message) /\ b \in Seq(Piece) /\ w \in Seq(Piece)
        /\ Len(d) <= Len(s) /\ \A i \in 1 .. Len(d) : d[i] = s[i]
    BY DEF Framed
  <1>2. Len(s) \in Nat /\ Len(d) \in Nat /\ Len(b) \in Nat /\ Len(w) \in Nat
    BY <1>1
  <1>3. /\ t \in Seq(Message) /\ Len(t) = Len(s) + 1
        /\ \A i \in 1 .. Len(s) : t[i] = s[i]
        /\ t[Len(s) + 1] = m
    BY <1>1
  <1> HIDE DEF t
  <1>4. Len(b) + Len(w) = 2 * (Len(s) - Len(d))
    BY DEF Framed
  <1>a. \A k \in 1 .. Len(s) - Len(d) :
            /\ 2 * k - 1 <= Len(b) + Len(w) =>
                  At(b, w, 2 * k - 1) = [msg |-> s[Len(d) + k], end |-> FALSE]
            /\ 2 * k <= Len(b) + Len(w) =>
                  At(b, w, 2 * k) = [msg |-> s[Len(d) + k], end |-> TRUE]
    BY DEF Framed
  <1>5. /\ \A k \in 1 .. Len(b) + Len(w) : At(b, x, k) = At(b, w, k)
        /\ At(b, x, Len(b) + Len(w) + 1) = [msg |-> m, end |-> FALSE]
        /\ Len(x) = Len(w) + 2 => At(b, x, Len(b) + Len(w) + 2) = [msg |-> m, end |-> TRUE]
    <2>1. ASSUME NEW k \in 1 .. Len(b) + Len(w) PROVE At(b, x, k) = At(b, w, k)
      <3>1. CASE k <= Len(b)
        BY <3>1 DEF At
      <3>2. CASE ~ (k <= Len(b))
        <4>1. k - Len(b) \in 1 .. Len(w)
          BY <1>2, <3>2
        <4> QED
          BY <3>2, <4>1 DEF At, Written
      <3> QED
        BY <3>1, <3>2
    <2>2. /\ (Len(b) + Len(w) + 1) - Len(b) = Len(w) + 1
          /\ (Len(b) + Len(w) + 2) - Len(b) = Len(w) + 2
          /\ ~ (Len(b) + Len(w) + 1 <= Len(b)) /\ ~ (Len(b) + Len(w) + 2 <= Len(b))
      BY <1>2
    <2> QED
      BY <2>1, <2>2 DEF At, Written
  <1>b. Len(x) \in {Len(w) + 1, Len(w) + 2} /\ (Len(x) = Len(w) + 1 => ~ o)
    BY <1>2 DEF Written
  <1>6. ASSUME NEW k \in Nat, 1 <= k, k <= Len(s) - Len(d) + 1, 2 * k - 1 <= Len(b) + Len(x)
        PROVE  At(b, x, 2 * k - 1) = [msg |-> t[Len(d) + k], end |-> FALSE]
    <2>1. CASE k <= Len(s) - Len(d)
      <3>1. /\ k \in 1 .. Len(s) - Len(d) /\ 2 * k - 1 \in 1 .. Len(b) + Len(w)
            /\ 2 * k - 1 <= Len(b) + Len(w)
        BY <1>2, <1>4, <1>6, <2>1
      <3>2. At(b, w, 2 * k - 1) = [msg |-> s[Len(d) + k], end |-> FALSE]
        BY <1>a, <3>1
      <3>3. t[Len(d) + k] = s[Len(d) + k]
        BY <1>2, <1>3, <2>1, <3>1
      <3> QED
        BY <1>5, <3>1, <3>2, <3>3
    <2>2. CASE k = Len(s) - Len(d) + 1
      <3>1. 2 * k - 1 = Len(b) + Len(w) + 1 /\ Len(d) + k = Len(s) + 1
        BY <1>2, <1>4, <1>6, <2>2
      <3> QED
        BY <1>3, <1>5, <3>1
    <2> QED
      BY <1>2, <1>6, <2>1, <2>2
  <1>7. ASSUME NEW k \in Nat, 1 <= k, k <= Len(s) - Len(d) + 1, 2 * k <= Len(b) + Len(x)
        PROVE  At(b, x, 2 * k) = [msg |-> t[Len(d) + k], end |-> TRUE]
    <2>1. CASE k <= Len(s) - Len(d)
      <3>1. /\ k \in 1 .. Len(s) - Len(d) /\ 2 * k \in 1 .. Len(b) + Len(w)
            /\ 2 * k <= Len(b) + Len(w)
        BY <1>2, <1>4, <1>7, <2>1
      <3>2. At(b, w, 2 * k) = [msg |-> s[Len(d) + k], end |-> TRUE]
        BY <1>a, <3>1
      <3>3. t[Len(d) + k] = s[Len(d) + k]
        BY <1>2, <1>3, <2>1, <3>1
      <3> QED
        BY <1>5, <3>1, <3>2, <3>3
    <2>2. CASE k = Len(s) - Len(d) + 1
      <3>1. 2 * k = Len(b) + Len(w) + 2 /\ Len(d) + k = Len(s) + 1 /\ Len(x) = Len(w) + 2
        BY <1>2, <1>4, <1>7, <1>b, <2>2
      <3> QED
        BY <1>3, <1>5, <3>1
    <2> QED
      BY <1>2, <1>7, <2>1, <2>2
  <1>8. /\ Len(d) <= Len(t) /\ \A i \in 1 .. Len(d) : d[i] = t[i]
        /\ \/ Len(b) + Len(x) = 2 * (Len(t) - Len(d))
           \/ ~ o /\ Len(b) + Len(x) + 1 = 2 * (Len(t) - Len(d))
    <2>1. Len(d) <= Len(t) /\ \A i \in 1 .. Len(d) : i \in 1 .. Len(s) /\ d[i] = s[i]
      BY <1>1, <1>2, <1>3
    <2>2. \/ Len(b) + Len(x) = 2 * (Len(t) - Len(d))
          \/ ~ o /\ Len(b) + Len(x) + 1 = 2 * (Len(t) - Len(d))
      BY <1>2, <1>3, <1>4, <1>b
    <2> QED
      BY <1>3, <2>1, <2>2
  <1>9. Framed(t, d, b, x, o)
    <2>1. \A k \in 1 .. Len(t) - Len(d) : k \in Nat /\ 1 <= k /\ k <= Len(s) - Len(d) + 1
      BY <1>2, <1>3
    <2> QED
      BY <1>1, <1>3, <1>6, <1>7, <1>8, <2>1 DEF Framed, Written
  <1> QED
    BY <1>9 DEF t

(* A read moves pieces from one place to the other.                        *)
LEMMA FramedRead ==
    ASSUME NEW s, NEW d, NEW b, NEW w, NEW o, Framed(s, d, b, w, o), NEW n \in 1 .. Len(w)
    PROVE  Framed(s, d, b \o SubSeq(w, 1, n), SubSeq(w, n + 1, Len(w)), o)
  <1>1. /\ b \in Seq(Piece) /\ w \in Seq(Piece) /\ Len(b) \in Nat /\ Len(w) \in Nat
    BY DEF Framed
  <1> DEFINE u == SubSeq(w, 1, n)
             v == SubSeq(w, n + 1, Len(w))
             x == b \o u
  <1>2. /\ u \in Seq(Piece) /\ Len(u) = n /\ \A i \in 1 .. n : u[i] = w[i]
    BY <1>1
  <1>3. /\ v \in Seq(Piece) /\ Len(v) = Len(w) - n /\ \A i \in 1 .. Len(w) - n : v[i] = w[n + i]
    BY <1>1
  <1> HIDE DEF u, v
  <1>4. /\ x \in Seq(Piece) /\ Len(x) = Len(b) + n
        /\ \A i \in 1 .. Len(b) : x[i] = b[i]
        /\ \A i \in 1 .. n : x[Len(b) + i] = w[i]
    BY <1>1, <1>2
  <1> HIDE DEF x
  <1>5. \A k \in 1 .. Len(b) + Len(w) : At(x, v, k) = At(b, w, k)
    <2> SUFFICES ASSUME NEW k \in 1 .. Len(b) + Len(w) PROVE At(x, v, k) = At(b, w, k)
      OBVIOUS
    <2>1. CASE k <= Len(b)
      BY <1>1, <1>4, <2>1 DEF At
    <2>2. CASE k > Len(b) /\ k <= Len(b) + n
      <3>1. k - Len(b) \in 1 .. n /\ Len(b) + (k - Len(b)) = k
        BY <1>1, <2>2
      <3>2. x[Len(b) + (k - Len(b))] = w[k - Len(b)]
        BY <1>4, <3>1
      <3> QED
        BY <1>1, <1>4, <2>2, <3>1, <3>2 DEF At
    <2>3. CASE k > Len(b) + n
      <3>1. k - (Len(b) + n) \in 1 .. Len(w) - n /\ n + (k - (Len(b) + n)) = k - Len(b)
        BY <1>1, <2>3
      <3>2. v[k - (Len(b) + n)] = w[n + (k - (Len(b) + n))]
        BY <1>3, <3>1
      <3> QED
        BY <1>1, <1>4, <2>3, <3>1, <3>2 DEF At
    <2> QED
      BY <1>1, <2>1, <2>2, <2>3
  <1>6. Len(x) + Len(v) = Len(b) + Len(w)
    BY <1>1, <1>3, <1>4
  <1>7. Framed(s, d, x, v, o)
    BY <1>3, <1>4, <1>5, <1>6, Reframed
  <1> QED
    BY <1>7 DEF u, v, x

LEMMA TailFacts ==
    ASSUME NEW S, NEW q \in Seq(S), Len(q) >= 1
    PROVE  /\ Tail(q) \in Seq(S) /\ Len(Tail(q)) = Len(q) - 1
           /\ \A k \in 1 .. Len(q) - 1 : Tail(q)[k] = q[k + 1]
  OBVIOUS

(* The first line that is there as a whole is the next one that was sent.  *)
LEMMA FramedDispatch ==
    ASSUME NEW s, NEW d, NEW b, NEW w, NEW o, Framed(s, d, b, w, o),
           NEW i \in 1 .. Len(b), b[i].end
    PROVE  /\ Head(b).end = FALSE /\ Head(b).msg = s[Len(d) + 1] /\ Head(b).msg \in Message
           /\ Framed(s, Append(d, Head(b).msg), Tail(Tail(b)), w, o)
  <1> DEFINE m == s[Len(d) + 1]
             e == Append(d, m)
             x == Tail(Tail(b))
  <1>1. /\ s \in Seq(Message) /\ d \in Seq(Message) /\ b \in Seq(Piece) /\ w \in Seq(Piece)
        /\ Len(d) <= Len(s) /\ \A j \in 1 .. Len(d) : d[j] = s[j]
    BY DEF Framed
  <1>2. Len(s) \in Nat /\ Len(d) \in Nat /\ Len(b) \in Nat /\ Len(w) \in Nat /\ Len(b) >= 1
    BY <1>1
  <1>3. /\ Len(s) - Len(d) >= 1
        /\ \/ Len(b) + Len(w) = 2 * (Len(s) - Len(d))
           \/ ~ o /\ Len(b) + Len(w) + 1 = 2 * (Len(s) - Len(d))
    BY <1>2 DEF Framed
  <1>4. b[1] = [msg |-> m, end |-> FALSE]
    <2>1. 1 \in 1 .. Len(s) - Len(d) /\ 2 * 1 - 1 = 1 /\ 1 <= Len(b) + Len(w)
      BY <1>2, <1>3
    <2>2. At(b, w, 1) = [msg |-> m, end |-> FALSE]
      BY <2>1 DEF Framed
    <2> QED
      BY <1>2, <2>2 DEF At
  <1>5. Len(b) >= 2 /\ m \in Message
    <2>1. i # 1
      BY <1>4
    <2>2. Len(d) + 1 \in 1 .. Len(s)
      BY <1>2, <1>3
    <2> QED
      BY <1>1, <1>2, <2>1, <2>2
  <1>6. Head(b) = b[1]
    BY <1>1, <1>2
  <1>7. /\ x \in Seq(Piece) /\ Len(x) = Len(b) - 2
        /\ \A k \in 1 .. Len(b) - 2 : x[k] = b[k + 2]
    <2>1. /\ Tail(b) \in Seq(Piece) /\ Len(Tail(b)) = Len(b) - 1
          /\ \A k \in 1 .. Len(b) - 1 : Tail(b)[k] = b[k + 1]
      BY <1>1, <1>2, TailFacts
    <2>2. /\ Tail(Tail(b)) \in Seq(Piece) /\ Len(Tail(Tail(b))) = Len(b) - 2
          /\ \A k \in 1 .. Len(b) - 2 : Tail(Tail(b))[k] = Tail(b)[k + 1]
      <3>1. Len(Tail(b)) >= 1 /\ Len(Tail(b)) - 1 = Len(b) - 2
        BY <1>2, <1>5, <2>1
      <3> QED
        BY <2>1, <3>1, TailFacts
    <2>3. \A k \in 1 .. Len(b) - 2 : k + 1 \in 1 .. Len(b) - 1 /\ (k + 1) + 1 = k + 2
      BY <1>2, <1>5
    <2> QED
      BY <2>1, <2>2, <2>3
  <1>8. /\ e \in Seq(Message) /\ Len(e) = Len(d) + 1
        /\ \A j \in 1 .. Len(d) : e[j] = d[j]
        /\ e[Len(d) + 1] = m
    BY <1>1, <1>5
  <1> HIDE DEF e, x, m
  <1>9. \A k \in 1 .. Len(x) + Len(w) : At(x, w, k) = At(b, w, k + 2)
    <2> SUFFICES ASSUME NEW k \in 1 .. Len(x) + Len(w) PROVE At(x, w, k) = At(b, w, k + 2)
      OBVIOUS
    <2>1. CASE k <= Len(x)
      BY <1>2, <1>5, <1>7, <2>1 DEF At
    <2>2. CASE k > Len(x)
      <3>1. (k + 2) - Len(b) = k - Len(x) /\ ~ (k <= Len(x)) /\ ~ (k + 2 <= Len(b))
        BY <1>2, <1>7, <2>2
      <3> QED
        BY <3>1 DEF At
    <2> QED
      BY <1>2, <1>7, <2>1, <2>2
  <1>10. ASSUME NEW k \in 1 .. Len(s) - Len(e), 2 * k - 1 <= Len(x) + Len(w)
         PROVE  At(x, w, 2 * k - 1) = [msg |-> s[Len(e) + k], end |-> FALSE]
    <2>1. /\ 2 * k - 1 \in 1 .. Len(x) + Len(w) /\ (2 * k - 1) + 2 = 2 * (k + 1) - 1
          /\ k + 1 \in 1 .. Len(s) - Len(d) /\ 2 * (k + 1) - 1 <= Len(b) + Len(w)
          /\ Len(e) + k = Len(d) + (k + 1)
      BY <1>2, <1>5, <1>7, <1>8, <1>10
    <2>2. At(b, w, 2 * (k + 1) - 1) = [msg |-> s[Len(d) + (k + 1)], end |-> FALSE]
      BY <2>1 DEF Framed
    <2> QED
      BY <1>9, <2>1, <2>2
  <1>11. ASSUME NEW k \in 1 .. Len(s) - Len(e), 2 * k <= Len(x) + Len(w)
         PROVE  At(x, w, 2 * k) = [msg |-> s[Len(e) + k], end |-> TRUE]
    <2>1. /\ 2 * k \in 1 .. Len(x) + Len(w) /\ 2 * k + 2 = 2 * (k + 1)
          /\ k + 1 \in 1 .. Len(s) - Len(d) /\ 2 * (k + 1) <= Len(b) + Len(w)
          /\ Len(e) + k = Len(d) + (k + 1)
      BY <1>2, <1>5, <1>7, <1>8, <1>11
    <2>2. At(b, w, 2 * (k + 1)) = [msg |-> s[Len(d) + (k + 1)], end |-> TRUE]
      BY <2>1 DEF Framed
    <2> QED
      BY <1>9, <2>1, <2>2
  <1>12. /\ Len(e) <= Len(s) /\ \A j \in 1 .. Len(e) : e[j] = s[j]
         /\ \/ Len(x) + Len(w) = 2 * (Len(s) - Len(e))
            \/ ~ o /\ Len(x) + Len(w) + 1 = 2 * (Len(s) - Len(e))
    <2>1. Len(e) <= Len(s)
      BY <1>2, <1>3, <1>8
    <2>2. ASSUME NEW j \in 1 .. Len(e) PROVE e[j] = s[j]
      <3>1. CASE j = Len(d) + 1
        BY <1>8, <3>1 DEF m
      <3>2. CASE j # Len(d) + 1
        <4>1. j \in 1 .. Len(d)
          BY <1>2, <1>8, <3>2
        <4> QED
          BY <1>1, <1>8, <4>1
      <3> QED
        BY <3>1, <3>2
    <2>3. \/ Len(x) + Len(w) = 2 * (Len(s) - Len(e))
          \/ ~ o /\ Len(x) + Len(w) + 1 = 2 * (Len(s) - Len(e))
      <3>0. Len(x) = Len(b) - 2 /\ Len(e) = Len(d) + 1
        BY <1>7, <1>8
      <3>1. CASE Len(b) + Len(w) = 2 * (Len(s) - Len(d))
        BY <1>2, <3>0, <3>1
      <3>2. CASE Len(b) + Len(w) + 1 = 2 * (Len(s) - Len(d))
        <4>1. Len(x) + Len(w) + 1 = 2 * (Len(s) - Len(e))
          BY <1>2, <3>0, <3>2
        <4>2. ~ o
          BY <1>2, <1>3, <3>2
        <4> QED
          BY <4>1, <4>2
      <3> QED
        BY <1>3, <3>1, <3>2
    <2> QED
      BY <2>1, <2>2, <2>3
  <1>13. Framed(s, e, x, w, o)
    BY <1>1, <1>7, <1>8, <1>10, <1>11, <1>12 DEF Framed
  <1>14. Head(b).end = FALSE /\ Head(b).msg = m
    BY <1>4, <1>6
  <1> QED
    BY <1>5, <1>13, <1>14 DEF e, x, m

(* Answers are written in the order of the lines.                          *)
Replies == [id : Nat, ok : BOOLEAN]

LEMMA AnsweredNothing == Answered(<<>>, <<>>)
  <1>1. DOMAIN <<>> = {}
    OBVIOUS
  <1>2. <<>> \in [DOMAIN <<>> -> {i \in DOMAIN <<>> : ~ Silent(<<>>[i])}]
    BY <1>1
  <1> QED
    BY <1>1, <1>2 DEF Answered

LEMMA AnsweredSilent ==
    ASSUME NEW d \in Seq(Message), NEW g \in Seq(Replies), NEW m \in Message,
           Answered(d, g), Silent(m)
    PROVE  Answered(Append(d, m), g)
  <1> DEFINE e == Append(d, m)
  <1>1. /\ e \in Seq(Message) /\ DOMAIN e = 1 .. Len(d) + 1 /\ DOMAIN d = 1 .. Len(d)
        /\ Len(d) \in Nat /\ e[Len(d) + 1] = m /\ \A i \in DOMAIN d : e[i] = d[i]
    OBVIOUS
  <1> HIDE DEF e
  <1>2. {i \in DOMAIN e : ~ Silent(e[i])} = {i \in DOMAIN d : ~ Silent(d[i])}
    BY <1>1
  <1>3. PICK line \in [DOMAIN g -> {i \in DOMAIN d : ~ Silent(d[i])}] :
            /\ \A i, j \in DOMAIN g : i < j => line[i] < line[j]
            /\ \A i \in DOMAIN d : ~ Silent(d[i]) => \E j \in DOMAIN g : line[j] = i
            /\ \A j \in DOMAIN g : g[j] = Answer(d[line[j]])
    BY DEF Answered
  <1>4. \A j \in DOMAIN g : g[j] = Answer(e[line[j]])
    BY <1>1, <1>3
  <1>5. \A i \in DOMAIN e : ~ Silent(e[i]) => \E j \in DOMAIN g : line[j] = i
    BY <1>2, <1>3
  <1>6. Answered(e, g)
    BY <1>2, <1>3, <1>4, <1>5 DEF Answered
  <1> QED
    BY <1>6 DEF e

LEMMA AnsweredAloud ==
    ASSUME NEW d \in Seq(Message), NEW g \in Seq(Replies), NEW m \in Message, NEW r \in Replies,
           Answered(d, g), ~ Silent(m), r = Answer(m)
    PROVE  Answered(Append(d, m), Append(g, r))
  <1> DEFINE e == Append(d, m)
             h == Append(g, r)
  <1>1. /\ DOMAIN e = 1 .. Len(d) + 1 /\ DOMAIN d = 1 .. Len(d)
        /\ Len(d) \in Nat /\ e[Len(d) + 1] = m /\ \A i \in DOMAIN d : e[i] = d[i]
    OBVIOUS
  <1>2. /\ DOMAIN h = 1 .. Len(g) + 1 /\ DOMAIN g = 1 .. Len(g)
        /\ Len(g) \in Nat /\ h[Len(g) + 1] = r /\ \A i \in DOMAIN g : h[i] = g[i]
    OBVIOUS
  <1> HIDE DEF e, h
  <1>3. PICK line \in [DOMAIN g -> {i \in DOMAIN d : ~ Silent(d[i])}] :
            /\ \A i, j \in DOMAIN g : i < j => line[i] < line[j]
            /\ \A i \in DOMAIN d : ~ Silent(d[i]) => \E j \in DOMAIN g : line[j] = i
            /\ \A j \in DOMAIN g : g[j] = Answer(d[line[j]])
    BY DEF Answered
  <1> DEFINE more == [j \in DOMAIN h |-> IF j \in DOMAIN g THEN line[j] ELSE Len(d) + 1]
  <1>4. /\ \A j \in DOMAIN g : more[j] = line[j] /\ j \in DOMAIN h /\ more[j] \in DOMAIN d
        /\ more[Len(g) + 1] = Len(d) + 1 /\ Len(g) + 1 \in DOMAIN h
        /\ \A j \in DOMAIN h : j \in DOMAIN g \/ j = Len(g) + 1
    BY <1>1, <1>2, <1>3
  <1>5. /\ \A i \in DOMAIN d : i \in DOMAIN e /\ i < Len(d) + 1
        /\ Len(d) + 1 \in DOMAIN e
        /\ \A i \in DOMAIN e : i \in DOMAIN d \/ i = Len(d) + 1
        /\ \A i \in DOMAIN g : i < Len(g) + 1
    BY <1>1, <1>2
  <1>6. more \in [DOMAIN h -> {i \in DOMAIN e : ~ Silent(e[i])}]
    BY <1>1, <1>3, <1>4, <1>5
  <1> HIDE DEF more
  <1>7. ASSUME NEW i \in DOMAIN h, NEW j \in DOMAIN h, i < j PROVE more[i] < more[j]
    <2>1. CASE j \in DOMAIN g
      <3>1. i \in DOMAIN g
        BY <1>2, <1>7, <2>1
      <3> QED
        BY <1>3, <1>4, <1>7, <2>1, <3>1
    <2>2. CASE j = Len(g) + 1
      BY <1>2, <1>4, <1>5, <1>7, <2>2
    <2> QED
      BY <1>4, <2>1, <2>2
  <1>8. ASSUME NEW i \in DOMAIN e, ~ Silent(e[i]) PROVE \E j \in DOMAIN h : more[j] = i
    <2>1. CASE i \in DOMAIN d
      <3>1. PICK j \in DOMAIN g : line[j] = i
        BY <1>1, <1>3, <1>8, <2>1
      <3> QED
        BY <1>4, <3>1
    <2>2. CASE i = Len(d) + 1
      BY <1>4, <2>2
    <2> QED
      BY <1>5, <2>1, <2>2
  <1>9. ASSUME NEW j \in DOMAIN h PROVE h[j] = Answer(e[more[j]])
    <2>1. CASE j \in DOMAIN g
      BY <1>1, <1>2, <1>3, <1>4, <2>1
    <2>2. CASE j = Len(g) + 1
      BY <1>1, <1>2, <1>4, <2>2
    <2> QED
      BY <1>4, <2>1, <2>2
  <1>10. Answered(e, h)
    BY <1>6, <1>7, <1>8, <1>9 DEF Answered
  <1> QED
    BY <1>10 DEF e, h

(* What holds of every connection, and of those that are over.             *)
LinesOK(c) ==
    /\ Framed(sent[c], done[c], buffer[c], wire[c], open[c])
    /\ got[c] \in Seq(Replies) /\ Answered(done[c], got[c])

LinesInv ==
    /\ \A f \in {sent, done, buffer, wire, open, got} : f = [c \in Clients |-> f[c]]
    /\ open \in [Clients -> BOOLEAN]
    /\ \A c \in Clients : LinesOK(c)

(* A step on one connection leaves the others alone.                       *)
Changed(c, s, d, b, w, o, g) ==
    /\ sent' = [sent EXCEPT ![c] = s] /\ done' = [done EXCEPT ![c] = d]
    /\ buffer' = [buffer EXCEPT ![c] = b] /\ wire' = [wire EXCEPT ![c] = w]
    /\ open' = [open EXCEPT ![c] = o] /\ got' = [got EXCEPT ![c] = g]

LEMMA OneLine ==
    ASSUME LinesInv, NEW c \in Clients, NEW s, NEW d, NEW b, NEW w, NEW o \in BOOLEAN, NEW g,
           Changed(c, s, d, b, w, o, g),
           Framed(s, d, b, w, o), g \in Seq(Replies), Answered(d, g)
    PROVE  LinesInv'
  <1>1. /\ sent = [e \in Clients |-> sent[e]] /\ done = [e \in Clients |-> done[e]]
        /\ buffer = [e \in Clients |-> buffer[e]] /\ wire = [e \in Clients |-> wire[e]]
        /\ open = [e \in Clients |-> open[e]] /\ got = [e \in Clients |-> got[e]]
    BY DEF LinesInv
  <1>2. /\ sent' = [e \in Clients |-> IF e = c THEN s ELSE sent[e]]
        /\ done' = [e \in Clients |-> IF e = c THEN d ELSE done[e]]
        /\ buffer' = [e \in Clients |-> IF e = c THEN b ELSE buffer[e]]
    BY <1>1 DEF Changed
  <1>3. /\ wire' = [e \in Clients |-> IF e = c THEN w ELSE wire[e]]
        /\ open' = [e \in Clients |-> IF e = c THEN o ELSE open[e]]
        /\ got' = [e \in Clients |-> IF e = c THEN g ELSE got[e]]
    BY <1>1 DEF Changed
  <1>4. \A f \in {sent', done', buffer', wire', open', got'} : f = [e \in Clients |-> f[e]]
    BY <1>2, <1>3
  <1>5. open' \in [Clients -> BOOLEAN]
    BY <1>3 DEF LinesInv
  <1>6. ASSUME NEW e \in Clients PROVE LinesOK(e)'
    <2>1. CASE e = c
      <3>1. /\ sent'[e] = s /\ done'[e] = d /\ buffer'[e] = b /\ wire'[e] = w
            /\ open'[e] = o /\ got'[e] = g
        BY <1>2, <1>3, <2>1
      <3> QED
        BY <3>1 DEF LinesOK
    <2>2. CASE e # c
      <3>1. /\ sent'[e] = sent[e] /\ done'[e] = done[e] /\ buffer'[e] = buffer[e]
            /\ wire'[e] = wire[e] /\ open'[e] = open[e] /\ got'[e] = got[e]
        BY <1>2, <1>3, <2>2
      <3> QED
        BY <3>1 DEF LinesOK, LinesInv
    <2> QED
      BY <2>1, <2>2
  <1> QED
    BY <1>4, <1>5, <1>6 DEF LinesInv

LEMMA Same ==
    ASSUME LinesInv, NEW c \in Clients
    PROVE  /\ sent = [sent EXCEPT ![c] = sent[c]] /\ done = [done EXCEPT ![c] = done[c]]
           /\ buffer = [buffer EXCEPT ![c] = buffer[c]] /\ wire = [wire EXCEPT ![c] = wire[c]]
           /\ open = [open EXCEPT ![c] = open[c]] /\ got = [got EXCEPT ![c] = got[c]]
  <1>1. /\ sent = [e \in Clients |-> sent[e]] /\ done = [e \in Clients |-> done[e]]
        /\ buffer = [e \in Clients |-> buffer[e]] /\ wire = [e \in Clients |-> wire[e]]
        /\ open = [e \in Clients |-> open[e]] /\ got = [e \in Clients |-> got[e]]
    BY DEF LinesInv
  <1> QED
    BY <1>1

(* A piece is there as it was sent.                                        *)
LEMMA SendLines ==
    ASSUME LinesInv, NEW c \in Clients, NEW kind \in Kinds, Send(c, kind) PROVE LinesInv'
  <1> DEFINE m == [id |-> Len(sent[c]) + 1, kind |-> kind]
             half == [msg |-> m, end |-> FALSE]
             full == [msg |-> m, end |-> TRUE]
  <1>0. LinesOK(c)
    BY DEF LinesInv
  <1>1. /\ sent[c] \in Seq(Message) /\ wire[c] \in Seq(Piece) /\ Len(sent[c]) \in Nat
    BY <1>0 DEF LinesOK, Framed
  <1>2. m \in Message
    BY <1>1 DEF Message
  <1>3. half \in Piece /\ full \in Piece
    BY <1>2 DEF Piece
  <1>4. Framed(sent[c], done[c], buffer[c], wire[c], TRUE)
    BY <1>0 DEF LinesOK, Send, Framed
  <1>5. /\ sent' = [sent EXCEPT ![c] = Append(sent[c], m)] /\ UNCHANGED <<buffer, done, got>>
        /\ \/ wire' = [wire EXCEPT ![c] = wire[c] \o <<half, full>>] /\ open' = open
           \/ /\ wire' = [wire EXCEPT ![c] = Append(wire[c], half)]
              /\ open' = [open EXCEPT ![c] = FALSE]
        /\ open[c]
    BY DEF Send
  <1>a. open[c] \in BOOLEAN
    BY DEF LinesInv
  <1> HIDE DEF m
  <1>6. CASE wire' = [wire EXCEPT ![c] = wire[c] \o <<half, full>>] /\ open' = open
    <2>1. Written(wire[c], m, wire[c] \o <<half, full>>, open[c])
      BY <1>1, <1>3 DEF Written
    <2>2. Framed(Append(sent[c], m), done[c], buffer[c], wire[c] \o <<half, full>>, open[c])
      BY <1>2, <1>4, <2>1, FramedSend
    <2>3. Changed(c, Append(sent[c], m), done[c], buffer[c], wire[c] \o <<half, full>>,
                  open[c], got[c])
      BY <1>5, <1>6, Same DEF Changed
    <2>4. got[c] \in Seq(Replies) /\ Answered(done[c], got[c])
      BY <1>0 DEF LinesOK
    <2> QED
      BY <1>a, <2>2, <2>3, <2>4, OneLine
  <1>7. CASE /\ wire' = [wire EXCEPT ![c] = Append(wire[c], half)]
             /\ open' = [open EXCEPT ![c] = FALSE]
    <2>1. Written(wire[c], m, Append(wire[c], half), FALSE)
      BY <1>1, <1>3 DEF Written
    <2>2. Framed(Append(sent[c], m), done[c], buffer[c], Append(wire[c], half), FALSE)
      BY <1>2, <1>4, <2>1, FramedSend
    <2>3. Changed(c, Append(sent[c], m), done[c], buffer[c], Append(wire[c], half), FALSE, got[c])
      BY <1>5, <1>7, Same DEF Changed
    <2>4. got[c] \in Seq(Replies) /\ Answered(done[c], got[c])
      BY <1>0 DEF LinesOK
    <2> QED
      BY <2>2, <2>3, <2>4, OneLine
  <1> QED
    BY <1>5, <1>6, <1>7

LEMMA ReadLines ==
    ASSUME LinesInv, NEW c \in Clients, Read(c) PROVE LinesInv'
  <1>0. LinesOK(c) /\ open[c] \in BOOLEAN
    BY DEF LinesInv
  <1>1. PICK n \in 1 .. Len(wire[c]) :
            /\ buffer' = [buffer EXCEPT ![c] = buffer[c] \o SubSeq(wire[c], 1, n)]
            /\ wire' = [wire EXCEPT ![c] = SubSeq(wire[c], n + 1, Len(wire[c]))]
    BY DEF Read
  <1>2. UNCHANGED <<open, sent, done, got>>
    BY DEF Read
  <1>3. Framed(sent[c], done[c], buffer[c] \o SubSeq(wire[c], 1, n),
               SubSeq(wire[c], n + 1, Len(wire[c])), open[c])
    BY <1>0, FramedRead DEF LinesOK
  <1>4. Changed(c, sent[c], done[c], buffer[c] \o SubSeq(wire[c], 1, n),
                SubSeq(wire[c], n + 1, Len(wire[c])), open[c], got[c])
    BY <1>1, <1>2, Same DEF Changed
  <1>5. got[c] \in Seq(Replies) /\ Answered(done[c], got[c])
    BY <1>0 DEF LinesOK
  <1> QED
    BY <1>0, <1>3, <1>4, <1>5, OneLine

LEMMA DispatchLines ==
    ASSUME LinesInv, NEW c \in Clients, Dispatch(c) PROVE LinesInv'
  <1>0. LinesOK(c) /\ open[c] \in BOOLEAN
    BY DEF LinesInv
  <1>1. /\ done' = [done EXCEPT ![c] = Append(done[c], Line(c))]
        /\ buffer' = [buffer EXCEPT ![c] = Rest(c)]
        /\ got' = [got EXCEPT ![c] = IF Silent(Line(c)) THEN got[c]
                                     ELSE Append(got[c], Answer(Line(c)))]
        /\ UNCHANGED <<open, sent, wire>>
    BY DEF Dispatch
  <1>2. PICK i \in 1 .. Len(buffer[c]) : buffer[c][i].end
    <2>1. buffer[c] \in Seq(Piece)
      BY <1>0 DEF LinesOK, Framed
    <2>2. DOMAIN buffer[c] = 1 .. Len(buffer[c])
      BY <2>1
    <2> QED
      BY <2>2 DEF Dispatch, Complete
  <1>3. /\ Head(buffer[c]).end = FALSE /\ Head(buffer[c]).msg \in Message
        /\ Framed(sent[c], Append(done[c], Head(buffer[c]).msg), Tail(Tail(buffer[c])),
                  wire[c], open[c])
    BY <1>0, <1>2, FramedDispatch DEF LinesOK
  <1>4. Line(c) = Head(buffer[c]).msg /\ Rest(c) = Tail(Tail(buffer[c])) /\ Line(c) \in Message
    BY <1>3 DEF Line, Rest
  <1>5. done[c] \in Seq(Message) /\ got[c] \in Seq(Replies) /\ Answered(done[c], got[c])
    BY <1>0 DEF LinesOK, Framed
  <1>6. Framed(sent[c], Append(done[c], Line(c)), Rest(c), wire[c], open[c])
    BY <1>3, <1>4
  <1>7. CASE Silent(Line(c))
    <2>1. Answered(Append(done[c], Line(c)), got[c])
      BY <1>4, <1>5, <1>7, AnsweredSilent
    <2>2. Changed(c, sent[c], Append(done[c], Line(c)), Rest(c), wire[c], open[c], got[c])
      BY <1>1, <1>7, Same DEF Changed
    <2> QED
      BY <1>0, <1>5, <1>6, <2>1, <2>2, OneLine
  <1>8. CASE ~ Silent(Line(c))
    <2>1. Answer(Line(c)) \in Replies
      BY <1>4 DEF Answer, Replies, Message
    <2>2. Answered(Append(done[c], Line(c)), Append(got[c], Answer(Line(c))))
      BY <1>4, <1>5, <1>8, <2>1, AnsweredAloud
    <2>3. Append(got[c], Answer(Line(c))) \in Seq(Replies)
      BY <1>5, <2>1
    <2>4. Changed(c, sent[c], Append(done[c], Line(c)), Rest(c), wire[c], open[c],
                  Append(got[c], Answer(Line(c))))
      BY <1>1, <1>8, Same DEF Changed
    <2> QED
      BY <1>0, <1>6, <2>2, <2>3, <2>4, OneLine
  <1> QED
    BY <1>7, <1>8

LEMMA EmptyFramed == Framed(<<>>, <<>>, <<>>, <<>>, TRUE) /\ Framed(<<>>, <<>>, <<>>, <<>>, FALSE)
  BY DEF Framed

LEMMA LinesStep == LinesInv /\ [BrokerNext]_brokerVars => LinesInv'
  <1> SUFFICES ASSUME LinesInv, [BrokerNext]_brokerVars PROVE LinesInv'
    OBVIOUS
  <1>1. ASSUME UNCHANGED <<open, sent, wire, buffer, done, got>> PROVE LinesInv'
    BY <1>1 DEF LinesInv, LinesOK
  <1>2. ASSUME NEW b \in Brokers, Start(b) \/ Stop(b) \/ FinishStop(b) \/ KillBroker(b)
        PROVE  UNCHANGED <<open, sent, wire, buffer, done, got>>
    BY <1>2 DEF Start, Stop, FinishStop, KillBroker, Drop, lines
  <1>3. ASSUME NEW c \in Clients, NEW b \in Brokers, Connect(c, b) PROVE LinesInv'
    <2>1. Changed(c, <<>>, <<>>, <<>>, <<>>, TRUE, <<>>)
      BY <1>3 DEF Connect, Changed
    <2>2. <<>> \in Seq(Replies)
      OBVIOUS
    <2> QED
      BY <2>1, <2>2, OneLine, EmptyFramed, AnsweredNothing
  <1>4. ASSUME NEW c \in Clients, NEW kind \in Kinds, Send(c, kind) PROVE LinesInv'
    BY <1>4, SendLines
  <1>5. ASSUME NEW c \in Clients, Hangup(c) PROVE LinesInv'
    <2>1. LinesOK(c)
      BY DEF LinesInv
    <2>2. Framed(sent[c], done[c], buffer[c], wire[c], FALSE)
      BY <2>1 DEF LinesOK, Framed
    <2>3. open' = [open EXCEPT ![c] = FALSE] /\ UNCHANGED <<sent, wire, buffer, done, got>>
      BY <1>5 DEF Hangup
    <2>4. Changed(c, sent[c], done[c], buffer[c], wire[c], FALSE, got[c])
      BY <2>3, Same DEF Changed
    <2>5. got[c] \in Seq(Replies) /\ Answered(done[c], got[c])
      BY <2>1 DEF LinesOK
    <2> QED
      BY <2>2, <2>4, <2>5, OneLine
  <1>6. ASSUME NEW c \in Clients, Eof(c) \/ Again(c)
        PROVE  UNCHANGED <<open, sent, wire, buffer, done, got>>
    BY <1>6 DEF Eof, Again
  <1>7. ASSUME NEW c \in Clients, Handle(c) PROVE LinesInv'
    BY <1>1, <1>6, <1>7, ReadLines, DispatchLines DEF Handle
  <1>8. CASE UNCHANGED brokerVars
    BY <1>1, <1>8 DEF brokerVars, lines
  <1> QED
    BY <1>1, <1>2, <1>3, <1>4, <1>5, <1>7, <1>8 DEF BrokerNext

(* _handle_client and _process_raw_message: for any number of clients and  *)
(* lines, and however the reads cut them, every line is dispatched once    *)
(* and in order, and answered once under its own id.                       *)
THEOREM LinesAreFramed == BrokerSpec => []LinesAreAnsweredOnce
  <1>1. ASSUME BrokerInit PROVE LinesInv
    <2>1. \A c \in Clients : LinesOK(c)
      <3> SUFFICES ASSUME NEW c \in Clients PROVE LinesOK(c)
        OBVIOUS
      <3>1. /\ sent[c] = <<>> /\ done[c] = <<>> /\ buffer[c] = <<>> /\ wire[c] = <<>>
            /\ open[c] = FALSE /\ got[c] = <<>>
        BY <1>1 DEF BrokerInit
      <3>2. <<>> \in Seq(Replies)
        OBVIOUS
      <3> QED
        BY <3>1, <3>2, EmptyFramed, AnsweredNothing DEF LinesOK
    <2> QED
      BY <1>1, <2>1 DEF BrokerInit, LinesInv
  <1>2. ASSUME LinesInv PROVE LinesAreAnsweredOnce
    <2> SUFFICES ASSUME NEW c \in Clients
                 PROVE  IsPrefix(done[c], sent[c]) /\ Answered(done[c], got[c])
      BY DEF LinesAreAnsweredOnce
    <2>1. /\ done[c] \in Seq(Message) /\ sent[c] \in Seq(Message) /\ Len(done[c]) <= Len(sent[c])
          /\ \A i \in 1 .. Len(done[c]) : done[c][i] = sent[c][i]
          /\ Answered(done[c], got[c])
      BY <1>2 DEF LinesInv, LinesOK, Framed
    <2> QED
      BY <2>1 DEF IsPrefix
  <1> QED
    BY <1>1, <1>2, LinesStep, PTL DEF BrokerSpec

-----------------------------------------------------------------------------
(* The control center's window.                                            *)

Callback == [what : {"telemetry"}, read : Nat \X Nat]
                \cup [what : {"done"}, op : Operations, ok : BOOLEAN]

Dialog == [kind : {"ask", "told", "reread"}, op : Operations]

CenterTypeOK ==
    /\ dialogs \in Seq(Dialog) /\ uiQueue \in Seq(Callback)
    /\ busy \in BOOLEAN /\ closed \in BOOLEAN /\ workers \subseteq Operations /\ profile \in Nat
    /\ probe \in {<<>>, <<"reading">>} \cup {<<"listing", n>> : n \in Nat}

(* A question is only open while nothing runs and nothing waits; what runs *)
(* or waits is one operation, and the flag says so.                        *)
Waiting(q) == {i \in DOMAIN q : q[i].what = "done"}
Asking(boxes) == \E i \in DOMAIN boxes : boxes[i].kind = "ask"

Single ==
    /\ \A a, b \in workers : a = b
    /\ \A i, j \in Waiting(uiQueue) : i = j
    /\ workers = {} \/ Waiting(uiQueue) = {}
    /\ workers # {} \/ Waiting(uiQueue) # {} => busy
    /\ Asking(dialogs) => ~ busy /\ Len(dialogs) = 1

CenterInv == CenterTypeOK /\ (~ closed => Single)

LEMMA WaitingAppend ==
    ASSUME NEW q \in Seq(Callback), NEW m \in Callback
    PROVE  /\ Append(q, m) \in Seq(Callback)
           /\ m.what # "done" => Waiting(Append(q, m)) = Waiting(q)
           /\ m.what = "done" => Waiting(Append(q, m)) = Waiting(q) \cup {Len(q) + 1}
  <1> DEFINE r == Append(q, m)
  <1>1. /\ r \in Seq(Callback) /\ Len(q) \in Nat
        /\ DOMAIN r = 1 .. Len(q) + 1 /\ DOMAIN q = 1 .. Len(q)
        /\ r[Len(q) + 1] = m /\ \A i \in 1 .. Len(q) : r[i] = q[i]
    OBVIOUS
  <1> HIDE DEF r
  <1>2. DOMAIN r = DOMAIN q \cup {Len(q) + 1}
    BY <1>1
  <1>3. /\ m.what # "done" => Waiting(r) = Waiting(q)
        /\ m.what = "done" => Waiting(r) = Waiting(q) \cup {Len(q) + 1}
    BY <1>1, <1>2 DEF Waiting
  <1> QED
    BY <1>1, <1>3 DEF r

LEMMA WaitingTail ==
    ASSUME NEW q \in Seq(Callback), q # <<>>
    PROVE  /\ Tail(q) \in Seq(Callback) /\ Head(q) \in Callback
           /\ \A i \in Waiting(Tail(q)) : i + 1 \in Waiting(q) /\ i \in Nat /\ i + 1 # 1
           /\ Head(q).what = "done" => 1 \in Waiting(q)
  <1>1. Len(q) >= 1 /\ Len(q) \in Nat /\ DOMAIN q = 1 .. Len(q) /\ Head(q) = q[1]
    OBVIOUS
  <1>2. /\ Tail(q) \in Seq(Callback) /\ Len(Tail(q)) = Len(q) - 1
        /\ \A k \in 1 .. Len(q) - 1 : Tail(q)[k] = q[k + 1]
    BY <1>1, TailFacts
  <1> DEFINE t == Tail(q)
  <1>3. DOMAIN t = 1 .. Len(q) - 1
    BY <1>2
  <1> HIDE DEF t
  <1>4. /\ t \in Seq(Callback) /\ \A k \in 1 .. Len(q) - 1 : t[k] = q[k + 1]
    BY <1>2 DEF t
  <1>5. ASSUME NEW i \in Waiting(t) PROVE i + 1 \in Waiting(q) /\ i \in Nat /\ i + 1 # 1
    <2>1. i \in 1 .. Len(q) - 1 /\ t[i].what = "done"
      BY <1>3 DEF Waiting
    <2>2. i + 1 \in 1 .. Len(q) /\ i \in Nat /\ i + 1 # 1
      BY <1>1, <2>1
    <2> QED
      BY <1>1, <1>4, <2>1, <2>2 DEF Waiting
  <1>6. Head(q) \in Callback /\ (Head(q).what = "done" => 1 \in Waiting(q))
    BY <1>1 DEF Waiting
  <1> QED
    BY <1>4, <1>5, <1>6 DEF t

LEMMA Boxes ==
    ASSUME NEW boxes \in Seq(Dialog)
    PROVE  /\ \A m \in Dialog : /\ Append(boxes, m) \in Seq(Dialog)
                                /\ Asking(Append(boxes, m)) => Asking(boxes) \/ m.kind = "ask"
                                /\ boxes = <<>> => Len(Append(boxes, m)) = 1
           /\ boxes # <<>> =>
                 /\ boxes[Len(boxes)] \in Dialog
                 /\ boxes[Len(boxes)].kind = "ask" => Asking(boxes)
                 /\ SubSeq(boxes, 1, Len(boxes) - 1) \in Seq(Dialog)
                 /\ Asking(SubSeq(boxes, 1, Len(boxes) - 1)) => Asking(boxes)
                 /\ Asking(boxes) /\ Len(boxes) = 1 =>
                       /\ boxes[Len(boxes)].kind = "ask"
                       /\ ~ Asking(SubSeq(boxes, 1, Len(boxes) - 1))
           /\ ~ Asking(<<>>) /\ <<>> \in Seq(Dialog)
  <1>1. Len(boxes) \in Nat /\ DOMAIN boxes = 1 .. Len(boxes)
    OBVIOUS
  <1>2. ASSUME NEW m \in Dialog
        PROVE  /\ Append(boxes, m) \in Seq(Dialog)
               /\ Asking(Append(boxes, m)) => Asking(boxes) \/ m.kind = "ask"
               /\ boxes = <<>> => Len(Append(boxes, m)) = 1
    <2>1. /\ Append(boxes, m) \in Seq(Dialog) /\ DOMAIN Append(boxes, m) = 1 .. Len(boxes) + 1
          /\ Append(boxes, m)[Len(boxes) + 1] = m
          /\ \A i \in 1 .. Len(boxes) : Append(boxes, m)[i] = boxes[i]
      OBVIOUS
    <2> QED
      BY <1>1, <2>1 DEF Asking
  <1>3. ASSUME boxes # <<>>
        PROVE  /\ boxes[Len(boxes)] \in Dialog
               /\ boxes[Len(boxes)].kind = "ask" => Asking(boxes)
               /\ SubSeq(boxes, 1, Len(boxes) - 1) \in Seq(Dialog)
               /\ Asking(SubSeq(boxes, 1, Len(boxes) - 1)) => Asking(boxes)
               /\ Asking(boxes) /\ Len(boxes) = 1 =>
                     /\ boxes[Len(boxes)].kind = "ask"
                     /\ ~ Asking(SubSeq(boxes, 1, Len(boxes) - 1))
    <2>1. Len(boxes) \in 1 .. Len(boxes) /\ Len(boxes) - 1 \in 0 .. Len(boxes)
      BY <1>1, <1>3
    <2> DEFINE t == SubSeq(boxes, 1, Len(boxes) - 1)
    <2>2. /\ t \in Seq(Dialog) /\ DOMAIN t = 1 .. Len(boxes) - 1
          /\ \A i \in 1 .. Len(boxes) - 1 : t[i] = boxes[i]
      BY <2>1
    <2> HIDE DEF t
    <2>3. Asking(t) => Asking(boxes)
      BY <1>1, <2>2 DEF Asking
    <2>4. boxes[Len(boxes)] \in Dialog /\ (boxes[Len(boxes)].kind = "ask" => Asking(boxes))
      BY <1>1, <2>1 DEF Asking
    <2>5. Asking(boxes) /\ Len(boxes) = 1 => boxes[Len(boxes)].kind = "ask" /\ ~ Asking(t)
      BY <1>1, <2>2 DEF Asking
    <2> QED
      BY <2>2, <2>3, <2>4, <2>5 DEF t
  <1>4. ~ Asking(<<>>) /\ <<>> \in Seq(Dialog)
    BY DEF Asking
  <1> QED
    BY <1>2, <1>3, <1>4

LEMMA CenterStep == CenterInv /\ [CenterNext]_centerVars => CenterInv'
  <1> SUFFICES ASSUME CenterInv, [CenterNext]_centerVars PROVE CenterInv'
    OBVIOUS
  <1>0. CenterTypeOK /\ (~ closed => Single)
    BY DEF CenterInv
  <1>p. <<>> \in {<<>>, <<"reading">>} /\ <<"reading">> \in {<<>>, <<"reading">>}
    OBVIOUS
  <1>s. ASSUME UNCHANGED <<closed, dialogs, busy, uiQueue, workers>>, profile' \in Nat,
               probe' \in {<<>>, <<"reading">>} \cup {<<"listing", n>> : n \in Nat}
        PROVE  CenterInv'
    BY <1>0, <1>s DEF CenterInv, CenterTypeOK, Single
  <1>m. ASSUME MayMove PROVE profile' \in Nat
    BY <1>0, <1>m DEF MayMove, CenterTypeOK
  <1>1. ASSUME Refresh \/ AutoRefresh PROVE CenterInv'
    BY <1>0, <1>1, <1>s DEF Refresh, AutoRefresh, Refreshed, CenterTypeOK
  <1>2. ASSUME ReadTelemetry PROVE CenterInv'
    BY <1>0, <1>2, <1>s DEF ReadTelemetry, NoProbe, CenterTypeOK
  <1>3. ASSUME ListGenerations PROVE CenterInv'
    <2>1. PICK n \in Nat : probe = <<"listing", n>>
      <3>1. Len(probe) = 2
        BY <1>3 DEF ListGenerations
      <3>2. probe # <<>> /\ probe # <<"reading">>
        BY <3>1
      <3> QED
        BY <1>0, <3>2 DEF CenterTypeOK
    <2> DEFINE m == [what |-> "telemetry", read |-> <<n, profile>>]
    <2>2. m \in Callback /\ m.what # "done"
      BY <1>0 DEF Callback, CenterTypeOK
    <2>3. uiQueue' = Append(uiQueue, m)
      BY <1>3, <2>1 DEF ListGenerations
    <2> HIDE DEF m
    <2>4. uiQueue' \in Seq(Callback) /\ Waiting(uiQueue') = Waiting(uiQueue)
      BY <1>0, <2>2, <2>3, WaitingAppend DEF CenterTypeOK
    <2>5. UNCHANGED <<closed, dialogs, busy, workers, profile>> /\ probe' = <<>>
      BY <1>3 DEF ListGenerations, NoProbe
    <2> QED
      BY <1>0, <2>4, <2>5 DEF CenterInv, CenterTypeOK, Single
  <1>4. ASSUME NEW op \in Operations, Press(op) PROVE CenterInv'
    <2>1. ~ closed /\ ~ busy /\ workers = {} /\ Waiting(uiQueue) = {} /\ dialogs = <<>>
      BY <1>0, <1>4 DEF Press, Single
    <2>2. UNCHANGED <<closed, uiQueue, probe, profile>>
      BY <1>4 DEF Press
    <2>3. CASE op \in Confirmed
      <3> DEFINE m == [kind |-> "ask", op |-> op]
      <3>1. m \in Dialog
        BY DEF Dialog
      <3>2. dialogs' = Append(dialogs, m) /\ UNCHANGED <<busy, workers>>
        BY <1>4, <2>3 DEF Press, Box
      <3> HIDE DEF m
      <3>3. dialogs' \in Seq(Dialog) /\ Len(dialogs') = 1
        BY <2>1, <1>0, <3>1, <3>2, Boxes DEF CenterTypeOK
      <3> QED
        BY <1>0, <2>1, <2>2, <3>2, <3>3 DEF CenterInv, CenterTypeOK, Single
    <2>4. CASE op \notin Confirmed
      <3>1. busy' = TRUE /\ workers' = {op} /\ dialogs' = dialogs
        BY <1>4, <2>1, <2>4 DEF Press, Launch
      <3>2. ~ Asking(dialogs')
        BY <1>0, <2>1, <3>1, Boxes DEF CenterTypeOK
      <3> QED
        BY <1>0, <2>1, <2>2, <3>1, <3>2 DEF CenterInv, CenterTypeOK, Single
    <2> QED
      BY <2>3, <2>4
  <1>5. ASSUME Confirm PROVE CenterInv'
    <2>1. dialogs # <<>> /\ dialogs[Len(dialogs)].kind = "ask"
      BY <1>5 DEF Confirm, Top
    <2>2. /\ dialogs' = SubSeq(dialogs, 1, Len(dialogs) - 1)
          /\ UNCHANGED <<closed, uiQueue, probe, profile>>
      BY <1>5 DEF Confirm, CloseBox
    <2>3. /\ dialogs' \in Seq(Dialog) /\ (Asking(dialogs') => Asking(dialogs))
          /\ Asking(dialogs) /\ dialogs[Len(dialogs)].op \in Operations
      BY <1>0, <2>1, <2>2, Boxes DEF CenterTypeOK, Dialog
    <2>4. CASE UNCHANGED <<busy, status, workers>>
      <3>1. ~ closed => ~ Asking(dialogs')
        BY <1>0, <2>1, <2>2, <2>3, Boxes DEF CenterTypeOK, Single
      <3> QED
        BY <1>0, <2>2, <2>3, <2>4, <3>1 DEF CenterInv, CenterTypeOK, Single
    <2>5. CASE Launch(dialogs[Len(dialogs)].op)
      <3>1. busy' = TRUE /\ workers' = workers \cup {dialogs[Len(dialogs)].op}
        BY <2>5 DEF Launch
      <3>2. CenterTypeOK'
        BY <1>0, <2>2, <2>3, <3>1 DEF CenterTypeOK
      <3>3. ASSUME ~ closed PROVE Single'
        <4>1. workers = {} /\ Waiting(uiQueue) = {}
          BY <1>0, <2>3, <3>3 DEF Single
        <4>2. ~ Asking(dialogs')
          BY <1>0, <2>1, <2>2, <2>3, <3>3, Boxes DEF CenterTypeOK, Single
        <4> QED
          BY <2>2, <3>1, <4>1, <4>2 DEF Single
      <3> QED
        BY <2>2, <3>2, <3>3 DEF CenterInv
    <2> QED
      BY <1>5, <2>4, <2>5 DEF Confirm
  <1>6. ASSUME NEW op \in Operations, CommandEnds(op) PROVE CenterInv'
    <2>1. PICK ok \in BOOLEAN :
              uiQueue' = Append(uiQueue, [what |-> "done", op |-> op, ok |-> ok])
      BY <1>6 DEF CommandEnds
    <2> DEFINE m == [what |-> "done", op |-> op, ok |-> ok]
    <2>2. m \in Callback /\ m.what = "done"
      BY DEF Callback
    <2> HIDE DEF m
    <2>3. uiQueue' \in Seq(Callback) /\ Waiting(uiQueue') = Waiting(uiQueue) \cup {Len(uiQueue) + 1}
      BY <1>0, <2>1, <2>2, WaitingAppend DEF CenterTypeOK, m
    <2>4. /\ op \in workers /\ workers' = workers \ {op} /\ profile' \in Nat
          /\ UNCHANGED <<closed, dialogs, busy, probe>>
      BY <1>6, <1>m DEF CommandEnds
    <2>5. CenterTypeOK'
      BY <1>0, <2>3, <2>4 DEF CenterTypeOK
    <2>6. ASSUME ~ closed PROVE Single'
      <3>1. workers' = {} /\ Waiting(uiQueue) = {} /\ busy
        BY <1>0, <2>4, <2>6 DEF Single
      <3>2. Waiting(uiQueue') = {Len(uiQueue) + 1}
        BY <2>3, <3>1
      <3> QED
        BY <1>0, <2>4, <2>6, <3>1, <3>2 DEF Single
    <2> QED
      BY <2>4, <2>5, <2>6 DEF CenterInv
  <1>7. ASSUME NEW op \in Operations, CommandMissing(op) PROVE CenterInv'
    <2>1. /\ workers' = workers \ {op}
          /\ UNCHANGED <<closed, dialogs, busy, uiQueue, probe, profile>>
      BY <1>7 DEF CommandMissing
    <2> QED
      BY <1>0, <2>1 DEF CenterInv, CenterTypeOK, Single
  <1>8. ASSUME Poll, uiQueue' = Tail(uiQueue)
        PROVE  /\ uiQueue' \in Seq(Callback) /\ ~ closed /\ Single
               /\ \A i \in Waiting(uiQueue') : i + 1 \in Waiting(uiQueue) /\ i \in Nat /\ i + 1 # 1
               /\ Head(uiQueue).what = "done" => 1 \in Waiting(uiQueue)
               /\ Head(uiQueue) \in Callback
    BY <1>0, <1>8, WaitingTail DEF Poll, CenterTypeOK
  <1>9. ASSUME ApplyTelemetry PROVE CenterInv'
    <2>1. /\ Poll /\ uiQueue' = Tail(uiQueue)
          /\ UNCHANGED <<closed, dialogs, busy, workers, probe, profile>>
      BY <1>9 DEF ApplyTelemetry
    <2>2. /\ \A i, j \in Waiting(uiQueue') : i = j
          /\ Waiting(uiQueue') # {} => Waiting(uiQueue) # {}
      BY <1>8, <2>1 DEF Single
    <2> QED
      BY <1>0, <1>8, <2>1, <2>2 DEF CenterInv, CenterTypeOK, Single
  <1>10. ASSUME Done PROVE CenterInv'
    <2>1. /\ Poll /\ uiQueue' = Tail(uiQueue) /\ busy' = FALSE /\ Head(uiQueue).what = "done"
          /\ UNCHANGED <<closed, workers, probe, profile>>
      BY <1>10 DEF Done
    <2>2. Waiting(uiQueue') = {} /\ workers = {}
      BY <1>8, <2>1 DEF Single
    <2>3. dialogs' = dialogs \/ \E kind \in {"told", "reread"} :
              dialogs' = Append(dialogs, [kind |-> kind, op |-> Head(uiQueue).op])
      BY <1>10 DEF Done, Box
    <2>4. Head(uiQueue).op \in Operations
      BY <1>8, <2>1 DEF Callback
    <2>5. dialogs' \in Seq(Dialog) /\ ~ Asking(dialogs')
      <3>1. \A kind \in {"told", "reread"} : [kind |-> kind, op |-> Head(uiQueue).op] \in Dialog
        BY <2>4 DEF Dialog
      <3>2. ~ Asking(dialogs)
        BY <1>8, <2>1 DEF Single
      <3>3. CASE dialogs' = dialogs
        BY <1>0, <3>2, <3>3 DEF CenterTypeOK
      <3>4. ASSUME NEW kind \in {"told", "reread"},
                   dialogs' = Append(dialogs, [kind |-> kind, op |-> Head(uiQueue).op])
            PROVE  dialogs' \in Seq(Dialog) /\ ~ Asking(dialogs')
        <4> DEFINE m == [kind |-> kind, op |-> Head(uiQueue).op]
        <4>1. m \in Dialog /\ m.kind # "ask"
          BY <3>1
        <4>2. dialogs \in Seq(Dialog) /\ dialogs' = Append(dialogs, m)
          BY <1>0, <3>4 DEF CenterTypeOK
        <4> HIDE DEF m
        <4> QED
          BY <3>2, <4>1, <4>2, Boxes
      <3> QED
        BY <2>3, <3>3, <3>4
    <2> QED
      BY <1>0, <1>8, <2>1, <2>2, <2>5 DEF CenterInv, CenterTypeOK, Single
  <1>11. ASSUME Dismiss PROVE CenterInv'
    <2>1. /\ dialogs # <<>> /\ dialogs' = SubSeq(dialogs, 1, Len(dialogs) - 1)
          /\ dialogs[Len(dialogs)].kind # "ask"
          /\ UNCHANGED <<closed, busy, uiQueue, workers, profile>>
      BY <1>11 DEF Dismiss, Top, CloseBox
    <2>2. probe' = probe \/ probe' = <<"reading">>
      BY <1>11 DEF Dismiss, Refreshed
    <2>3. dialogs' \in Seq(Dialog) /\ (~ closed => ~ Asking(dialogs'))
      BY <1>0, <2>1, Boxes DEF CenterTypeOK, Single
    <2> QED
      BY <1>0, <2>1, <2>2, <2>3 DEF CenterInv, CenterTypeOK, Single
  <1>12. ASSUME CloseWindow PROVE CenterInv'
    BY <1>0, <1>12 DEF CloseWindow, NoProbe, CenterInv, CenterTypeOK
  <1>13. ASSUME OpenWindow PROVE CenterInv'
    <2>1. /\ dialogs' = <<>> /\ busy' = FALSE /\ uiQueue' = <<>> /\ workers' = {}
          /\ closed' = FALSE /\ probe' = <<"reading">> /\ profile' = profile
      BY <1>13 DEF OpenWindow
    <2>2. ~ Asking(<<>>) /\ Waiting(<<>>) = {} /\ <<>> \in Seq(Dialog) /\ <<>> \in Seq(Callback)
      BY DEF Asking, Waiting
    <2> QED
      BY <1>0, <2>1, <2>2 DEF CenterInv, CenterTypeOK, Single
  <1>14. ASSUME NEW op \in Operations, OrphanEnds(op) PROVE CenterInv'
    BY <1>0, <1>14, <1>m, <1>s DEF OrphanEnds, guts, CenterTypeOK
  <1>15. ASSUME CliStart \/ CliStep PROVE CenterInv'
    BY <1>0, <1>15, <1>m, <1>s DEF CliStart, CliStep, guts, CenterTypeOK
  <1>16. CASE UNCHANGED centerVars
    BY <1>0, <1>16, <1>s DEF centerVars, guts, CenterTypeOK
  <1> QED
    BY <1>1, <1>2, <1>3, <1>4, <1>5, <1>6, <1>7, <1>9, <1>10, <1>11, <1>12, <1>13, <1>14, <1>15,
       <1>16 DEF CenterNext

(* NeuronixCenterApp.is_busy, on_upgrade, on_rollback, on_diet,            *)
(* on_check_update and _process_queue: one operation of a window at a      *)
(* time, for any number of presses, message boxes and windows.             *)
THEOREM OneAtATime == CenterSpec => []OneOperation
  <1>1. ASSUME CenterInit PROVE CenterInv
    <2>1. dialogs \in Seq(Dialog) /\ uiQueue \in Seq(Callback) /\ probe = <<>>
      BY <1>1 DEF CenterInit, NoProbe
    <2> QED
      BY <1>1, <2>1 DEF CenterInit, CenterInv, CenterTypeOK
  <1>2. ASSUME CenterInv PROVE OneOperation
    <2> SUFFICES ASSUME ~ closed
                 PROVE  /\ Cardinality(workers) + Cardinality(Waiting(uiQueue)) <= 1
                        /\ workers # {} \/ Waiting(uiQueue) # {} => busy
      BY DEF OneOperation, Waiting
    <2>1. Single
      BY <1>2 DEF CenterInv
    <2>2. workers = {} \/ \E x : workers = {x}
      BY <2>1 DEF Single
    <2>3. Waiting(uiQueue) = {} \/ \E x : Waiting(uiQueue) = {x}
      BY <2>1 DEF Single
    <2>4. Cardinality({}) = 0 /\ \A x : Cardinality({x}) = 1
      BY FS_EmptySet, FS_Singleton
    <2>5. /\ Cardinality(workers) \in {0, 1} /\ Cardinality(Waiting(uiQueue)) \in {0, 1}
          /\ Cardinality(workers) = 0 \/ Cardinality(Waiting(uiQueue)) = 0
      BY <2>1, <2>2, <2>3, <2>4 DEF Single
    <2> QED
      BY <2>1, <2>5 DEF Single
  <1> QED
    BY <1>1, <1>2, CenterStep, PTL DEF CenterSpec

=============================================================================
