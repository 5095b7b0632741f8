------------------------- MODULE CommandServiceProofs -------------------------
(***************************************************************************)
(* What CommandSession promises its user, for any number of commands,      *)
(* connects, threads and tries: a bound on executions, successes that are  *)
(* backed by an execution, and the refinement of CommandService.           *)
(***************************************************************************)
EXTENDS CommandSessionProofs, FiniteSetTheorems

-----------------------------------------------------------------------------
(* How often a command is executed.  What counts is how often it was sent:  *)
(* the executions and the copies that still wait at the box.                *)

\* The places at which command c waits, on any socket.
Waiting(c) ==
    {p \in Connects \X (Nat \ {0}) :
        p[2] <= Len(toBox[p[1]]) /\ toBox[p[1]][p[2]] = c}

Sent(c) == exec[c] + Cardinality(Waiting(c))

\* One copy at most for each try.
SentInv ==
    \A c \in Cmds :
        /\ IsFiniteSet(Waiting(c))
        /\ Sent(c) <= MaxTries
        /\ status[c] \in {"new", "dropped", "queued"} => Sent(c) = 0
        /\ \A w \in Workers : cur[w] = c =>
             /\ pc[w] \in {"check", "connected", "call", "take", "danceSend"} => Sent(c) = 0
             /\ pc[w] = "send" => Sent(c) <= tries[w]
             /\ pc[w] = "read" => Sent(c) <= tries[w] + 1

LEMMA InitSentInv == Init => SentInv
<1> SUFFICES ASSUME Init PROVE SentInv OBVIOUS
<1>1. \A k \in Connects : Len(toBox[k]) = 0
  BY DEF Init
<1>2. \A c \in Cmds : Waiting(c) = {}
  BY <1>1 DEF Waiting
<1>3. \A c \in Cmds : exec[c] = 0 /\ Sent(c) = 0 /\ IsFiniteSet(Waiting(c))
  <2>1. IsFiniteSet({}) /\ Cardinality({}) = 0
    BY FS_EmptySet
  <2>2. \A c \in Cmds : exec[c] = 0
    BY DEF Init
  <2>3. ASSUME NEW c \in Cmds
        PROVE  exec[c] = 0 /\ Cardinality(Waiting(c)) = 0 /\ IsFiniteSet(Waiting(c))
    <3>1. Waiting(c) = {}
      BY <1>2
    <3> QED BY <2>1, <2>2, <3>1
  <2> SUFFICES ASSUME NEW c \in Cmds PROVE exec[c] = 0 /\ Sent(c) = 0 /\ IsFiniteSet(Waiting(c))
    OBVIOUS
  <2>4. exec[c] = 0 /\ Cardinality(Waiting(c)) = 0 /\ IsFiniteSet(Waiting(c))
    BY <2>3
  <2> QED BY <2>4 DEF Sent
<1>4. \A w \in Workers : pc[w] = "idle"
  BY DEF Init
<1>5. 0 <= MaxTries
  BY CommandSessionAssumption
<1> QED BY <1>3, <1>4, <1>5 DEF SentInv

\* What a step that neither sends nor executes leaves as it was.
SameWire == UNCHANGED <<toBox, exec>>

LEMMA SentFrame == SameWire => \A c : Waiting(c)' = Waiting(c) /\ Sent(c)' = Sent(c)
  BY DEF SameWire, Waiting, Sent

LEMMA SentType ==
  ASSUME TypeInv, SentInv
  PROVE  \A c \in Cmds : /\ Cardinality(Waiting(c)) \in Nat
                         /\ exec[c] \in Nat
                         /\ Sent(c) \in Nat
<1> SUFFICES ASSUME NEW c \in Cmds
             PROVE  Cardinality(Waiting(c)) \in Nat /\ exec[c] \in Nat /\ Sent(c) \in Nat
  OBVIOUS
<1>1. IsFiniteSet(Waiting(c))
  BY DEF SentInv
<1>2. Cardinality(Waiting(c)) \in Nat
  BY <1>1, FS_CardinalityType
<1>3. exec[c] \in Nat
  BY DEF TypeInv, TypeOK, WireTypes
<1> QED BY <1>2, <1>3 DEF Sent

(* A package that reaches the box is one more copy of its command.           *)
LEMMA DeliverSent ==
  ASSUME TypeInv, SentInv, NEW w \in Workers, cur[w] \in Cmds, NEW k \in Connects,
         toBox' = Deliver(w, k), UNCHANGED exec
  PROVE  \A c \in Cmds :
           /\ IsFiniteSet(Waiting(c)')
           /\ Sent(c)' <= Sent(c) + (IF c = cur[w] THEN 1 ELSE 0)
<1> SUFFICES ASSUME NEW c \in Cmds
             PROVE  /\ IsFiniteSet(Waiting(c)')
                    /\ Sent(c)' <= Sent(c) + (IF c = cur[w] THEN 1 ELSE 0)
  OBVIOUS
<1>1. toBox \in [Connects -> Seq(Cmds)]
  BY DEF TypeInv, TypeOK, WireTypes
<1>2. IsFiniteSet(Waiting(c)) /\ Cardinality(Waiting(c)) \in Nat /\ exec[c] \in Nat
  BY SentType DEF SentInv
<1> DEFINE new == <<k, Len(toBox[k]) + 1>>
<1>3. Waiting(c)' \subseteq Waiting(c) \cup (IF c = cur[w] THEN {new} ELSE {})
  <2> SUFFICES ASSUME NEW p \in Connects \X (Nat \ {0}), p[2] <= Len(toBox'[p[1]]), toBox'[p[1]][p[2]] = c
               PROVE  (p[2] <= Len(toBox[p[1]]) /\ toBox[p[1]][p[2]] = c) \/ (c = cur[w] /\ p = new)
    BY DEF Waiting
  <2>1. CASE p[1] # k \/ conn[k] # "up"
    BY <1>1, <2>1 DEF Deliver
  <2>2. CASE p[1] = k /\ conn[k] = "up"
    <3>1. toBox'[k] = Append(toBox[k], cur[w]) /\ toBox[k] \in Seq(Cmds)
      BY <1>1, <2>2 DEF Deliver
    <3>2. CASE p[2] <= Len(toBox[k])
      BY <2>2, <3>1, <3>2
    <3>3. CASE p[2] > Len(toBox[k])
      <4>1. p[2] = Len(toBox[k]) + 1 /\ c = cur[w]
        BY <2>2, <3>1, <3>3
      <4>2. p = <<p[1], p[2]>>
        OBVIOUS
      <4> QED BY <2>2, <4>1, <4>2
    <3> QED BY <3>2, <3>3, <3>1, <2>2
  <2> QED BY <2>1, <2>2
<1>4. CASE c = cur[w]
  <2>1. /\ IsFiniteSet(Waiting(c) \cup {new})
        /\ Cardinality(Waiting(c) \cup {new}) <= Cardinality(Waiting(c)) + 1
    <3>1. IsFiniteSet(Waiting(c))
      BY <1>2
    <3>2. /\ IsFiniteSet(Waiting(c) \cup {new})
          /\ Cardinality(Waiting(c) \cup {new}) =
               IF new \in Waiting(c) THEN Cardinality(Waiting(c)) ELSE Cardinality(Waiting(c)) + 1
      BY <3>1, FS_AddElement, Zenon
    <3> HIDE DEF new
    <3> QED BY <1>2, <3>2
  <2>2. IsFiniteSet(Waiting(c)') /\ Cardinality(Waiting(c)') <= Cardinality(Waiting(c) \cup {new})
    BY <1>3, <1>4, <2>1, FS_Subset
  <2>3. Cardinality(Waiting(c)') \in Nat /\ Cardinality(Waiting(c) \cup {new}) \in Nat
    BY <2>1, <2>2, FS_CardinalityType
  <2> QED BY <1>2, <1>4, <2>1, <2>2, <2>3 DEF Sent
<1>5. CASE c # cur[w]
  <2>1. IsFiniteSet(Waiting(c)') /\ Cardinality(Waiting(c)') <= Cardinality(Waiting(c))
    BY <1>2, <1>3, <1>5, FS_Subset
  <2>2. Cardinality(Waiting(c)') \in Nat
    BY <2>1, FS_CardinalityType
  <2> QED BY <1>2, <1>5, <2>1, <2>2 DEF Sent
<1> QED BY <1>4, <1>5

(* The box turns a waiting copy into an execution.                           *)
LEMMA ExecuteSent ==
  ASSUME TypeInv, SentInv, NEW k \in Connects, BoxExecutes(k)
  PROVE  \A c \in Cmds : IsFiniteSet(Waiting(c)') /\ Sent(c)' <= Sent(c)
<1> SUFFICES ASSUME NEW c \in Cmds PROVE IsFiniteSet(Waiting(c)') /\ Sent(c)' <= Sent(c)
  OBVIOUS
<1>1. toBox \in [Connects -> Seq(Cmds)] /\ toBox[k] \in Seq(Cmds) /\ toBox[k] # <<>>
  BY DEF TypeInv, TypeOK, WireTypes, BoxExecutes
<1>2. IsFiniteSet(Waiting(c)) /\ Cardinality(Waiting(c)) \in Nat /\ exec[c] \in Nat
  BY SentType DEF SentInv
<1>3. toBox' = [toBox EXCEPT ![k] = Tail(@)] /\ exec' = [exec EXCEPT ![Head(toBox[k])] = @ + 1]
  BY DEF BoxExecutes
<1>4. /\ Len(toBox[k]) \in Nat \ {0} /\ Head(toBox[k]) = toBox[k][1] /\ Head(toBox[k]) \in Cmds
      /\ Tail(toBox[k]) \in Seq(Cmds) /\ Len(Tail(toBox[k])) = Len(toBox[k]) - 1
      /\ \A i \in 1 .. Len(toBox[k]) - 1 : Tail(toBox[k])[i] = toBox[k][i + 1]
  BY <1>1
<1> DEFINE first == <<k, 1>>
           Place(p) == IF p[1] = k THEN <<k, p[2] + 1>> ELSE p
           moved == [p \in Waiting(c)' |-> Place(p)]
<1>5. \A p \in Waiting(c)' : Place(p) \in Waiting(c) \ {first}
  <2> SUFFICES ASSUME NEW p \in Waiting(c)' PROVE Place(p) \in Waiting(c) \ {first}
    OBVIOUS
  <2>1. p \in Connects \X (Nat \ {0}) /\ p[2] <= Len(toBox'[p[1]]) /\ toBox'[p[1]][p[2]] = c
    BY DEF Waiting
  <2>2. CASE p[1] = k
    <3>1. toBox'[k] = Tail(toBox[k])
      BY <1>1, <1>3
    <3>2. p[2] \in 1 .. Len(toBox[k]) - 1
      BY <1>4, <2>1, <2>2, <3>1
    <3>3. p[2] + 1 \in Nat \ {0} /\ p[2] + 1 # 1 /\ p[2] + 1 <= Len(toBox[k]) /\ toBox[k][p[2] + 1] = c
      BY <1>4, <2>1, <2>2, <3>1, <3>2
    <3> QED BY <2>2, <3>3 DEF Waiting
  <2>3. CASE p[1] # k
    BY <1>1, <1>3, <2>1, <2>3 DEF Waiting
  <2> QED BY <2>2, <2>3
<1>6. \A p, q \in Waiting(c)' : Place(p) = Place(q) => p = q
  <2> SUFFICES ASSUME NEW p \in Waiting(c)', NEW q \in Waiting(c)', Place(p) = Place(q) PROVE p = q
    OBVIOUS
  <2>1. p \in Connects \X (Nat \ {0}) /\ q \in Connects \X (Nat \ {0})
    BY DEF Waiting
  <2>2. Place(p)[1] = p[1] /\ Place(q)[1] = q[1]
    BY <2>1
  <2>3. p[1] = q[1]
    BY <2>2
  <2>4. p[2] = q[2]
    BY <2>1, <2>3
  <2> QED BY <2>1, <2>3, <2>4
<1>7. moved \in Injection(Waiting(c)', Waiting(c) \ {first})
  <2>1. moved \in [Waiting(c)' -> Waiting(c) \ {first}]
    BY <1>5
  <2>2. \A p, q \in Waiting(c)' : moved[p] = moved[q] => p = q
    BY <1>6
  <2> HIDE DEF moved
  <2> QED BY <2>1, <2>2 DEF Injection, IsInjective
<1>8. IsFiniteSet(Waiting(c) \ {first})
  BY <1>2, FS_RemoveElement
<1>9. IsFiniteSet(Waiting(c)') /\ Cardinality(Waiting(c)') <= Cardinality(Waiting(c) \ {first})
  BY <1>7, <1>8, FS_Injection
<1>10. Cardinality(Waiting(c)') \in Nat /\ Cardinality(Waiting(c) \ {first}) \in Nat
  BY <1>8, <1>9, FS_CardinalityType
<1>11. CASE c = Head(toBox[k])
  <2>1. first \in Waiting(c)
    BY <1>4, <1>11 DEF Waiting
  <2>2. Cardinality(Waiting(c) \ {first}) = Cardinality(Waiting(c)) - 1
    BY <1>2, <2>1, FS_RemoveElement
  <2>3. exec'[c] = exec[c] + 1
    BY <1>3, <1>11 DEF TypeInv, TypeOK, WireTypes
  <2> QED BY <1>2, <1>9, <1>10, <2>2, <2>3 DEF Sent
<1>12. CASE c # Head(toBox[k])
  <2>1. Cardinality(Waiting(c) \ {first}) <= Cardinality(Waiting(c))
    <3>1. Waiting(c) \ {first} \in SUBSET Waiting(c)
      OBVIOUS
    <3> HIDE DEF first
    <3> QED BY <1>2, <3>1, FS_Subset
  <2>2. exec'[c] = exec[c]
    BY <1>3, <1>12 DEF TypeInv, TypeOK, WireTypes
  <2> QED BY <1>2, <1>9, <1>10, <2>1, <2>2 DEF Sent
<1> QED BY <1>11, <1>12

(* What a worker's step must leave of the invariant when only its own command *)
(* can have been sent once more.                                              *)
LEMMA SentFromOwn ==
  ASSUME TypeInv, WireInv, TaskInv, SentInv, NEW w \in Workers, Busy(w), NEW own \in Cmds, own = cur[w],
         \A v \in Workers : v # w => pc'[v] \in {"idle", "dead"},
         \A c \in Cmds \ {own} : status'[c] = status[c],
         status'[own] \in {"running", "posted"},
         cur'[w] \in {own, None},
         \A c \in Cmds : IsFiniteSet(Waiting(c)') /\ (c # own => Sent(c)' <= Sent(c)),
         \A c \in Cmds : Sent(c)' \in Nat,
         Sent(own)' <= MaxTries,
         pc'[w] \in {"check", "connected", "call", "take", "danceSend"} => Sent(own)' = 0,
         pc'[w] = "send" => Sent(own)' <= tries'[w],
         pc'[w] = "read" => Sent(own)' <= tries'[w] + 1
  PROVE  SentInv'
<1>1. None \notin Cmds
  BY CommandSessionAssumption DEF Tasks
<1> SUFFICES ASSUME NEW c \in Cmds
    PROVE  /\ IsFiniteSet(Waiting(c)')
           /\ Sent(c)' <= MaxTries
           /\ status'[c] \in {"new", "dropped", "queued"} => Sent(c)' = 0
           /\ \A v \in Workers : cur'[v] = c =>
                /\ pc'[v] \in {"check", "connected", "call", "take", "danceSend"} => Sent(c)' = 0
                /\ pc'[v] = "send" => Sent(c)' <= tries'[v]
                /\ pc'[v] = "read" => Sent(c)' <= tries'[v] + 1
  BY DEF SentInv
<1>2. Sent(c) \in Nat /\ Sent(c)' \in Nat /\ MaxTries \in Nat
  BY SentType, CommandSessionAssumption
<1>3. Sent(c) <= MaxTries /\ (status[c] \in {"new", "dropped", "queued"} => Sent(c) = 0)
  BY DEF SentInv
<1>4. CASE c = own
  <2>1. IsFiniteSet(Waiting(c)') /\ Sent(c)' <= MaxTries
    BY <1>4
  <2>2. status'[c] \in {"running", "posted"}
    BY <1>4
  <2>3. ASSUME NEW v \in Workers
        PROVE  /\ pc'[v] \in {"check", "connected", "call", "take", "danceSend"} => Sent(c)' = 0
               /\ pc'[v] = "send" => Sent(c)' <= tries'[v]
               /\ pc'[v] = "read" => Sent(c)' <= tries'[v] + 1
    BY <1>4
  <2> QED BY <2>1, <2>2, <2>3
<1>5. CASE c # own
  <2>1. IsFiniteSet(Waiting(c)') /\ Sent(c)' <= Sent(c)
    BY <1>5
  <2>2. status'[c] = status[c]
    BY <1>5
  <2>3. \A v \in Workers : cur'[v] = c => pc'[v] \in {"idle", "dead"}
    BY <1>1, <1>5
  <2> QED BY <1>2, <1>3, <2>1, <2>2, <2>3
<1> QED BY <1>4, <1>5

(* A step of a connect sends no command.                                      *)
LEMMA ConnectSentInv ==
  ASSUME TypeInv, WireInv, TaskInv, SentInv, NEW w \in Workers, ConnectStep(w), ~Crash
  PROVE  SentInv'
<1>1. SameWire
  BY DEF SameWire, wireVars, ConnectStep, ConnectCheck, ConnectIsConnected, NewSocket, StartConnect,
     ConnectSucceeds, ConnectFails, SetSoTimeout, Handshake, ConnectNull
<1>2. \A v \in Workers : v # w => pc'[v] \in {"idle", "dead"}
  BY OthersIdle
<1>3. pc'[w] \in AllConnectPcs \cup {"idle"}
  BY DEF TypeInv, TypeOK, WorkerTypes, ConnectStep, ConnectCheck, ConnectIsConnected, NewSocket,
     StartConnect, ConnectSucceeds, ConnectFails, SetSoTimeout, Handshake, ConnectNull, Return,
     ForgetLocals, Goto, AllConnectPcs, ConnectPcs
<1>4. cur[w] \in Connects
  BY DEF TypeInv, PcInv, AllConnectPcs, ConnectPcs, ConnectStep, ConnectCheck, ConnectIsConnected,
     NewSocket, StartConnect, ConnectSucceeds, ConnectFails, SetSoTimeout, Handshake, ConnectNull
<1>5. \A c \in Cmds : status'[c] = status[c]
  <2>1. UNCHANGED status \/ status' = [status EXCEPT ![cur[w]] = "posted"]
    BY DEF ConnectStep, ConnectCheck, ConnectIsConnected, NewSocket,
     StartConnect, ConnectSucceeds, ConnectFails, SetSoTimeout, Handshake, ConnectNull, Return,
       NotReturning
  <2>2. \A c \in Cmds : c # cur[w]
    BY <1>4, CommandSessionAssumption
  <2> QED BY <2>1, <2>2 DEF TypeInv, TypeOK, TaskTypes, Tasks
<1>6. \A v \in Workers : pc'[v] \notin {"check", "connected", "call", "take", "danceSend", "send", "read"}
  BY <1>2, <1>3 DEF AllConnectPcs, ConnectPcs
<1> QED BY <1>1, <1>5, <1>6, SentFrame DEF SentInv
(* A step of an exchange: only a send adds a copy, and each try sends once.   *)
LEMMA ExchangeSentInv ==
  ASSUME TypeInv, WireInv, TaskInv, SentInv, NEW w \in Workers, ExchangeStep(w), ~Crash
  PROVE  SentInv'
<1> DEFINE own == cur[w]
<1>1. \A v \in Workers : v # w => pc'[v] \in {"idle", "dead"}
  BY OthersIdle
<1>2. Busy(w)
  BY WorkerFrame
<1>3. own \in Cmds
  BY DEF TypeInv, PcInv, CommandPcs, ExchangePcs, ExchangeStep, CheckSocket, CheckConnected,
     CheckConnectedNull, CallExchange, TakeLock, SendPackage, WriteFails, ReadFails, ReadReply, ReadEnd,
     GiveUp, CloseSocket, CloseSocketNull, DropSocket, DanceSend, DanceRead
<1>4. status[own] = "running"
  BY <1>2 DEF TaskInv, RunInv
<1>5. /\ \A c \in Cmds \ {own} : status'[c] = status[c]
      /\ status'[own] \in {"running", "posted"}
      /\ cur'[w] \in {own, None}
  <2>1. \/ UNCHANGED <<status, cur>>
        \/ /\ status' = [status EXCEPT ![cur[w]] = "posted"]
           /\ cur' = [cur EXCEPT ![w] = None]
    BY DEF ExchangeStep, CheckSocket, CheckConnected, CheckConnectedNull, CallExchange, TakeLock,
       SendPackage, WriteFails, ReadFails, FailTry, ReadReply, ReadEnd, GiveUp, CloseSocket,
       CloseSocketNull, DropSocket, DanceSend, DanceRead, Return, ForgetLocals, NotReturning
  <2> QED BY <1>3, <1>4, <2>1 DEF TypeInv, TypeOK, TaskTypes, WorkerTypes, Tasks
<1>6. Sent(own) \in Nat /\ Sent(own) <= MaxTries /\ MaxTries \in Nat \ {0}
  BY <1>3, SentType, CommandSessionAssumption DEF SentInv
<1>7. /\ pc[w] \in {"check", "connected", "call", "take", "danceSend"} => Sent(own) = 0
      /\ pc[w] = "send" => Sent(own) <= tries[w]
      /\ pc[w] = "read" => Sent(own) <= tries[w] + 1
  BY <1>3 DEF SentInv
<1>8. tries[w] \in Nat /\ (pc[w] \in {"send", "read"} => tries[w] < MaxTries)
  BY DEF TypeInv, PcInv, TypeOK, WorkerTypes, TriedAllPcs
<1>9. CASE SameWire /\ ~SendPackage(w) /\ ~(DanceSend(w) /\ pc'[w] = "danceRead")
  <2> SUFFICES /\ pc'[w] \in {"check", "connected", "call", "take", "danceSend"} =>
                    pc[w] \in {"check", "connected", "call", "take", "danceSend"}
               /\ pc'[w] = "send" => pc[w] = "take" \/ (pc[w] \in {"send", "read"} /\ tries'[w] = tries[w] + 1)
               /\ pc'[w] # "read"
               /\ tries'[w] \in Nat
    <3>1. ASSUME NEW c \in Cmds
          PROVE  IsFiniteSet(Waiting(c)') /\ Sent(c)' \in Nat /\ Sent(c)' = Sent(c)
      <4>1. IsFiniteSet(Waiting(c)) /\ Sent(c) \in Nat
        BY SentType DEF SentInv
      <4>2. Waiting(c)' = Waiting(c) /\ Sent(c)' = Sent(c)
        BY <1>9, SentFrame
      <4> QED BY <4>1, <4>2
    <3>2. PICK o \in Cmds : o = cur[w]
      BY <1>3
    <3>3. Sent(o)' = Sent(o) /\ Sent(o) = Sent(own)
      BY <3>1, <3>2
    <3>4. Sent(o)' <= MaxTries
      BY <1>6, <3>3
    <3>5. pc'[w] \in {"check", "connected", "call", "take", "danceSend"} => Sent(o)' = 0
      BY <1>7, <3>3
    <3>6. pc'[w] = "send" => Sent(o)' <= tries'[w]
      BY <1>6, <1>7, <1>8, <3>3
    <3>7. \A c \in Cmds : IsFiniteSet(Waiting(c)') /\ (c # o => Sent(c)' <= Sent(c))
      <4> SUFFICES ASSUME NEW c \in Cmds PROVE IsFiniteSet(Waiting(c)') /\ (c # o => Sent(c)' <= Sent(c))
        OBVIOUS
      <4>1. IsFiniteSet(Waiting(c)') /\ Sent(c)' \in Nat /\ Sent(c)' = Sent(c)
        BY <3>1
      <4> QED BY <4>1
    <3>8. \A c \in Cmds : Sent(c)' \in Nat
      BY <3>1
    <3> QED BY <1>1, <1>2, <1>5, <3>2, <3>4, <3>5, <3>6, <3>7, <3>8, SentFromOwn
  <2> USE DEF TypeInv, TypeOK, WorkerTypes, Goto, Return, ForgetLocals
  <2>1. CASE CheckSocket(w) \/ CheckConnected(w) \/ CallExchange(w) \/ TakeLock(w)
    BY <1>3, <1>8, <2>1 DEF CheckSocket, CheckConnected, CallExchange, TakeLock
  <2>2. CASE WriteFails(w) \/ ReadFails(w)
    BY <1>8, <2>2 DEF WriteFails, ReadFails, FailTry
  <2>3. CASE ReadReply(w) \/ ReadEnd(w) \/ DropSocket(w) \/ DanceRead(w) \/ GiveUp(w) \/ CloseSocket(w)
    BY <1>8, <2>3 DEF ReadReply, ReadEnd, DropSocket, DanceRead, GiveUp, CloseSocket
  <2>4. CASE CheckConnectedNull(w) \/ CloseSocketNull(w)
    BY <2>4 DEF CheckConnectedNull, CloseSocketNull
  <2>5. CASE DanceSend(w)
    BY <1>8, <1>9, <2>5 DEF DanceSend
  <2> QED BY <1>9, <2>1, <2>2, <2>3, <2>4, <2>5 DEF ExchangeStep
<1>10. CASE SendPackage(w) \/ (DanceSend(w) /\ pc'[w] = "danceRead")
  <2>1. \E k \in Connects : toBox' = Deliver(w, k) /\ UNCHANGED exec
    BY <1>10, CommandSessionAssumption DEF SendPackage, DanceSend, Writable, TypeInv, TypeOK, SocketTypes,
       WorkerTypes, Return, ForgetLocals
  <2>2. PICK o \in Cmds : o = cur[w]
    BY <1>3
  <2>3. ASSUME NEW c \in Cmds
        PROVE  IsFiniteSet(Waiting(c)') /\ Sent(c)' <= Sent(c) + (IF c = o THEN 1 ELSE 0)
    BY <1>3, <2>1, <2>2, DeliverSent
  <2>4. ASSUME NEW c \in Cmds
        PROVE  IsFiniteSet(Waiting(c)') /\ Sent(c)' \in Nat /\ (c # o => Sent(c)' <= Sent(c))
    <3>1. Sent(c) \in Nat
      BY SentType
    <3>2. IsFiniteSet(Waiting(c)')
      BY <2>3
    <3>3. exec'[c] \in Nat
      BY <2>1 DEF TypeInv, TypeOK, WireTypes
    <3>4. Cardinality(Waiting(c)') \in Nat
      BY <3>2, FS_CardinalityType
    <3>5. Sent(c)' \in Nat
      BY <3>3, <3>4 DEF Sent
    <3> QED BY <2>3, <3>1, <3>2, <3>5
  <2>5. Sent(o)' <= Sent(own) + 1 /\ Sent(o)' \in Nat
    BY <2>2, <2>3, <2>4
  <2>6. /\ pc'[w] \in {"read", "danceRead"}
        /\ Sent(o)' <= MaxTries
        /\ pc'[w] = "read" => Sent(o)' <= tries'[w] + 1
    <3>1. CASE SendPackage(w)
      <4>1. pc[w] = "send" /\ pc'[w] = "read" /\ tries' = tries
        BY <3>1 DEF SendPackage, Goto, TypeInv, TypeOK, WorkerTypes
      <4> QED BY <1>6, <1>7, <1>8, <2>5, <4>1
    <3>2. CASE DanceSend(w) /\ pc'[w] = "danceRead"
      <4>1. pc[w] = "danceSend"
        BY <3>2 DEF DanceSend
      <4> QED BY <1>6, <1>7, <2>5, <3>2, <4>1
    <3> QED BY <1>10, <3>1, <3>2
  <2>7. \A c \in Cmds : IsFiniteSet(Waiting(c)') /\ (c # o => Sent(c)' <= Sent(c))
    <3> SUFFICES ASSUME NEW c \in Cmds PROVE IsFiniteSet(Waiting(c)') /\ (c # o => Sent(c)' <= Sent(c))
      OBVIOUS
    <3> QED BY <2>4
  <2>8. \A c \in Cmds : Sent(c)' \in Nat
    BY <2>4
  <2> QED BY <1>1, <1>2, <1>5, <2>2, <2>6, <2>7, <2>8, SentFromOwn
<1>11. SameWire \/ SendPackage(w) \/ (DanceSend(w) /\ pc'[w] = "danceRead")
  BY DEF SameWire, wireVars, ExchangeStep, CheckSocket, CheckConnected, CheckConnectedNull, CallExchange,
     TakeLock, WriteFails, ReadFails, ReadReply, ReadEnd, GiveUp, CloseSocket, CloseSocketNull, DropSocket,
     DanceSend, DanceRead, Goto, TypeInv, TypeOK, WorkerTypes
<1> QED BY <1>9, <1>10, <1>11
(* The executor starts a task that has not been sent.                         *)
LEMMA StartSentInv ==
  ASSUME TypeInv, TaskInv, SentInv, NEW w \in Workers, StartTask(w) PROVE SentInv'
<1> USE DEF TypeInv, TypeOK, WorkerTypes, TaskTypes
<1>1. Head(queue) \in Tasks /\ status[Head(queue)] = "queued"
  <2>1. queue \in Seq(Tasks) /\ queue # <<>>
    BY DEF StartTask
  <2>2. 1 \in 1 .. Len(queue) /\ Head(queue) = queue[1] /\ queue[1] \in Tasks
    BY <2>1
  <2> QED BY <2>2 DEF TaskInv, QueueInv
<1>2. SameWire
  BY DEF StartTask, SameWire, wireVars
<1>3. \A c \in Tasks : c = Head(queue) \/ status'[c] = status[c]
  BY DEF StartTask
<1>4. status'[Head(queue)] \in {"running", "finished"}
  BY <1>1 DEF StartTask
<1>5. \A v \in Workers : pc'[v] = "idle" \/ (cur'[v] = Head(queue) /\ pc'[v] \in {"cCheck", "check"})
  BY DEF StartTask, ExecutorFree, workVars
<1> SUFFICES ASSUME NEW c \in Cmds
    PROVE  /\ IsFiniteSet(Waiting(c)')
           /\ Sent(c)' <= MaxTries
           /\ status'[c] \in {"new", "dropped", "queued"} => Sent(c)' = 0
           /\ \A v \in Workers : cur'[v] = c =>
                /\ pc'[v] \in {"check", "connected", "call", "take", "danceSend"} => Sent(c)' = 0
                /\ pc'[v] = "send" => Sent(c)' <= tries'[v]
                /\ pc'[v] = "read" => Sent(c)' <= tries'[v] + 1
  BY DEF SentInv
<1>6. Waiting(c)' = Waiting(c) /\ Sent(c)' = Sent(c)
  BY <1>2, SentFrame
<1>7. /\ IsFiniteSet(Waiting(c)) /\ Sent(c) <= MaxTries
      /\ status[c] \in {"new", "dropped", "queued"} => Sent(c) = 0
  BY DEF SentInv
<1>8. c \in Tasks
  BY DEF Tasks
<1> QED BY <1>1, <1>3, <1>4, <1>5, <1>6, <1>7, <1>8

(* The UI thread issues what has not been sent.                               *)
LEMMA UiSentInv ==
  ASSUME TypeInv, TaskInv, SentInv, UserAction \/ UiStep PROVE SentInv'
<1>1. SameWire
  BY DEF UserAction, IssueReplacing, IssueSort, IssueAdd, IssueConnect, UserDisconnect, UiStep,
     DisconnectCheck, DisconnectClose, DisconnectCloseNull, Crash, DisconnectNull, AfterDisconnect,
     FinishTask, SameWire, wireVars
<1>2. \A v \in Workers : pc'[v] = "dead" \/ (pc'[v] = pc[v] /\ cur'[v] = cur[v] /\ tries'[v] = tries[v])
  BY DEF UserAction, IssueReplacing, IssueSort, IssueAdd, IssueConnect, UserDisconnect, UiStep,
     DisconnectCheck, DisconnectClose, DisconnectCloseNull, Crash, DisconnectNull, AfterDisconnect,
     FinishTask, workVars
<1>3. \A c \in Cmds : status'[c] \in {"new", "dropped", "queued"} => status[c] \in {"new", "dropped", "queued"}
  <2> USE DEF TypeInv, TypeOK, TaskTypes, Tasks
  <2>1. CASE UserAction
    BY <2>1 DEF UserAction, IssueReplacing, IssueSort, IssueAdd, IssueConnect, UserDisconnect, Enqueue
  <2>2. CASE FinishTask
    BY <2>2 DEF FinishTask
  <2>3. CASE AfterDisconnect
    BY <2>3, CommandSessionAssumption DEF AfterDisconnect, Enqueue
  <2>4. CASE DisconnectCheck \/ DisconnectClose \/ DisconnectCloseNull \/ DisconnectNull
    BY <2>4 DEF DisconnectCheck, DisconnectClose, DisconnectCloseNull, Crash, DisconnectNull
  <2> QED BY <2>1, <2>2, <2>3, <2>4 DEF UiStep
<1> SUFFICES ASSUME NEW c \in Cmds
    PROVE  /\ IsFiniteSet(Waiting(c)')
           /\ Sent(c)' <= MaxTries
           /\ status'[c] \in {"new", "dropped", "queued"} => Sent(c)' = 0
           /\ \A v \in Workers : cur'[v] = c =>
                /\ pc'[v] \in {"check", "connected", "call", "take", "danceSend"} => Sent(c)' = 0
                /\ pc'[v] = "send" => Sent(c)' <= tries'[v]
                /\ pc'[v] = "read" => Sent(c)' <= tries'[v] + 1
  BY DEF SentInv
<1>6. Waiting(c)' = Waiting(c) /\ Sent(c)' = Sent(c)
  BY <1>1, SentFrame
<1>7. /\ IsFiniteSet(Waiting(c)) /\ Sent(c) <= MaxTries
      /\ status[c] \in {"new", "dropped", "queued"} => Sent(c) = 0
      /\ \A v \in Workers : cur[v] = c =>
                /\ pc[v] \in {"check", "connected", "call", "take", "danceSend"} => Sent(c) = 0
                /\ pc[v] = "send" => Sent(c) <= tries[v]
                /\ pc[v] = "read" => Sent(c) <= tries[v] + 1
  BY DEF SentInv
<1> QED BY <1>2, <1>3, <1>6, <1>7
(* A step that moves no worker, no task and no message of the box.            *)
LEMMA IdleSentInv ==
  ASSUME TypeInv, SentInv, UNCHANGED status,
         \A v \in Workers : pc'[v] = "dead" \/ (pc'[v] = pc[v] /\ cur'[v] = cur[v] /\ tries'[v] = tries[v]),
         \A c \in Cmds : IsFiniteSet(Waiting(c)') /\ Sent(c)' <= Sent(c),
         \A c \in Cmds : Sent(c)' \in Nat
  PROVE  SentInv'
<1> SUFFICES ASSUME NEW c \in Cmds
    PROVE  /\ IsFiniteSet(Waiting(c)')
           /\ Sent(c)' <= MaxTries
           /\ status'[c] \in {"new", "dropped", "queued"} => Sent(c)' = 0
           /\ \A v \in Workers : cur'[v] = c =>
                /\ pc'[v] \in {"check", "connected", "call", "take", "danceSend"} => Sent(c)' = 0
                /\ pc'[v] = "send" => Sent(c)' <= tries'[v]
                /\ pc'[v] = "read" => Sent(c)' <= tries'[v] + 1
  BY DEF SentInv
<1>1. /\ Sent(c) <= MaxTries
      /\ status[c] \in {"new", "dropped", "queued"} => Sent(c) = 0
      /\ \A v \in Workers : cur[v] = c =>
                /\ pc[v] \in {"check", "connected", "call", "take", "danceSend"} => Sent(c) = 0
                /\ pc[v] = "send" => Sent(c) <= tries[v]
                /\ pc[v] = "read" => Sent(c) <= tries[v] + 1
  BY DEF SentInv
<1>2. Sent(c) \in Nat /\ Sent(c)' \in Nat /\ Sent(c)' <= Sent(c) /\ IsFiniteSet(Waiting(c)')
  BY SentType
<1>3. MaxTries \in Nat /\ \A v \in Workers : tries[v] \in Nat
  BY CommandSessionAssumption DEF TypeInv, TypeOK, WorkerTypes
<1> QED BY <1>1, <1>2, <1>3

(* The same when the wire does not change either.                             *)
LEMMA StillSentInv ==
  ASSUME TypeInv, SentInv, UNCHANGED status, SameWire,
         \A v \in Workers : pc'[v] = "dead" \/ (pc'[v] = pc[v] /\ cur'[v] = cur[v] /\ tries'[v] = tries[v])
  PROVE  SentInv'
<1>1. ASSUME NEW c \in Cmds
      PROVE  IsFiniteSet(Waiting(c)') /\ Sent(c)' <= Sent(c) /\ Sent(c)' \in Nat
  <2>1. IsFiniteSet(Waiting(c)) /\ Sent(c) \in Nat
    BY SentType DEF SentInv
  <2>2. Waiting(c)' = Waiting(c) /\ Sent(c)' = Sent(c)
    BY SentFrame
  <2> QED BY <2>1, <2>2
<1>2. \A c \in Cmds : IsFiniteSet(Waiting(c)') /\ Sent(c)' <= Sent(c)
  <2> SUFFICES ASSUME NEW c \in Cmds PROVE IsFiniteSet(Waiting(c)') /\ Sent(c)' <= Sent(c) OBVIOUS
  <2> QED BY <1>1
<1>3. \A c \in Cmds : Sent(c)' \in Nat
  BY <1>1
<1> QED BY <1>2, <1>3, IdleSentInv

LEMMA BoxSentInv == ASSUME TypeInv, SentInv, BoxStep PROVE SentInv'
<1>1. CASE \E k \in Connects : BoxCloses(k)
  BY <1>1, StillSentInv DEF BoxCloses, SameWire, wireVars, workVars
<1>2. CASE \E k \in Connects : BoxExecutes(k)
  <2>1. PICK k \in Connects : BoxExecutes(k)
    BY <1>2
  <2>2. \A c \in Cmds : IsFiniteSet(Waiting(c)') /\ Sent(c)' <= Sent(c)
    BY <2>1, ExecuteSent
  <2>3. exec' \in [Cmds -> Nat]
    BY <2>1, BoxTypeInv DEF TypeInv, TypeOK, WireTypes
  <2>4. \A c \in Cmds : Sent(c)' \in Nat
    <3> SUFFICES ASSUME NEW c \in Cmds PROVE Sent(c)' \in Nat OBVIOUS
    <3>1. IsFiniteSet(Waiting(c)')
      BY <2>2
    <3>2. Cardinality(Waiting(c)') \in Nat
      BY <3>1, FS_CardinalityType
    <3> QED BY <2>3, <3>2 DEF Sent
  <2>5. UNCHANGED <<status, pc, cur, tries>>
    BY <2>1 DEF BoxExecutes, workVars
  <2> QED BY <2>2, <2>4, <2>5, IdleSentInv
<1> QED BY <1>1, <1>2 DEF BoxStep

LEMMA NextSentInv == TypeInv /\ WireInv /\ TaskInv /\ SentInv /\ [Next]_vars => SentInv'
<1> SUFFICES ASSUME TypeInv, WireInv, TaskInv, SentInv, [Next]_vars PROVE SentInv' OBVIOUS
<1>1. CASE UserAction \/ UiStep
  BY <1>1, UiSentInv
<1>2. CASE WorkerStep
  <2>1. CASE Crash
    BY <2>1, StillSentInv DEF Crash, SameWire, wireVars
  <2>2. CASE ~Crash
    BY <1>2, <2>2, StartSentInv, ExchangeSentInv, ConnectSentInv DEF WorkerStep
  <2> QED BY <2>1, <2>2
<1>3. CASE BoxStep
  BY <1>3, BoxSentInv
<1>4. CASE UNCHANGED vars
  BY <1>4, StillSentInv DEF vars, SameWire
<1> QED BY <1>1, <1>2, <1>3, <1>4 DEF Next

(* However often a package is resent, lost with its socket or overtaken by a  *)
(* reconnect, the box executes a command at most MaxTries times.               *)
THEOREM ExecutionsBounded == Spec => []ExecutedAtMostMaxTries
<1>1. Spec => [](TypeInv /\ WireInv /\ TaskInv /\ SentInv)
  BY InitTypeInv, NextTypeInv, InitWireInv, NextWireInv, InitTaskInv, NextTaskInv, InitSentInv,
     NextSentInv, PTL DEF Spec
<1>2. TypeInv /\ SentInv => ExecutedAtMostMaxTries
  <2> SUFFICES ASSUME TypeInv, SentInv, NEW c \in Cmds PROVE exec[c] <= MaxTries
    BY DEF ExecutedAtMostMaxTries
  <2>1. Cardinality(Waiting(c)) \in Nat /\ exec[c] \in Nat /\ Sent(c) <= MaxTries
    BY SentType DEF SentInv
  <2> QED BY <2>1, CommandSessionAssumption DEF Sent
<1> QED BY <1>1, <1>2, PTL
-----------------------------------------------------------------------------
(* Successes.  Every reply, on its way or left in a buffer, is that of a      *)
(* command that the box has executed.                                         *)

Executed(c) == exec[c] > 0

RepliesInv == \A k \in Connects : \A i \in 1 .. Len(toApp[k]) : Executed(toApp[k][i])

AnswerInv ==
    /\ RepliesInv
    /\ \A w \in Workers : buf[w] # None => Executed(buf[w])
    /\ \A w \in Workers : pc[w] \in {"danceSend", "danceRead"} => Op[cur[w]] = "dance"
    /\ \A w \in Workers : pc[w] = "read" => mySock[w] \in Connects
    /\ OkHasAnswerOfItsKind

LEMMA InitAnswerInv == Init => AnswerInv
<1> SUFFICES ASSUME Init PROVE AnswerInv OBVIOUS
<1>1. \A k \in Connects : Len(toApp[k]) = 0
  BY DEF Init
<1> QED BY <1>1, CommandSessionAssumption DEF Init, AnswerInv, RepliesInv, OkHasAnswerOfItsKind, Tasks

LEMMA RepliesFrame ==
  ASSUME RepliesInv, UNCHANGED exec, \A k \in Connects : toApp'[k] \in {toApp[k], <<>>}
  PROVE  RepliesInv'
<1> SUFFICES ASSUME NEW k \in Connects, NEW i \in 1 .. Len(toApp'[k]) PROVE exec'[toApp'[k][i]] > 0
  BY DEF RepliesInv, Executed
<1>1. toApp'[k] = toApp[k]
  OBVIOUS
<1> QED BY <1>1 DEF RepliesInv, Executed

(* A step that receives nothing and returns nothing.                          *)
LEMMA AnswerFrame ==
  ASSUME TypeInv, AnswerInv,
         \A k \in Connects : toApp'[k] \in {toApp[k], <<>>},
         UNCHANGED <<exec, result>>,
         \A w \in Workers : buf'[w] \in {buf[w], None},
         \A w \in Workers : pc'[w] \in {"danceSend", "danceRead"} =>
             pc[w] \in {"danceSend", "danceRead"} /\ cur'[w] = cur[w],
         \A w \in Workers : pc'[w] = "read" => pc[w] = "read" /\ mySock'[w] = mySock[w]
  PROVE  AnswerInv'
<1>1. RepliesInv'
  BY RepliesFrame DEF AnswerInv
<1>2. (\A w \in Workers : buf[w] # None => Executed(buf[w]))'
  BY DEF AnswerInv, Executed
<1>3. (\A w \in Workers : pc[w] \in {"danceSend", "danceRead"} => Op[cur[w]] = "dance")'
  BY DEF AnswerInv
<1>4. OkHasAnswerOfItsKind'
  BY DEF AnswerInv, OkHasAnswerOfItsKind
<1>5. (\A w \in Workers : pc[w] = "read" => mySock[w] \in Connects)'
  BY DEF AnswerInv
<1> QED BY <1>1, <1>2, <1>3, <1>4, <1>5 DEF AnswerInv

(* A worker that returns leaves its locals; a success must be accounted for.  *)
LEMMA ReturnAnswerInv ==
  ASSUME TypeInv, WireInv, AnswerInv, NEW w \in Workers, NEW r, Return(w, r),
         NEW t \in Tasks, t = cur[w],
         \A v \in Workers : v # w => pc'[v] \in {"idle", "dead"},
         \A k \in Connects : toApp'[k] \in {toApp[k], <<>>},
         UNCHANGED exec,
         r = "ok" /\ t \in Cmds /\ Op[t] # "dance" =>
             \E d \in Cmds : ReplyKind(d) = ReplyKind(t) /\ Executed(d)
  PROVE  AnswerInv'
<1> USE DEF TypeInv, TypeOK, WorkerTypes, TaskTypes
<1>1. pc'[w] = "idle" /\ \A v \in Workers : buf'[v] \in {buf[v], None}
  BY DEF Return, ForgetLocals
<1>2. \A c \in Cmds : result'[c] = IF c = t THEN r ELSE result[c]
  BY DEF Return, Tasks
<1>3. RepliesInv'
  BY RepliesFrame DEF AnswerInv
<1>4. (\A v \in Workers : buf[v] # None => Executed(buf[v]))'
  BY <1>1 DEF AnswerInv, Executed
<1>5. (\A v \in Workers : /\ pc[v] \in {"danceSend", "danceRead"} => Op[cur[v]] = "dance"
                          /\ pc[v] = "read" => mySock[v] \in Connects)'
  BY <1>1
<1>6. OkHasAnswerOfItsKind'
  <2> SUFFICES ASSUME NEW c \in Cmds, result'[c] = "ok", Op[c] # "dance"
               PROVE  \E d \in Cmds : ReplyKind(d) = ReplyKind(c) /\ exec[d] > 0
    BY DEF OkHasAnswerOfItsKind
  <2>1. CASE c = t
    BY <1>2, <2>1 DEF Executed
  <2>2. CASE c # t
    BY <1>2, <2>2 DEF AnswerInv, OkHasAnswerOfItsKind
  <2> QED BY <2>1, <2>2
<1> QED BY <1>3, <1>4, <1>5, <1>6 DEF AnswerInv

(* What is parsed as a success is a reply of the command's kind.              *)
LEMMA ParsedAnswer ==
  ASSUME NEW c, NEW reply, reply # None => Executed(reply) /\ reply \in Cmds, Parse(c, reply) = "ok"
  PROVE  \E d \in Cmds : ReplyKind(d) = ReplyKind(c) /\ Executed(d)
  BY DEF Parse

LEMMA ExchangeAnswerInv ==
  ASSUME TypeInv, WireInv, TaskInv, AnswerInv, NEW w \in Workers, ExchangeStep(w), ~Crash
  PROVE  AnswerInv'
<1> USE DEF TypeInv, TypeOK, WorkerTypes, WireTypes, SocketTypes
<1>1. \A v \in Workers : v # w => pc'[v] \in {"idle", "dead"}
  BY OthersIdle
<1>2. cur[w] \in Cmds /\ cur[w] \in Tasks
  BY DEF PcInv, CommandPcs, ExchangePcs, ExchangeStep, CheckSocket, CheckConnected, CheckConnectedNull,
     CallExchange, TakeLock, SendPackage, WriteFails, ReadFails, ReadReply, ReadEnd, GiveUp, CloseSocket,
     CloseSocketNull, DropSocket, DanceSend, DanceRead, Tasks
<1>3. UNCHANGED exec
  BY DEF wireVars, ExchangeStep, CheckSocket, CheckConnected, CheckConnectedNull, CallExchange, TakeLock,
     SendPackage, WriteFails, ReadFails, ReadReply, ReadEnd, GiveUp, CloseSocket, CloseSocketNull,
     DropSocket, DanceSend, DanceRead, Close
<1>4. \A k \in Connects : toApp'[k] \in {toApp[k], <<>>}
  BY DEF wireVars, ExchangeStep, CheckSocket, CheckConnected, CheckConnectedNull, CallExchange, TakeLock,
     SendPackage, WriteFails, ReadFails, ReadReply, ReadEnd, GiveUp, CloseSocket, CloseSocketNull,
     DropSocket, DanceSend, DanceRead, Close
<1>5. ASSUME NEW r, Return(w, r),
             r = "ok" /\ Op[cur[w]] # "dance" => \E d \in Cmds : ReplyKind(d) = ReplyKind(cur[w]) /\ Executed(d)
      PROVE  AnswerInv'
  BY <1>1, <1>2, <1>3, <1>4, <1>5, ReturnAnswerInv
<1>6. ASSUME UNCHANGED <<result, cur, buf>>, pc'[w] # "read",
             pc'[w] \in {"danceSend", "danceRead"} => pc[w] \in {"danceSend", "danceRead"}
      PROVE  AnswerInv'
  BY <1>1, <1>3, <1>4, <1>6, AnswerFrame
<1>7. CASE CheckSocket(w)
  BY <1>5, <1>6, <1>7 DEF CheckSocket, NotReturning, Goto
<1>8. CASE CheckConnected(w)
  <2>1. CASE Return(w, "disconnected")
    BY <1>5, <2>1
  <2>2. CASE NotReturning /\ UNCHANGED <<cur, buf>> /\ Op[cur[w]] # "dance" /\ Goto(w, "call")
    BY <1>6, <2>2 DEF NotReturning, Goto
  <2>3. CASE NotReturning /\ UNCHANGED <<cur, buf>> /\ Op[cur[w]] = "dance" /\ Goto(w, "danceSend")
    <3>1. (\A v \in Workers : /\ pc[v] \in {"danceSend", "danceRead"} => Op[cur[v]] = "dance"
                              /\ pc[v] = "read" => mySock[v] \in Connects)'
      BY <1>1, <2>3 DEF Goto
    <3>2. RepliesInv'
      BY <1>3, <1>4, RepliesFrame DEF AnswerInv
    <3>3. (\A v \in Workers : buf[v] # None => Executed(buf[v]))' /\ OkHasAnswerOfItsKind'
      BY <1>3, <2>3 DEF AnswerInv, Executed, OkHasAnswerOfItsKind, NotReturning
    <3> QED BY <3>1, <3>2, <3>3 DEF AnswerInv
  <2> QED BY <1>8, <2>1, <2>2, <2>3 DEF CheckConnected
<1>9. CASE CallExchange(w) \/ TakeLock(w)
  BY <1>5, <1>6, <1>9 DEF CallExchange, TakeLock, NotReturning, Goto
<1>10. CASE SendPackage(w)
  <2>1. pc'[w] = "read" /\ UNCHANGED <<cur, result>>
    BY <1>10 DEF SendPackage, Goto, NotReturning
  <2>2. \A v \in Workers : buf'[v] # None => Executed(buf'[v])
    <3>1. mySock[w] \in Connects
      BY <1>10 DEF SendPackage, Writable
    <3>2. toApp[mySock[w]] # <<>> =>
            1 \in 1 .. Len(toApp[mySock[w]]) /\ Head(toApp[mySock[w]]) = toApp[mySock[w]][1]
      BY <3>1
    <3>3. toApp[mySock[w]] # <<>> => Executed(Head(toApp[mySock[w]]))
      BY <3>1, <3>2 DEF AnswerInv, RepliesInv
    <3> QED BY <1>10, <3>3 DEF SendPackage, AnswerInv
  <2>3. RepliesInv'
    BY <1>3, <1>4, RepliesFrame DEF AnswerInv
  <2>4. (\A v \in Workers : buf[v] # None => Executed(buf[v]))' /\ OkHasAnswerOfItsKind'
    BY <1>3, <2>1, <2>2 DEF AnswerInv, Executed, OkHasAnswerOfItsKind
  <2>5. (\A v \in Workers : /\ pc[v] \in {"danceSend", "danceRead"} => Op[cur[v]] = "dance"
                            /\ pc[v] = "read" => mySock[v] \in Connects)'
    BY <1>1, <1>10, <2>1 DEF SendPackage, Writable
  <2> QED BY <2>3, <2>4, <2>5 DEF AnswerInv
<1>11. CASE WriteFails(w) \/ ReadFails(w)
  BY <1>6, <1>11 DEF WriteFails, ReadFails, FailTry, NotReturning, Goto
<1>12. CASE ReadReply(w)
  <2>1. mySock[w] \in Connects
    BY <1>12 DEF ReadReply, AnswerInv
  <2> DEFINE reply == Head(toApp[mySock[w]])
  <2>2. 1 \in 1 .. Len(toApp[mySock[w]]) /\ reply = toApp[mySock[w]][1] /\ reply \in Cmds
    BY <1>12, <2>1 DEF ReadReply
  <2>3. Executed(reply)
    BY <2>1, <2>2 DEF AnswerInv, RepliesInv
  <2> QED BY <1>5, <1>12, <2>2, <2>3, ParsedAnswer DEF ReadReply
<1>13. CASE ReadEnd(w)
  <2>1. buf[w] # None => Executed(buf[w]) /\ buf[w] \in Cmds
    BY DEF AnswerInv
  <2> QED BY <1>5, <1>13, <2>1, ParsedAnswer DEF ReadEnd
<1>14. CASE GiveUp(w) \/ CloseSocket(w) \/ DropSocket(w)
  BY <1>5, <1>6, <1>14 DEF GiveUp, CloseSocket, DropSocket, NotReturning, Goto
<1>15. CASE DanceSend(w)
  <2>1. Op[cur[w]] = "dance"
    BY <1>15 DEF DanceSend, AnswerInv
  <2>2. CASE Return(w, "ok")
    BY <1>5, <2>1, <2>2
  <2>3. CASE NotReturning /\ UNCHANGED <<cur, buf>> /\ Goto(w, "danceRead")
    BY <1>6, <1>15, <2>3 DEF DanceSend, NotReturning, Goto
  <2> QED BY <1>15, <2>2, <2>3 DEF DanceSend
<1>16. CASE DanceRead(w)
  BY <1>5, <1>16 DEF DanceRead, AnswerInv
<1>17. CASE CheckConnectedNull(w) \/ CloseSocketNull(w)
  BY <1>17 DEF CheckConnectedNull, CloseSocketNull
<1> QED BY <1>7, <1>8, <1>9, <1>10, <1>11, <1>12, <1>13, <1>14, <1>15, <1>16, <1>17 DEF ExchangeStep
LEMMA ConnectAnswerInv ==
  ASSUME TypeInv, WireInv, TaskInv, AnswerInv, NEW w \in Workers, ConnectStep(w), ~Crash
  PROVE  AnswerInv'
<1> USE DEF TypeInv, TypeOK, WorkerTypes
<1>1. \A v \in Workers : v # w => pc'[v] \in {"idle", "dead"}
  BY OthersIdle
<1>2. cur[w] \in Connects /\ cur[w] \in Tasks /\ cur[w] \notin Cmds
  BY CommandSessionAssumption DEF PcInv, AllConnectPcs, ConnectPcs, ConnectStep, ConnectCheck,
     ConnectIsConnected, NewSocket, StartConnect, ConnectSucceeds, ConnectFails, SetSoTimeout, Handshake,
     ConnectNull, Tasks
<1>3. UNCHANGED <<exec, toApp>>
  BY DEF wireVars, ConnectStep, ConnectCheck, ConnectIsConnected, NewSocket, StartConnect, ConnectSucceeds,
     ConnectFails, SetSoTimeout, Handshake, ConnectNull
<1>4. \/ \E r \in Results : Return(w, r)
      \/ NotReturning /\ UNCHANGED buf /\ pc'[w] \in AllConnectPcs
  BY DEF ConnectStep, ConnectCheck, ConnectIsConnected, NewSocket, StartConnect, ConnectSucceeds,
     ConnectFails, SetSoTimeout, Handshake, ConnectNull, Results, Goto, AllConnectPcs, ConnectPcs
<1>5. CASE \E r \in Results : Return(w, r)
  BY <1>1, <1>2, <1>3, <1>5, ReturnAnswerInv
<1>6. CASE NotReturning /\ UNCHANGED buf /\ pc'[w] \in AllConnectPcs
  BY <1>1, <1>3, <1>6, AnswerFrame DEF NotReturning, AllConnectPcs, ConnectPcs
<1> QED BY <1>4, <1>5, <1>6

(* The box answers only what it executes.                                     *)
LEMMA BoxAnswerInv == ASSUME TypeInv, AnswerInv, NEW k \in Connects, BoxExecutes(k) PROVE AnswerInv'
<1> USE DEF TypeInv, TypeOK, WireTypes
<1>1. PICK c \in Cmds : c = Head(toBox[k])
  BY DEF BoxExecutes
<1>2. exec' = [exec EXCEPT ![c] = @ + 1] /\ exec \in [Cmds -> Nat]
  BY <1>1 DEF BoxExecutes
<1>3. \A d \in Cmds : Executed(d) => Executed(d)'
  BY <1>1, <1>2 DEF Executed
<1>5. RepliesInv'
  <2> SUFFICES ASSUME NEW j \in Connects, NEW i \in 1 .. Len(toApp'[j]) PROVE exec'[toApp'[j][i]] > 0
    BY DEF RepliesInv, Executed
  <2>1. toApp[j] \in Seq(Cmds)
    OBVIOUS
  <2>2. toApp'[j] = toApp[j] \/ toApp'[j] = Append(toApp[j], c)
    BY <1>1 DEF BoxExecutes
  <2>3. CASE i \in 1 .. Len(toApp[j])
    <3>1. toApp'[j][i] = toApp[j][i] /\ toApp[j][i] \in Cmds
      <4> HIDE DEF TypeInv
      <4>1. toApp[j][i] \in Cmds
        BY <2>1, <2>3
      <4>2. Append(toApp[j], c)[i] = toApp[j][i]
        BY <2>1, <2>3, AppendProperties
      <4> QED BY <2>2, <4>1, <4>2
    <3>2. Executed(toApp[j][i])
      BY <2>3 DEF AnswerInv, RepliesInv
    <3>3. PICK d \in Cmds : d = toApp[j][i]
      BY <3>1
    <3>4. exec'[d] > 0
      BY <1>3, <3>2, <3>3 DEF Executed
    <3> QED BY <3>1, <3>3, <3>4
  <2>4. CASE i \notin 1 .. Len(toApp[j])
    <3>1. toApp'[j] = Append(toApp[j], c)
      BY <2>2, <2>4
    <3>2. toApp'[j][i] = c
      <4>1. Len(toApp'[j]) = Len(toApp[j]) + 1 /\ Len(toApp[j]) \in Nat
        BY <2>1, <3>1, <1>1
      <4>2. i = Len(toApp[j]) + 1
        BY <4>1, <2>4
      <4> QED BY <2>1, <3>1, <4>2, <1>1
    <3>3. exec'[c] > 0
      BY <1>1, <1>2
    <3> QED BY <3>2, <3>3
  <2> QED BY <2>3, <2>4
<1>6. UNCHANGED <<buf, pc, cur, mySock, result>>
  BY DEF BoxExecutes, workVars
<1>7. (\A w \in Workers : buf[w] # None => Executed(buf[w]))'
  BY <1>3, <1>6 DEF AnswerInv, Executed, WorkerTypes
<1>8. OkHasAnswerOfItsKind'
  BY <1>3, <1>6 DEF AnswerInv, OkHasAnswerOfItsKind, Executed
<1> QED BY <1>5, <1>6, <1>7, <1>8 DEF AnswerInv

LEMMA NextAnswerInv == TypeInv /\ WireInv /\ TaskInv /\ AnswerInv /\ [Next]_vars => AnswerInv'
<1> SUFFICES ASSUME TypeInv, WireInv, TaskInv, AnswerInv, [Next]_vars PROVE AnswerInv' OBVIOUS
<1>1. CASE UserAction \/ UiStep
  <2>1. UNCHANGED <<exec, result, buf, mySock>>
    BY <1>1 DEF UserAction, IssueReplacing, IssueSort, IssueAdd, IssueConnect, UserDisconnect, UiStep,
       DisconnectCheck, DisconnectClose, DisconnectCloseNull, Crash, DisconnectNull, AfterDisconnect,
       FinishTask, wireVars, workVars
  <2>2. \A k \in Connects : toApp'[k] \in {toApp[k], <<>>}
    BY <1>1 DEF UserAction, IssueReplacing, IssueSort, IssueAdd, IssueConnect, UserDisconnect, UiStep,
       DisconnectCheck, DisconnectClose, Close, DisconnectCloseNull, Crash, DisconnectNull, AfterDisconnect,
       FinishTask, wireVars, TypeInv, TypeOK, WireTypes
  <2>3. \A w \in Workers : pc'[w] = "dead" \/ (pc'[w] = pc[w] /\ cur'[w] = cur[w])
    BY <1>1 DEF UserAction, IssueReplacing, IssueSort, IssueAdd, IssueConnect, UserDisconnect, UiStep,
       DisconnectCheck, DisconnectClose, DisconnectCloseNull, Crash, DisconnectNull, AfterDisconnect,
       FinishTask, workVars
  <2> QED BY <2>1, <2>2, <2>3, AnswerFrame
<1>2. CASE WorkerStep
  <2>1. CASE Crash
    BY <2>1, AnswerFrame DEF Crash, wireVars
  <2>2. CASE \E w \in Workers : StartTask(w)
    <3>1. UNCHANGED <<exec, toApp, result, buf>>
      BY <2>2 DEF StartTask, wireVars, workVars
    <3>2. \A v \in Workers : pc'[v] \in {"idle", "cCheck", "check"}
      BY <2>2 DEF StartTask, ExecutorFree, workVars, TypeInv, TypeOK, WorkerTypes
    <3> QED BY <3>1, <3>2, AnswerFrame
  <2> QED BY <1>2, <2>1, <2>2, ExchangeAnswerInv, ConnectAnswerInv DEF WorkerStep
<1>3. CASE BoxStep
  <2>1. CASE \E k \in Connects : BoxCloses(k)
    BY <2>1, AnswerFrame DEF BoxCloses, wireVars, workVars
  <2> QED BY <1>3, <2>1, BoxAnswerInv DEF BoxStep
<1>4. CASE UNCHANGED vars
  BY <1>4, AnswerFrame DEF vars
<1> QED BY <1>1, <1>2, <1>3, <1>4 DEF Next

(* Replies that come late, are left from an earlier try or answer another     *)
(* command still mean that the box has executed a command of the kind that is *)
(* reported as a success.                                                     *)
THEOREM SuccessIsBacked == Spec => []OkHasAnswerOfItsKind
<1>1. Spec => [](TypeInv /\ WireInv /\ TaskInv /\ AnswerInv)
  BY InitTypeInv, NextTypeInv, InitWireInv, NextWireInv, InitTaskInv, NextTaskInv, InitAnswerInv,
     NextAnswerInv, PTL DEF Spec
<1>2. AnswerInv => OkHasAnswerOfItsKind
  BY DEF AnswerInv
<1> QED BY <1>1, <1>2, PTL
-----------------------------------------------------------------------------
(* The refinement.  A step of the session is one step of CommandService or    *)
(* none; it needs that a field holds what a cancellation can still silence.   *)

FieldInv ==
    /\ \A s \in Slots : field[s] # None =>
         /\ Tracked(field[s]) /\ SlotOf(field[s]) = s
         /\ status[field[s]] \notin {"new", "dropped"}
         /\ Unresolved(field[s]) => field[s] \notin cancelled
    /\ \A t \in cancelled : status[t] \notin {"new", "dropped"}

LEMMA InitFieldInv == Init => FieldInv
  BY DEF Init, FieldInv

(* A step that puts no task into a field.                                     *)
LEMMA FieldFrame ==
  ASSUME TypeInv, FieldInv,
         \A s \in Slots : field'[s] \in {field[s], None},
         \A t \in Tasks : Unresolved(t)' => Unresolved(t),
         \A t \in Tasks : status'[t] \in {"new", "dropped"} => status[t] \in {"new", "dropped"},
         \A s \in Slots : field'[s] # None /\ field[s] \in cancelled' => field[s] \in cancelled,
         cancelled' \subseteq cancelled \cup {t \in Tasks : Unresolved(t)}
  PROVE  FieldInv'
<1> USE DEF TypeInv, TypeOK, TaskTypes
<1>1. \A s \in Slots : field'[s] # None =>
         /\ Tracked(field'[s]) /\ SlotOf(field'[s]) = s
         /\ status'[field'[s]] \notin {"new", "dropped"}
         /\ Unresolved(field[s])' => field'[s] \notin cancelled'
  <2> SUFFICES ASSUME NEW s \in Slots, field'[s] # None
      PROVE  /\ Tracked(field'[s]) /\ SlotOf(field'[s]) = s
             /\ status'[field'[s]] \notin {"new", "dropped"}
             /\ Unresolved(field[s])' => field'[s] \notin cancelled'
    OBVIOUS
  <2>1. PICK t \in Tasks : t = field[s] /\ t = field'[s]
    OBVIOUS
  <2>2. Unresolved(field[s])' => Unresolved(t)
    BY <2>1 DEF Unresolved
  <2> QED BY <2>1, <2>2 DEF FieldInv
<1>2. \A t \in cancelled' : status'[t] \notin {"new", "dropped"}
  <2> SUFFICES ASSUME NEW t \in cancelled' PROVE status'[t] \notin {"new", "dropped"} OBVIOUS
  <2>1. t \in Tasks /\ status[t] \notin {"new", "dropped"}
    BY DEF FieldInv, Unresolved
  <2> QED BY <2>1
<1> QED BY <1>1, <1>2 DEF FieldInv

(* A new task in its field: the one before it has been cancelled or is over.  *)
LEMMA EnqueueFieldInv ==
  ASSUME TypeInv, FieldInv, NEW t \in Tasks, status[t] = "new", Enqueue(t),
         cancelled \subseteq cancelled',
         cancelled' \subseteq cancelled \cup (IF Tracked(t) THEN CancelIn({SlotOf(t)}) ELSE {})
  PROVE  FieldInv'
<1> USE DEF TypeInv, TypeOK, TaskTypes
<1>1. status' = [status EXCEPT ![t] = "queued"]
  BY DEF Enqueue
<1>2. t \notin cancelled'
  BY DEF FieldInv, CancelIn, Unresolved
<1>3. \A s \in Slots : field'[s] = IF Tracked(t) /\ s = SlotOf(t) THEN t ELSE field[s]
  BY DEF Enqueue
<1>4. ASSUME NEW s \in Slots, field'[s] # None
      PROVE  /\ Tracked(field'[s]) /\ SlotOf(field'[s]) = s
             /\ status'[field'[s]] \notin {"new", "dropped"}
             /\ status'[field'[s]] \in {"queued", "running", "posted"} => field'[s] \notin cancelled'
  <2>1. CASE field'[s] = t
    <3>1. Tracked(t) /\ SlotOf(t) = s
      BY <1>3, <1>4, <2>1 DEF FieldInv
    <3> QED BY <1>1, <1>2, <2>1, <3>1
  <2>2. CASE field'[s] # t
    <3>1. PICK u \in Tasks : u = field[s] /\ u = field'[s] /\ u # t
      BY <1>3, <1>4, <2>2
    <3>2. status'[u] = status[u]
      BY <1>1, <3>1
    <3>3. Tracked(u) /\ SlotOf(u) = s /\ status[u] \notin {"new", "dropped"} /\ (Unresolved(u) => u \notin cancelled)
      BY <1>4, <3>1 DEF FieldInv
    <3>4. u \in CancelIn({SlotOf(t)}) /\ Tracked(t) => FALSE
      <4> SUFFICES ASSUME u \in CancelIn({SlotOf(t)}), Tracked(t) PROVE FALSE OBVIOUS
      <4>1. SlotOf(t) \in Slots /\ field[SlotOf(t)] = u
        BY SlotOfType DEF CancelIn
      <4>2. SlotOf(u) = SlotOf(t)
        <5>1. field[SlotOf(t)] # None
          BY <4>1, CommandSessionAssumption
        <5> QED BY <4>1, <5>1 DEF FieldInv
      <4>3. field'[s] = t
        BY <1>3, <3>3, <4>2
      <4> QED BY <2>2, <4>3
    <3> QED BY <3>1, <3>2, <3>3, <3>4 DEF Unresolved
  <2> QED BY <2>1, <2>2
<1>5. \A u \in cancelled' : status'[u] \notin {"new", "dropped"}
  <2> SUFFICES ASSUME NEW u \in cancelled' PROVE status'[u] \notin {"new", "dropped"} OBVIOUS
  <2>1. u \in Tasks /\ status[u] \notin {"new", "dropped"} /\ u # t
    BY <1>2, CancelInType DEF FieldInv, CancelIn, Unresolved
  <2> QED BY <1>1, <2>1
<1> QED BY <1>4, <1>5 DEF FieldInv, Unresolved
(* A worker's steps touch no field and cancel nothing.                        *)
LEMMA WorkerFieldInv ==
  ASSUME TypeInv, TaskInv, FieldInv, WorkerStep PROVE FieldInv'
<1> USE DEF TypeInv, TypeOK, TaskTypes
<1>1. UNCHANGED <<field, cancelled>>
  BY DEF WorkerStep, StartTask, ElseUnchanged, taskVars, Crash, ExchangeStep, CheckSocket, CheckConnected,
     CheckConnectedNull, CallExchange, TakeLock, SendPackage, WriteFails, ReadFails, ReadReply, ReadEnd,
     GiveUp, CloseSocket, CloseSocketNull, DropSocket, DanceSend, DanceRead, ConnectStep, ConnectCheck,
     ConnectIsConnected, NewSocket, StartConnect, ConnectSucceeds, ConnectFails, SetSoTimeout, Handshake,
     ConnectNull
<1>2. SUFFICES \A t \in Tasks : status'[t] = status[t] \/ (Unresolved(t) /\ status'[t] \notin {"new", "dropped"})
  <2>1. \A t \in Tasks : Unresolved(t)' => Unresolved(t)
    BY <1>2 DEF Unresolved
  <2>2. \A t \in Tasks : status'[t] \in {"new", "dropped"} => status[t] \in {"new", "dropped"}
    BY <1>2
  <2>3. \A s \in Slots : field'[s] # None /\ field[s] \in cancelled' => field[s] \in cancelled
    BY <1>1
  <2>4. cancelled' \subseteq cancelled \cup {t \in Tasks : Unresolved(t)}
    BY <1>1
  <2>5. \A s \in Slots : field'[s] \in {field[s], None}
    BY <1>1
  <2> QED BY <2>1, <2>2, <2>3, <2>4, <2>5, FieldFrame
<1>3. CASE \E w \in Workers : StartTask(w)
  <2>1. status[Head(queue)] = "queued"
    <3>1. queue \in Seq(Tasks) /\ queue # <<>>
      BY <1>3 DEF StartTask
    <3>2. 1 \in 1 .. Len(queue) /\ Head(queue) = queue[1]
      BY <3>1
    <3> QED BY <3>2 DEF TaskInv, QueueInv
  <2>2. \A t \in Tasks : status'[t] = status[t] \/ (t = Head(queue) /\ status'[t] \in {"running", "finished"})
    BY <1>3 DEF StartTask
  <2> QED BY <2>1, <2>2 DEF Unresolved
<1>4. ASSUME NEW w \in Workers, ExchangeStep(w) \/ ConnectStep(w)
      PROVE  UNCHANGED status \/ (Busy(w) /\ status' = [status EXCEPT ![cur[w]] = "posted"])
  <2>1. CASE Crash
    BY <2>1 DEF Crash
  <2>2. CASE ~Crash
    <3>1. Busy(w)
      BY <1>4, <2>2, WorkerFrame
    <3>2. UNCHANGED status \/ status' = [status EXCEPT ![cur[w]] = "posted"]
      BY <1>4, <2>2 DEF ExchangeStep, CheckSocket, CheckConnected, CheckConnectedNull, CallExchange, TakeLock,
         SendPackage, WriteFails, ReadFails, ReadReply, ReadEnd, GiveUp, CloseSocket, CloseSocketNull,
         DropSocket, DanceSend, DanceRead, ConnectStep, ConnectCheck, ConnectIsConnected, NewSocket,
         StartConnect, ConnectSucceeds, ConnectFails, SetSoTimeout, Handshake, ConnectNull, Return,
         NotReturning
    <3> QED BY <3>1, <3>2
  <2> QED BY <2>1, <2>2
<1>5. CASE \E w \in Workers : ExchangeStep(w) \/ ConnectStep(w)
  <2>1. PICK w \in Workers : UNCHANGED status \/ (Busy(w) /\ status' = [status EXCEPT ![cur[w]] = "posted"])
    BY <1>4, <1>5
  <2>2. Busy(w) => status[cur[w]] = "running"
    BY DEF TaskInv, RunInv
  <2> QED BY <2>1, <2>2 DEF Unresolved
<1> QED BY <1>3, <1>5 DEF WorkerStep

LEMMA UiFieldInv ==
  ASSUME TypeInv, TaskInv, FieldInv, UserAction \/ UiStep PROVE FieldInv'
<1> USE DEF TypeInv, TypeOK, TaskTypes
<1>1. ASSUME NEW c \in Cmds, IssueReplacing(c) PROVE FieldInv'
  BY <1>1, EnqueueFieldInv DEF IssueReplacing, Tasks, Tracked
<1>2. ASSUME NEW c \in Cmds, IssueSort(c) PROVE FieldInv'
  BY <1>2, EnqueueFieldInv DEF IssueSort, Tasks
<1>3. ASSUME NEW c \in Cmds, IssueAdd(c) PROVE FieldInv'
  <2>1. CASE Enqueue(c)
    BY <1>3, <2>1, EnqueueFieldInv DEF IssueAdd, Tasks
  <2>2. CASE status' = [status EXCEPT ![c] = "dropped"] /\ UNCHANGED field
    <3>1. UNCHANGED <<field, cancelled>>
      BY <1>3, <2>2 DEF IssueAdd
    <3>2. c \in Tasks /\ status[c] = "new"
      BY <1>3 DEF IssueAdd, Tasks
    <3>3. \A t \in Tasks : Unresolved(t)' => Unresolved(t)
      BY <2>2, <3>2 DEF Unresolved
    <3>4. \A t \in Tasks : status'[t] \in {"new", "dropped"} => status[t] \in {"new", "dropped"}
      BY <2>2, <3>2
    <3> QED BY <3>1, <3>3, <3>4, FieldFrame
  <2> QED BY <1>3, <2>1, <2>2 DEF IssueAdd
<1>4. ASSUME NEW k \in Connects, IssueConnect(k) PROVE FieldInv'
  BY <1>4, EnqueueFieldInv DEF IssueConnect, Tasks, Tracked, SlotOf
<1>5. CASE AfterDisconnect
  <2>1. CASE uiThen \in Connects
    <3>1. status[uiThen] = "new" /\ Enqueue(uiThen) /\ cancelled' = cancelled \cup CancelIn({"connectTask"})
      BY <1>5, <2>1, CommandSessionAssumption DEF AfterDisconnect, TaskInv, IssuedInv, Tasks
    <3>2. uiThen \in Tasks /\ Tracked(uiThen) /\ SlotOf(uiThen) = "connectTask"
      BY <2>1 DEF Tasks, Tracked, SlotOf
    <3> QED BY <3>1, <3>2, EnqueueFieldInv
  <2>2. CASE uiThen \notin Connects
    BY <1>5, <2>2, FieldFrame DEF AfterDisconnect, Unresolved
  <2> QED BY <2>1, <2>2
<1>6. ASSUME NEW next, BeginDisconnect(next),
             \A t \in Tasks : status'[t] = status[t] \/ status'[t] = "finished"
      PROVE  FieldInv'
  <2>1. \A s \in Slots : field'[s] = None
    BY <1>6 DEF BeginDisconnect, DisconnectCancels
  <2>2. cancelled' \subseteq cancelled \cup {t \in Tasks : Unresolved(t)}
    BY <1>6 DEF BeginDisconnect, CancelIn
  <2>3. \A t \in Tasks : Unresolved(t)' => Unresolved(t)
    BY <1>6 DEF Unresolved
  <2> QED BY <1>6, <2>1, <2>2, <2>3, FieldFrame
<1>7. ASSUME NEW next, UserDisconnect(next) PROVE FieldInv'
  BY <1>6, <1>7 DEF UserDisconnect
<1>8. CASE FinishTask
  <2>1. \A t \in Tasks : status'[t] = status[t] \/ status'[t] = "finished"
    BY <1>8 DEF FinishTask
  <2>2. CASE BeginDisconnect(None)
    BY <1>6, <2>1, <2>2
  <2>3. CASE UNCHANGED <<cancelled, field>>
    BY <2>1, <2>3, FieldFrame DEF Unresolved
  <2> QED BY <1>8, <2>2, <2>3 DEF FinishTask
<1>9. CASE DisconnectCheck \/ DisconnectClose \/ DisconnectCloseNull \/ DisconnectNull
  <2>1. UNCHANGED <<field, cancelled, status>>
    BY <1>9 DEF DisconnectCheck, DisconnectClose, DisconnectCloseNull, Crash, DisconnectNull, taskVars
  <2> QED BY <2>1 DEF FieldInv, Unresolved
<1> QED BY <1>1, <1>2, <1>3, <1>4, <1>5, <1>7, <1>8, <1>9 DEF UserAction, UiStep

LEMMA NextFieldInv == TypeInv /\ TaskInv /\ FieldInv /\ [Next]_vars => FieldInv'
<1> SUFFICES ASSUME TypeInv, TaskInv, FieldInv, [Next]_vars PROVE FieldInv' OBVIOUS
<1>1. CASE BoxStep \/ UNCHANGED vars
  BY <1>1 DEF BoxStep, BoxExecutes, BoxCloses, vars, taskVars, FieldInv, Unresolved
<1> QED BY <1>1, UiFieldInv, WorkerFieldInv DEF Next
(* The five lives of a task.                                                  *)
LEMMA LifeValues ==
  ASSUME TypeInv, NEW t \in Tasks
  PROVE  /\ status[t] = "new" => Life(t) = "new"
         /\ status[t] = "dropped" => Life(t) = "refused"
         /\ Live(t) => Life(t) = "pending"
         /\ Unresolved(t) /\ t \in cancelled => Life(t) = "silenced"
         /\ status[t] = "finished" => Life(t) = "over"
         /\ Life(t) = "pending" => Live(t)
  BY DEF TypeInv, TypeOK, TaskTypes, Statuses, Life, Live, Unresolved

(* Nothing that the user can tell.                                            *)
LEMMA StutterStep ==
  ASSUME TypeInv, TypeInv', UNCHANGED exec,
         \A t \in Tasks : \/ status'[t] = status[t]
                          \/ Unresolved(t) /\ status'[t] \in {"queued", "running", "posted"},
         \A t \in Tasks : t \in cancelled' <=> t \in cancelled
  PROVE  UNCHANGED Service!vars
<1>1. ASSUME NEW t \in Tasks PROVE Life(t)' = Life(t)
  <2>1. CASE status'[t] = status[t]
    BY <2>1 DEF Life, Live, Unresolved
  <2>2. CASE Unresolved(t) /\ status'[t] \in {"queued", "running", "posted"}
    BY <2>2 DEF Life, Live, Unresolved
  <2> QED BY <2>1, <2>2
<1>2. [t \in Tasks |-> Life(t)]' = [t \in Tasks |-> Life(t)]
  BY <1>1
<1> QED BY <1>2 DEF Service!vars

(* A request that is issued silences its rivals.                              *)
LEMMA IssueStep ==
  ASSUME TypeInv, TypeInv', TaskInv, FieldInv, UNCHANGED exec,
         NEW t \in Tasks, status[t] = "new", Enqueue(t),
         cancelled \subseteq cancelled',
         cancelled' \subseteq cancelled \cup (IF Tracked(t) THEN CancelIn({SlotOf(t)}) ELSE {}),
         Tracked(t) => \A u \in Tasks : Tracked(u) /\ Live(u) /\ SlotOf(u) = SlotOf(t) => u \in cancelled'
  PROVE  Service!Issue(t)
<1>1. status' = [status EXCEPT ![t] = "queued"] /\ status \in [Tasks -> Statuses]
  BY DEF Enqueue, TypeInv, TypeOK, TaskTypes
<1>2. Life(t) = "new"
  BY LifeValues
<1>3. t \notin cancelled'
  BY DEF FieldInv, CancelIn, Unresolved
<1>4. Life(t)' = "pending"
  BY <1>1, <1>3 DEF Life, Live, Unresolved
<1>5. ASSUME NEW u \in Tasks, u # t
      PROVE  Life(u)' = IF Tracked(u) /\ Tracked(t) /\ SlotOf(u) = SlotOf(t) /\ Life(u) = "pending"
                        THEN "silenced" ELSE Life(u)
  <2>1. status'[u] = status[u]
    BY <1>1, <1>5
  <2>2. CASE u \in cancelled' /\ u \notin cancelled
    <3>1. Tracked(t) /\ u \in CancelIn({SlotOf(t)})
      BY <2>2
    <3>2. field[SlotOf(t)] = u /\ SlotOf(t) \in Slots /\ Unresolved(u) /\ u # None
      BY <3>1, SlotOfType, CommandSessionAssumption DEF CancelIn
    <3>3. Tracked(u) /\ SlotOf(u) = SlotOf(t)
      BY <3>2 DEF FieldInv
    <3>4. Life(u) = "pending"
      BY <2>2, <3>2, LifeValues DEF Live
    <3>5. Life(u)' = "silenced"
      BY <2>1, <2>2, <3>2 DEF Life, Live, Unresolved
    <3> QED BY <3>1, <3>3, <3>4, <3>5
  <2>3. CASE u \in cancelled' <=> u \in cancelled
    <3>1. Life(u)' = Life(u)
      BY <2>1, <2>3 DEF Life, Live, Unresolved
    <3>2. Tracked(u) /\ Tracked(t) /\ SlotOf(u) = SlotOf(t) /\ Life(u) = "pending" => FALSE
      <4> SUFFICES ASSUME Tracked(u), Tracked(t), SlotOf(u) = SlotOf(t), Life(u) = "pending" PROVE FALSE
        OBVIOUS
      <4>1. Live(u)
        BY LifeValues
      <4>2. u \in cancelled'
        BY <4>1
      <4> QED BY <2>3, <4>1, <4>2 DEF Live
    <3> QED BY <3>1, <3>2
  <2> QED BY <2>2, <2>3
<1>6. [u \in Tasks |-> Life(u)]' = [Service!Silenced(Service!Rivals(t)) EXCEPT ![t] = "pending"]
  BY <1>4, <1>5 DEF Service!Silenced, Service!Rivals
<1> QED BY <1>2, <1>6 DEF Service!Issue
(* A song is given up only for a request that will still report.              *)
LEMMA RefuseStep ==
  ASSUME TypeInv, TypeInv', FieldInv, NEW c \in Cmds, IssueAdd(c), ~FieldFree("playlistTask")
  PROVE  Service!Refuse(c)
<1>1. c \in Tasks /\ status[c] = "new" /\ Op[c] = "add"
  BY DEF IssueAdd, Tasks
<1>2. status' = [status EXCEPT ![c] = "dropped"] /\ UNCHANGED <<cancelled, exec>>
  BY DEF IssueAdd, wireVars
<1>3. PICK u \in Tasks : u = field["playlistTask"] /\ status[u] # "finished"
  BY DEF FieldFree, TypeInv, TypeOK, TaskTypes, Slots
<1>4. Tracked(u) /\ SlotOf(u) = "playlistTask" /\ status[u] \notin {"new", "dropped"}
      /\ (Unresolved(u) => u \notin cancelled)
  BY <1>3, CommandSessionAssumption DEF FieldInv, Slots
<1>5. Life(u) = "pending"
  <2>1. Unresolved(u)
    BY <1>3, <1>4 DEF Unresolved, TypeInv, TypeOK, TaskTypes, Statuses
  <2> QED BY <1>4, <2>1, LifeValues DEF Live
<1>6. Tracked(c) /\ SlotOf(c) = "playlistTask" /\ u # c
  BY <1>1, <1>4, CommandSessionAssumption DEF Tracked, SlotOf
<1>7. u \in Service!Rivals(c)
  BY <1>1, <1>4, <1>6 DEF Service!Rivals
<1>8. Life(c) = "new" /\ Life(c)' = "refused"
  BY <1>1, <1>2 DEF Life, Live, Unresolved, TypeInv, TypeOK, TaskTypes
<1>9. \A t \in Tasks : t # c => Life(t)' = Life(t)
  <2> SUFFICES ASSUME NEW t \in Tasks, t # c PROVE Life(t)' = Life(t) OBVIOUS
  <2>1. status'[t] = status[t]
    BY <1>2 DEF TypeInv, TypeOK, TaskTypes
  <2> QED BY <1>2, <2>1 DEF Life, Live, Unresolved
<1>10. [t \in Tasks |-> Life(t)]' = [[t \in Tasks |-> Life(t)] EXCEPT ![c] = "refused"]
  BY <1>8, <1>9
<1> QED BY <1>1, <1>2, <1>5, <1>7, <1>8, <1>10 DEF Service!Refuse

(* disconnectFromRemoteHost reaches every tracked task that is live, and no    *)
(* other.                                                                      *)
LEMMA DisconnectReaches ==
  ASSUME TypeInv, TaskInv, FieldInv, NEW next, BeginDisconnect(next), NEW u \in Tasks
  PROVE  u \in cancelled' <=> u \in cancelled \/ (Live(u) /\ Tracked(u))
<1>1. cancelled' = cancelled \cup CancelIn(Slots)
  BY DEF BeginDisconnect, DisconnectCancels
<1>2. ASSUME Live(u), Tracked(u) PROVE u \in CancelIn(Slots)
  <2>1. field[SlotOf(u)] = u /\ SlotOf(u) \in Slots
    BY <1>2, SlotOfType DEF TaskInv, FieldHoldsLive
  <2> QED BY <1>2, <2>1 DEF CancelIn, Live
<1>3. ASSUME u \in CancelIn(Slots), u \notin cancelled PROVE Live(u) /\ Tracked(u)
  <2>1. PICK s \in Slots : field[s] = u /\ Unresolved(u)
    BY <1>3 DEF CancelIn
  <2>2. u # None
    BY CommandSessionAssumption
  <2> QED BY <1>3, <2>1, <2>2 DEF FieldInv, Live
<1> QED BY <1>1, <1>2, <1>3

\* What the disconnect makes of a life.
AfterSilence(u) == IF Tracked(u) /\ Life(u) = "pending" THEN "silenced" ELSE Life(u)

LEMMA SilencedLife ==
  ASSUME TypeInv, TypeInv', TaskInv, FieldInv, NEW next, BeginDisconnect(next),
         NEW u \in Tasks, status'[u] = status[u]
  PROVE  Life(u)' = AfterSilence(u)
<1>1. u \in cancelled' <=> u \in cancelled \/ (Live(u) /\ Tracked(u))
  BY DisconnectReaches
<1>2. Live(u) <=> Life(u) = "pending"
  BY LifeValues
<1>3. CASE Live(u) /\ Tracked(u)
  <2>1. Life(u)' = "silenced"
    BY <1>1, <1>3 DEF Life, Live, Unresolved
  <2> QED BY <1>2, <1>3, <2>1 DEF AfterSilence
<1>4. CASE ~(Live(u) /\ Tracked(u))
  <2>1. Life(u)' = Life(u)
    BY <1>1, <1>4 DEF Life, Live, Unresolved
  <2> QED BY <1>2, <1>4, <2>1 DEF AfterSilence
<1> QED BY <1>3, <1>4

LEMMA DisconnectStep ==
  ASSUME TypeInv, TypeInv', TaskInv, FieldInv, UNCHANGED <<exec, status>>,
         NEW next, BeginDisconnect(next)
  PROVE  Service!Disconnect
<1>1. \A u \in Tasks : Life(u)' = AfterSilence(u)
  <2> SUFFICES ASSUME NEW u \in Tasks PROVE Life(u)' = AfterSilence(u) OBVIOUS
  <2> QED BY SilencedLife
<1>2. [u \in Tasks |-> Life(u)]' = [u \in Tasks |-> AfterSilence(u)]
  BY <1>1
<1> QED BY <1>2 DEF Service!Disconnect, Service!Silenced, AfterSilence

(* The looper delivers a result, or drops that of a cancelled task; if the     *)
(* result tears the session down, the other requests fall silent.              *)
LEMMA FinishStep ==
  ASSUME TypeInv, TypeInv', TaskInv, FieldInv, FinishTask
  PROVE  Service!Next \/ UNCHANGED Service!vars
<1> USE DEF TypeInv, TypeOK, TaskTypes
<1>1. PICK t \in Tasks : t = Head(uiQueue) /\ status[t] \in {"posted", "finished"}
  <2>1. uiQueue \in Seq(Tasks) /\ uiQueue # <<>>
    BY DEF FinishTask
  <2>2. 1 \in 1 .. Len(uiQueue) /\ Head(uiQueue) = uiQueue[1] /\ uiQueue[1] \in Tasks
    BY <2>1
  <2> QED BY <2>2 DEF TaskInv, UiQueueInv
<1>2. status' = [status EXCEPT ![t] = "finished"] /\ UNCHANGED exec
  BY <1>1 DEF FinishTask, wireVars
<1>3. Life(t)' = "over"
  BY <1>2 DEF Life, Live, Unresolved
<1>4. CASE t \notin cancelled /\ BeginDisconnect(None)
  <2>1. ASSUME NEW u \in Tasks, u # t PROVE Life(u)' = AfterSilence(u)
    <3>1. status'[u] = status[u]
      BY <1>2, <2>1
    <3> QED BY <1>4, <3>1, SilencedLife
  <2>2. [u \in Tasks |-> Life(u)]' = [[u \in Tasks |-> AfterSilence(u)] EXCEPT ![t] = "over"]
    BY <1>3, <2>1
  <2>3. CASE status[t] = "posted"
    <3>1. Life(t) = "pending"
      BY <1>4, <2>3, LifeValues DEF Live, Unresolved
    <3>2. Service!Report(t)
      BY <1>2, <2>2, <3>1 DEF Service!Report, Service!Silenced, AfterSilence
    <3> QED BY <3>2 DEF Service!Next
  <2>4. CASE status[t] = "finished"
    <3>1. Life(t) = "over"
      BY <2>4, LifeValues
    <3>2. AfterSilence(t) = "over"
      BY <3>1 DEF AfterSilence
    <3>3. [u \in Tasks |-> Life(u)]' = [u \in Tasks |-> AfterSilence(u)]
      BY <2>2, <3>2
    <3>4. Service!Disconnect
      BY <1>2, <3>3 DEF Service!Disconnect, Service!Silenced, AfterSilence
    <3> QED BY <3>4 DEF Service!Next
  <2> QED BY <1>1, <2>3, <2>4
<1>5. CASE UNCHANGED cancelled
  <2>1. ASSUME NEW u \in Tasks, u # t PROVE Life(u)' = Life(u)
    <3>1. status'[u] = status[u]
      BY <1>2, <2>1
    <3> QED BY <1>5, <3>1 DEF Life, Live, Unresolved
  <2>2. [u \in Tasks |-> Life(u)]' = [[u \in Tasks |-> Life(u)] EXCEPT ![t] = "over"]
    BY <1>3, <2>1
  <2>3. CASE status[t] = "posted" /\ t \in cancelled
    <3>1. Life(t) = "silenced"
      BY <2>3, LifeValues DEF Unresolved
    <3>2. Service!Discard(t)
      BY <1>2, <2>2, <3>1 DEF Service!Discard
    <3> QED BY <3>2 DEF Service!Next
  <2>4. CASE status[t] = "posted" /\ t \notin cancelled
    <3>1. Life(t) = "pending"
      BY <2>4, LifeValues DEF Live, Unresolved
    <3>2. Service!Silenced({}) = [u \in Tasks |-> Life(u)]
      BY DEF Service!Silenced
    <3>3. Service!Report(t)
      BY <1>2, <2>2, <3>1, <3>2 DEF Service!Report
    <3> QED BY <3>3 DEF Service!Next
  <2>5. CASE status[t] = "finished"
    <3>1. Life(t) = "over"
      BY <2>5, LifeValues
    <3>2. [u \in Tasks |-> Life(u)]' = [u \in Tasks |-> Life(u)]
      BY <2>2, <3>1
    <3> QED BY <1>2, <3>2 DEF Service!vars
  <2> QED BY <1>1, <2>3, <2>4, <2>5
<1> QED BY <1>1, <1>4, <1>5 DEF FinishTask
(* The executor runs a task, or drops one that was silenced in time.           *)
LEMMA StartStep ==
  ASSUME TypeInv, TypeInv', TaskInv, FieldInv, NEW w \in Workers, StartTask(w)
  PROVE  Service!Next \/ UNCHANGED Service!vars
<1> USE DEF TypeInv, TypeOK, TaskTypes
<1>1. PICK t \in Tasks : t = Head(queue) /\ status[t] = "queued"
  <2>1. queue \in Seq(Tasks) /\ queue # <<>>
    BY DEF StartTask
  <2>2. 1 \in 1 .. Len(queue) /\ Head(queue) = queue[1] /\ queue[1] \in Tasks
    BY <2>1
  <2> QED BY <2>2 DEF TaskInv, QueueInv
<1>2. UNCHANGED <<exec, cancelled>>
  BY DEF StartTask, wireVars, taskVars
<1>3. CASE t \notin cancelled
  <2>1. status' = [status EXCEPT ![t] = "running"]
    BY <1>1, <1>3 DEF StartTask
  <2>2. \A u \in Tasks : \/ status'[u] = status[u]
                         \/ Unresolved(u) /\ status'[u] \in {"queued", "running", "posted"}
    BY <1>1, <2>1 DEF Unresolved
  <2> QED BY <1>2, <2>2, StutterStep
<1>4. CASE t \in cancelled
  <2>1. status' = [status EXCEPT ![t] = "finished"]
    BY <1>1, <1>4 DEF StartTask
  <2>2. Life(t) = "silenced"
    BY <1>1, <1>4, LifeValues DEF Unresolved
  <2>3. Life(t)' = "over"
    BY <2>1 DEF Life, Live, Unresolved
  <2>4. ASSUME NEW u \in Tasks, u # t PROVE Life(u)' = Life(u)
    <3>1. status'[u] = status[u]
      BY <2>1, <2>4
    <3> QED BY <1>2, <3>1 DEF Life, Live, Unresolved
  <2>5. [u \in Tasks |-> Life(u)]' = [[u \in Tasks |-> Life(u)] EXCEPT ![t] = "over"]
    BY <2>3, <2>4
  <2>6. Service!Discard(t)
    BY <1>2, <2>2, <2>5 DEF Service!Discard
  <2> QED BY <2>6 DEF Service!Next
<1> QED BY <1>3, <1>4

(* A running task does nothing that shows.                                     *)
LEMMA RunStep ==
  ASSUME TypeInv, TypeInv', TaskInv, NEW w \in Workers, ExchangeStep(w) \/ ConnectStep(w)
  PROVE  UNCHANGED Service!vars
<1>1. UNCHANGED <<exec, cancelled>>
  BY DEF ElseUnchanged, taskVars, wireVars, Crash, ExchangeStep, CheckSocket, CheckConnected,
     CheckConnectedNull, CallExchange, TakeLock, SendPackage, WriteFails, ReadFails, ReadReply, ReadEnd,
     GiveUp, CloseSocket, CloseSocketNull, DropSocket, DanceSend, DanceRead, ConnectStep, ConnectCheck,
     ConnectIsConnected, NewSocket, StartConnect, ConnectSucceeds, ConnectFails, SetSoTimeout, Handshake,
     ConnectNull
<1>2. UNCHANGED status \/ (Busy(w) /\ status' = [status EXCEPT ![cur[w]] = "posted"])
  <2>1. CASE Crash
    BY <2>1 DEF Crash
  <2>2. CASE ~Crash
    <3>1. Busy(w)
      BY <2>2, WorkerFrame
    <3>2. UNCHANGED status \/ status' = [status EXCEPT ![cur[w]] = "posted"]
      BY <2>2 DEF ExchangeStep, CheckSocket, CheckConnected, CheckConnectedNull, CallExchange, TakeLock,
         SendPackage, WriteFails, ReadFails, ReadReply, ReadEnd, GiveUp, CloseSocket, CloseSocketNull,
         DropSocket, DanceSend, DanceRead, ConnectStep, ConnectCheck, ConnectIsConnected, NewSocket,
         StartConnect, ConnectSucceeds, ConnectFails, SetSoTimeout, Handshake, ConnectNull, Return,
         NotReturning
    <3> QED BY <3>1, <3>2
  <2> QED BY <2>1, <2>2
<1>3. \A t \in Tasks : \/ status'[t] = status[t]
                       \/ Unresolved(t) /\ status'[t] \in {"queued", "running", "posted"}
  BY <1>2 DEF TaskInv, RunInv, Unresolved, TypeInv, TypeOK, TaskTypes
<1> QED BY <1>1, <1>3, StutterStep

(* The box executes only what was issued, and not too often.                   *)
LEMMA ExecuteStep ==
  ASSUME TypeInv, TypeInv', SentInv, NEW k \in Connects, BoxExecutes(k)
  PROVE  Service!Next
<1>1. toBox[k] \in Seq(Cmds) /\ toBox[k] # <<>>
  BY DEF TypeInv, TypeOK, WireTypes, BoxExecutes
<1>2. PICK c \in Cmds : c = Head(toBox[k]) /\ c = toBox[k][1] /\ 1 <= Len(toBox[k])
  BY <1>1
<1>3. <<k, 1>> \in Waiting(c)
  BY <1>2 DEF Waiting
<1>4. IsFiniteSet(Waiting(c)) /\ Cardinality(Waiting(c)) \in Nat /\ exec[c] \in Nat
  BY SentType DEF SentInv
<1>5. Cardinality(Waiting(c)) # 0
  <2>1. Waiting(c) # {}
    BY <1>3
  <2> QED BY <1>4, <2>1, FS_EmptySet
<1>6. exec[c] < MaxTries /\ status[c] \notin {"new", "dropped"}
  BY <1>4, <1>5, CommandSessionAssumption DEF SentInv, Sent
<1>7. Life(c) \notin {"new", "refused"}
  <2>1. c \in Tasks
    BY DEF Tasks
  <2> QED BY <1>6, <2>1 DEF Life, Live, Unresolved, TypeInv, TypeOK, TaskTypes, Statuses
<1>8. exec' = [exec EXCEPT ![c] = @ + 1] /\ UNCHANGED <<status, cancelled>>
  BY <1>2 DEF BoxExecutes, taskVars
<1>9. [t \in Tasks |-> Life(t)]' = [t \in Tasks |-> Life(t)]
  BY <1>8 DEF Life, Live, Unresolved
<1>10. Service!Execute(c)
  <2>1. c \in Tasks
    BY DEF Tasks
  <2> QED BY <1>6, <1>7, <1>8, <1>9, <2>1 DEF Service!Execute
<1> QED BY <1>10 DEF Service!Next

(* The UI thread.                                                              *)
LEMMA UiStepRefines ==
  ASSUME TypeInv, TypeInv', TaskInv, FieldInv, UserAction \/ UiStep
  PROVE  Service!Next \/ UNCHANGED Service!vars
<1>1. ASSUME NEW t \in Tasks, Service!Issue(t) PROVE Service!Next
  BY <1>1 DEF Service!Next
<1>2. ASSUME NEW c \in Cmds, IssueReplacing(c) PROVE Service!Next
  <2>1. c \in Tasks /\ Tracked(c) /\ status[c] = "new" /\ Enqueue(c) /\ UNCHANGED exec
        /\ cancelled' = cancelled \cup CancelIn({SlotOf(c)})
    BY <1>2 DEF IssueReplacing, Tasks, Tracked, wireVars
  <2>2. \A u \in Tasks : Tracked(u) /\ Live(u) /\ SlotOf(u) = SlotOf(c) => u \in cancelled'
    BY <2>1, SlotOfType DEF TaskInv, FieldHoldsLive, CancelIn, Live
  <2> QED BY <1>1, <2>1, <2>2, IssueStep
<1>3. ASSUME NEW c \in Cmds, IssueSort(c) PROVE Service!Next
  <2>1. c \in Tasks /\ ~Tracked(c) /\ status[c] = "new" /\ Enqueue(c) /\ UNCHANGED <<exec, cancelled>>
    BY <1>3, CommandSessionAssumption DEF IssueSort, Tasks, Tracked, wireVars
  <2> QED BY <1>1, <2>1, IssueStep
<1>4. ASSUME NEW c \in Cmds, IssueAdd(c) PROVE Service!Next
  <2>1. CASE FieldFree("playlistTask")
    <3>1. c \in Tasks /\ SlotOf(c) = "playlistTask" /\ status[c] = "new" /\ Enqueue(c)
          /\ UNCHANGED <<exec, cancelled>>
      BY <1>4, <2>1, CommandSessionAssumption DEF IssueAdd, Tasks, SlotOf, wireVars
    <3>2. \A u \in Tasks : Tracked(u) /\ Live(u) /\ SlotOf(u) = SlotOf(c) => FALSE
      BY <2>1, <3>1, CommandSessionAssumption
      DEF FieldFree, TaskInv, FieldHoldsLive, Live, Unresolved
    <3> QED BY <1>1, <3>1, <3>2, IssueStep
  <2>2. CASE ~FieldFree("playlistTask")
    <3>1. Service!Refuse(c)
      BY <1>4, <2>2, RefuseStep
    <3>2. c \in Tasks
      BY DEF Tasks
    <3> QED BY <3>1, <3>2 DEF Service!Next
  <2> QED BY <2>1, <2>2
<1>5. ASSUME NEW k \in Connects, status[k] = "new", Enqueue(k), UNCHANGED exec,
             cancelled' = cancelled \cup CancelIn({"connectTask"})
      PROVE  Service!Next
  <2>1. k \in Tasks /\ Tracked(k) /\ SlotOf(k) = "connectTask"
    BY DEF Tasks, Tracked, SlotOf
  <2>2. \A u \in Tasks : Tracked(u) /\ Live(u) /\ SlotOf(u) = SlotOf(k) => u \in cancelled'
    BY <1>5, <2>1, SlotOfType DEF TaskInv, FieldHoldsLive, CancelIn, Live
  <2> QED BY <1>1, <1>5, <2>1, <2>2, IssueStep
<1>6. ASSUME NEW k \in Connects, IssueConnect(k) PROVE Service!Next
  BY <1>5, <1>6 DEF IssueConnect, wireVars
<1>7. ASSUME NEW next, UserDisconnect(next) PROVE Service!Next
  <2>1. Service!Disconnect
    BY <1>7, DisconnectStep DEF UserDisconnect, wireVars
  <2> QED BY <2>1 DEF Service!Next
<1>8. CASE AfterDisconnect
  <2>1. CASE uiThen \in Connects
    <3>1. status[uiThen] = "new" /\ Enqueue(uiThen) /\ cancelled' = cancelled \cup CancelIn({"connectTask"})
      BY <1>8, <2>1, CommandSessionAssumption DEF AfterDisconnect, TaskInv, IssuedInv, Tasks
    <3> QED BY <1>5, <1>8, <2>1, <3>1 DEF AfterDisconnect, wireVars
  <2>2. CASE uiThen \notin Connects
    BY <1>8, <2>2, StutterStep DEF AfterDisconnect, wireVars
  <2> QED BY <2>1, <2>2
<1>9. CASE FinishTask
  BY <1>9, FinishStep
<1>10. CASE DisconnectCheck \/ DisconnectClose \/ DisconnectCloseNull \/ DisconnectNull
  <2>1. UNCHANGED <<status, cancelled, exec>>
    BY <1>10 DEF DisconnectCheck, DisconnectClose, DisconnectCloseNull, Crash, DisconnectNull, taskVars,
       wireVars
  <2> QED BY <2>1, StutterStep
<1> QED BY <1>2, <1>3, <1>4, <1>6, <1>7, <1>8, <1>9, <1>10 DEF UserAction, UiStep

(* Every step of the session is one that the service allows, or none.          *)
LEMMA NextRefines ==
  TypeInv /\ TypeInv' /\ TaskInv /\ SentInv /\ FieldInv /\ [Next]_vars => [Service!Next]_(Service!vars)
<1> SUFFICES ASSUME TypeInv, TypeInv', TaskInv, SentInv, FieldInv, [Next]_vars
             PROVE  Service!Next \/ UNCHANGED Service!vars
  OBVIOUS
<1>1. CASE UserAction \/ UiStep
  BY <1>1, UiStepRefines
<1>2. CASE WorkerStep
  BY <1>2, StartStep, RunStep DEF WorkerStep
<1>3. CASE \E k \in Connects : BoxExecutes(k)
  BY <1>3, ExecuteStep
<1>4. CASE UNCHANGED vars \/ \E k \in Connects : BoxCloses(k)
  BY <1>4, StutterStep DEF vars, BoxCloses, taskVars, wireVars
<1> QED BY <1>1, <1>2, <1>3, <1>4 DEF Next, BoxStep

(* For any commands, connects, threads and tries: the user cannot tell the     *)
(* session from CommandService, whatever its threads, races and resends do.    *)
THEOREM SessionImplementsService == Spec => ImplementsService
<1>1. Spec => [](TypeInv /\ WireInv /\ TaskInv /\ SentInv /\ FieldInv)
  BY InitTypeInv, NextTypeInv, InitWireInv, NextWireInv, InitTaskInv, NextTaskInv, InitSentInv,
     NextSentInv, InitFieldInv, NextFieldInv, PTL DEF Spec
<1>2. Init => Service!Init
  <2> SUFFICES ASSUME Init PROVE Service!Init OBVIOUS
  <2>1. \A t \in Tasks : Life(t) = "new"
    BY InitTypeInv, LifeValues DEF Init
  <2> QED BY <2>1 DEF Init, Service!Init
<1> QED BY <1>1, <1>2, NextRefines, PTL DEF Spec, ImplementsService, Service!Spec
=============================================================================
