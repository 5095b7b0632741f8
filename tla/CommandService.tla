--------------------------- MODULE CommandService ---------------------------
(***************************************************************************)
(* What the command session promises its user, without threads, sockets,   *)
(* queues or retries.  A request that is issued calls back at most once.   *)
(* A newer request of its kind, a disconnect, or the failure of another    *)
(* request silences it, and a silenced request calls nobody.  The box      *)
(* executes a command only if it was issued, and a bounded number of times.*)
(*                                                                         *)
(* CommandSession implements this specification.                           *)
(***************************************************************************)
EXTENDS Naturals

CONSTANTS
    Tasks,       \* requests: commands and connects
    Cmds,        \* the commands among them
    Cancellable, \* the requests a disconnect or a newer one can silence
    Kind,        \* Kind[t] of such a request: which ones replace each other
    MaxTries     \* how often a command may be executed

VARIABLES
    life,        \* life[t]: new, refused, pending, silenced or over
    exec         \* exec[c]: how often the box has executed command c

vars == <<life, exec>>

Rivals(t) == {u \in Cancellable : t \in Cancellable /\ u # t /\ Kind[u] = Kind[t]}

\* life when the pending requests of S will not call back any more.
Silenced(S) ==
    [t \in Tasks |-> IF t \in S /\ life[t] = "pending" THEN "silenced" ELSE life[t]]

Init ==
    /\ life = [t \in Tasks |-> "new"]
    /\ exec = [c \in Cmds |-> 0]

\* A request replaces the pending one of its kind ...
Issue(t) ==
    /\ life[t] = "new"
    /\ life' = [Silenced(Rivals(t)) EXCEPT ![t] = "pending"]
    /\ UNCHANGED exec

\* ... or gives way to it.
Refuse(t) ==
    /\ life[t] = "new"
    /\ \E u \in Rivals(t) : life[u] = "pending"
    /\ life' = [life EXCEPT ![t] = "refused"]
    /\ UNCHANGED exec

Disconnect ==
    /\ life' = Silenced(Cancellable)
    /\ UNCHANGED exec

\* The callback.  One that tells of a lost connection ends the session, and
\* with it every other such request.
Report(t) ==
    /\ life[t] = "pending"
    /\ \E S \in {{}, Cancellable} : life' = [Silenced(S) EXCEPT ![t] = "over"]
    /\ UNCHANGED exec

Discard(t) ==
    /\ life[t] = "silenced"
    /\ life' = [life EXCEPT ![t] = "over"]
    /\ UNCHANGED exec

\* The network is slow: also a request that is over may still be executed.
Execute(c) ==
    /\ life[c] \notin {"new", "refused"}
    /\ exec[c] < MaxTries
    /\ exec' = [exec EXCEPT ![c] = @ + 1]
    /\ UNCHANGED life

Next ==
    \/ \E t \in Tasks : Issue(t) \/ Refuse(t) \/ Report(t) \/ Discard(t)
    \/ Disconnect
    \/ \E c \in Cmds : Execute(c)

Spec == Init /\ [][Next]_vars
=============================================================================
