---------------------------- MODULE SocketServer ----------------------------
(***************************************************************************)
(* rct/SocketServer.cpp: connections that the kernel queues, accepted in   *)
(* the callback of the event loop, which is told of an arrival once        *)
(* (EPOLLET), and handed out by nextConnection.  All of it runs on the     *)
(* loop's thread; a slot of newConnection runs inside the accept loop and  *)
(* may take connections, or none, or close the server.                     *)
(***************************************************************************)
EXTENDS Naturals, Sequences

CONSTANTS
    Backlog,            \* connections the kernel queues
    MaxConnections,
    MaxListens          \* calls of listen

ASSUME ServerAssumption == Backlog \in Nat \ {0} /\ MaxConnections \in Nat /\ MaxListens \in Nat

VARIABLES
    serverFd,       \* "closed", or what it listens on: "tcp", "unix", "fd"
    serverPath,     \* whether path is set
    accepted,       \* the queue of nextConnection
    serverAt,       \* "idle", "accept" or "slot", in socketCallback
    backlog,        \* the kernel's queue
    serverEdge,     \* whether the loop has an event of the socket to report
    serverErrors,   \* calls of serverError
    listens,
    connections,    \* history: connections made so far, which are numbered
    handed          \* history: what nextConnection returned, with its mode

kernelQueue == <<backlog, serverEdge, connections>>
fdVars      == <<serverFd, serverPath>>
serverVars  == <<fdVars, accepted, serverAt, kernelQueue, serverErrors, listens, handed>>

ServerInit ==
    /\ serverFd = "closed" /\ serverPath = FALSE
    /\ accepted = <<>> /\ handed = <<>>
    /\ serverAt = "idle"
    /\ backlog = <<>> /\ serverEdge = FALSE
    /\ serverErrors = 0 /\ listens = 0 /\ connections = 0

-----------------------------------------------------------------------------

(* close: what the kernel has queued is reset, what was accepted stays *)
CloseFd ==
    /\ serverFd' = "closed" /\ serverPath' = FALSE
    /\ backlog' = <<>> /\ serverEdge' = FALSE

ServerClose ==
    /\ serverAt \in {"idle", "slot"} /\ serverFd # "closed"
    /\ CloseFd
    /\ UNCHANGED <<accepted, serverAt, connections, serverErrors, listens, handed>>

(* listen and listenFD close, then make or take a socket, bind and listen; *)
(* each may fail.  Only listen on a path sets path.                        *)
ServerListens(kind) ==
    /\ serverAt \in {"idle", "slot"} /\ listens < MaxListens
    /\ listens' = listens + 1
    /\ serverFd' = kind /\ serverPath' = (kind = "unix")
    /\ backlog' = <<>> /\ serverEdge' = FALSE
    /\ UNCHANGED <<accepted, serverAt, connections, serverErrors, handed>>

ListenFails ==
    /\ serverAt \in {"idle", "slot"} /\ listens < MaxListens
    /\ listens' = listens + 1
    /\ CloseFd
    /\ serverErrors' = serverErrors + 1
    /\ UNCHANGED <<accepted, serverAt, connections, handed>>

NextConnection ==
    /\ serverAt \in {"idle", "slot"} /\ accepted # <<>>
    /\ handed' = Append(handed, [id |-> Head(accepted), mode |-> IF serverPath THEN "unix" ELSE "tcp"])
    /\ accepted' = Tail(accepted)
    /\ UNCHANGED <<fdVars, serverAt, kernelQueue, serverErrors, listens>>

-----------------------------------------------------------------------------
(* socketCallback *)

ServerReadable ==
    /\ serverAt = "idle" /\ serverEdge
    /\ serverEdge' = FALSE
    /\ serverAt' = "accept"
    /\ UNCHANGED <<fdVars, accepted, backlog, connections, serverErrors, listens, handed>>

(* Mutant: one connection for each event *)
AcceptsOne ==
    /\ serverAt = "accept" /\ serverFd # "closed" /\ backlog # <<>>
    /\ accepted' = Append(accepted, Head(backlog))
    /\ backlog' = Tail(backlog)
    /\ serverAt' = "idle"
    /\ UNCHANGED <<fdVars, serverEdge, connections, serverErrors, listens, handed>>

Accepts ==
    /\ serverAt = "accept" /\ serverFd # "closed" /\ backlog # <<>>
    /\ accepted' = Append(accepted, Head(backlog))
    /\ backlog' = Tail(backlog)
    /\ serverAt' = "slot"
    /\ UNCHANGED <<fdVars, serverEdge, connections, serverErrors, listens, handed>>

SlotReturns ==
    /\ serverAt = "slot"
    /\ serverAt' = "accept"
    /\ UNCHANGED <<fdVars, accepted, kernelQueue, serverErrors, listens, handed>>

AcceptsNone ==
    /\ serverAt = "accept" /\ serverFd # "closed" /\ backlog = <<>>
    /\ serverAt' = "idle"
    /\ UNCHANGED <<fdVars, accepted, kernelQueue, serverErrors, listens, handed>>

(* Any other error, EBADF after a slot has closed the server among them *)
AcceptFails ==
    /\ serverAt = "accept"
    /\ serverErrors' = serverErrors + 1
    /\ CloseFd
    /\ serverAt' = "idle"
    /\ UNCHANGED <<accepted, connections, listens, handed>>

-----------------------------------------------------------------------------
(* A client; the kernel turns it away when the queue is full *)

ClientConnects ==
    /\ serverFd # "closed" /\ connections < MaxConnections
    /\ Len(backlog) < Backlog
    /\ connections' = connections + 1
    /\ backlog' = Append(backlog, connections')
    /\ serverEdge' = TRUE
    /\ UNCHANGED <<fdVars, accepted, serverAt, serverErrors, listens, handed>>

ServerNext ==
    \/ ServerClose \/ ListenFails \/ NextConnection
    \/ \E kind \in {"tcp", "unix", "fd"} : ServerListens(kind)
    \/ ServerReadable \/ Accepts \/ SlotReturns \/ AcceptsNone \/ AcceptFails
    \/ ClientConnects

ServerSpec == ServerInit /\ [][ServerNext]_serverVars

Modes == {"tcp", "unix"}

ServerType ==
    /\ serverFd \in {"closed", "tcp", "unix", "fd"} /\ serverPath \in BOOLEAN
    /\ serverAt \in {"idle", "accept", "slot"} /\ serverEdge \in BOOLEAN
    /\ accepted \in Seq(Nat) /\ backlog \in Seq(Nat)
    /\ handed \in Seq([id : Nat, mode : Modes])
    /\ serverErrors \in Nat /\ listens \in Nat /\ connections \in Nat

(* The connections that are known of, the oldest first. *)
Known == [i \in DOMAIN handed |-> handed[i].id] \o accepted \o backlog

(* A connection the kernel has queued is never forgotten, though the loop  *)
(* is told of it only once and more may come while others are accepted,    *)
(* and connections are handed out in the order in which they were made,    *)
(* each once, whether the slots take them as they come or later            *)
(* (SocketServer.cpp 201-245).                                             *)
ConnectionsServed ==
    /\ serverAt = "idle" /\ backlog # <<>> => serverEdge
    /\ \A i, k \in DOMAIN Known : i < k => Known[i] < Known[k]

(* None of them is one that is still to come: with it, ConnectionsServed   *)
(* is inductive.                                                           *)
KnownHasCome == \A i \in DOMAIN Known : Known[i] <= connections

ServerInv == ServerType /\ ConnectionsServed /\ KnownHasCome
=============================================================================
