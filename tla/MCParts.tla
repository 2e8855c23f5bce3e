------------------------------- MODULE MCParts -------------------------------
(* Parts that share no state, checked side by side: a behaviour picks one  *)
(* of them, and only that one moves.                                       *)
EXTENDS ReadWriteLock, ProcessInput, SocketServer, FileSystemWatcher, EmbeddedLinkedList, Path

VARIABLE part

partsVars == <<part, vars, inputVars, serverVars, watcherVars, listVars, canonVars>>

PartsInit ==
    /\ part \in {"lock", "input", "server", "watcher", "list", "path"}
    /\ Init /\ (part # "lock" => \A l \in Lockers : type[l] = "Read" /\ ~timed[l])
    /\ InputInit /\ ServerInit /\ ListInit
    /\ WatcherInit /\ (part # "watcher" => files = {} /\ removeDelay)
    /\ PathInit /\ (part # "path" => original = <<"/">>)

PartsNext ==
    /\ UNCHANGED part
    /\ \/ part = "lock" /\ Next /\ UNCHANGED <<inputVars, serverVars, watcherVars, listVars, canonVars>>
       \/ part = "input" /\ InputNext /\ UNCHANGED <<vars, serverVars, watcherVars, listVars, canonVars>>
       \/ part = "server" /\ ServerNext /\ UNCHANGED <<vars, inputVars, watcherVars, listVars, canonVars>>
       \/ part = "watcher" /\ WatcherNext /\ UNCHANGED <<vars, inputVars, serverVars, listVars, canonVars>>
       \/ part = "list" /\ ListNext /\ UNCHANGED <<vars, inputVars, serverVars, watcherVars, canonVars>>
       \/ part = "path" /\ PathNext /\ UNCHANGED <<vars, inputVars, serverVars, watcherVars, listVars>>

(* Nothing is assumed of the scheduling of the parts other than the lock *)
PartsSpec == PartsInit /\ [][PartsNext]_partsVars /\ Fairness
=============================================================================
