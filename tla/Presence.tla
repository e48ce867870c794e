------------------------------ MODULE Presence ------------------------------
(***************************************************************************)
(* Who is online, told by several API processes through Redis              *)
(* (realtime/presence.ts, the connection handler of realtime/socket.ts):   *)
(* the keys of one member.                                                 *)
(*                                                                         *)
(* A connection adds a reference to its socket, a disconnection removes    *)
(* it, counts what is left and, when nothing is, sets the member offline.  *)
(* A process that dies without a disconnection is found by its missing     *)
(* heartbeat, and another one sweeps its references.  A pipeline of        *)
(* commands is one step, the awaits between them are not.  Redis answers   *)
(* here; the memory fallback of a single process is left out, and so is    *)
(* what watchers are told.                                                 *)
(***************************************************************************)
EXTENDS Naturals, FiniteSets

CONSTANTS Servers,          \* API processes; one that is started again is another one
          Sockets           \* connections of the member's devices

ASSUME PresenceAssumption == IsFiniteSet(Servers) /\ IsFiniteSet(Sockets)

VARIABLES socket,           \* what the handler of each connection is at
          server,           \* "up", "closing", "down"
          refs,             \* presence:user:sockets
          known,            \* presence:socket, the sockets whose member is known
          held,             \* presence:server:sockets
          online,           \* the member is in presence:online
          listed,           \* presence:servers
          beating,          \* servers whose heartbeat key exists
          sweep,            \* reconcileDeadPresenceServers, by the server that runs it
          lapsed,           \* history: servers whose heartbeat lapsed while they were up
          stuck,            \* history: references nobody is sure to remove
          latecomers,             \* history: references added when a removal had counted none
          unfinished        \* history: a removal died before it set offline, and none added since

presenceVars == <<socket, server, refs, known, held, online, listed, beating, sweep,
                  lapsed, stuck, latecomers, unfinished>>
userKeys == <<refs, online, latecomers, unfinished>>
serverKeys == <<server, listed, beating, lapsed>>

NoSweep == [pc |-> "idle", list |-> {}, victim |-> {}, todo |-> {}, ref |-> {}]

PresenceInit ==
    /\ socket = [k \in Sockets |-> [pc |-> "none", at |-> {}, up |-> FALSE]]
    /\ server = [s \in Servers |-> "up"]
    /\ refs = {} /\ known = {}
    /\ held = [s \in Servers |-> {}]
    /\ online = FALSE
    /\ listed = {} /\ beating = {}
    /\ sweep = [s \in Servers |-> NoSweep]
    /\ lapsed = {} /\ stuck = {}
    /\ latecomers = {} /\ unfinished = FALSE

On(k, s) == socket[k].at = {s}
Handler(k, pc) == socket' = [socket EXCEPT ![k].pc = pc]

-----------------------------------------------------------------------------
(***************************************************************************)
(* A connection                                                            *)
(***************************************************************************)
Connect(k, s) ==
    /\ socket[k].pc = "none" /\ server[s] # "down"
    /\ socket' = [socket EXCEPT ![k] = [pc |-> "adding", at |-> {s}, up |-> TRUE]]
    /\ UNCHANGED <<userKeys, serverKeys, known, held, sweep, stuck>>

\* A removal, or a sweep, is about to set the member offline.
Deciding ==
    \/ \E k \in Sockets : socket[k].pc = "last"
    \/ \E s \in Servers : sweep[s].pc = "last"

\* redisAdd
AddRef(k, s) ==
    /\ socket[k].pc = "adding" /\ On(k, s)
    /\ refs' = refs \cup {k} /\ known' = known \cup {k}
    /\ held' = [held EXCEPT ![s] = @ \cup {k}]
    /\ online' = TRUE /\ unfinished' = FALSE
    /\ latecomers' = IF Deciding THEN latecomers \cup {k} ELSE latecomers
    /\ listed' = listed \cup {s} /\ beating' = beating \cup {s}
    /\ Handler(k, "joined")
    /\ UNCHANGED <<server, sweep, lapsed, stuck>>

\* The disconnect handler is registered after presenceAdd and the snapshot were awaited: a
\* disconnection before that is not noticed.
RegisterHandler(k) ==
    /\ socket[k].pc = "joined"
    /\ IF socket[k].up THEN Handler(k, "handled") /\ UNCHANGED stuck
       ELSE Handler(k, "gone") /\ stuck' = stuck \cup {k}
    /\ UNCHANGED <<userKeys, serverKeys, known, held, sweep>>

Disconnects(k) ==
    /\ socket[k].up
    /\ socket' = [socket EXCEPT ![k].up = FALSE,
                                ![k].pc = IF @ = "handled" THEN "removing" ELSE @]
    /\ UNCHANGED <<userKeys, serverKeys, known, held, sweep, stuck>>

\* redisRemove: whose socket it is, ...
LookUp(k) ==
    /\ socket[k].pc = "removing"
    /\ Handler(k, IF k \in known THEN "dropping" ELSE "gone")
    /\ UNCHANGED <<userKeys, serverKeys, known, held, sweep, stuck>>

\* Faulty variant: the member keeps the reference.
RemoveRefOfSocket(k, s) ==
    /\ socket[k].pc = "dropping" /\ On(k, s)
    /\ known' = known \ {k}
    /\ held' = [held EXCEPT ![s] = @ \ {k}]
    /\ Handler(k, "counting")
    /\ UNCHANGED <<userKeys, serverKeys, sweep, stuck>>

\* ... the reference goes, whoever has taken it meanwhile, ...
RemoveRef(k, s) ==
    /\ socket[k].pc = "dropping" /\ On(k, s)
    /\ refs' = refs \ {k} /\ known' = known \ {k}
    /\ held' = [held EXCEPT ![s] = @ \ {k}]
    /\ Handler(k, "counting")
    /\ UNCHANGED <<serverKeys, online, latecomers, unfinished, sweep, stuck>>

\* ... then what is left is counted, ...

\* Faulty variant: the last but one counts as the last.
NoneLeftButOne == Cardinality(refs) <= 1

NoneLeft == refs = {}

CountRefs(k) ==
    /\ socket[k].pc = "counting"
    /\ Handler(k, IF NoneLeft THEN "last" ELSE "gone")
    /\ UNCHANGED <<userKeys, serverKeys, known, held, sweep, stuck>>

\* ... and the member is offline when nothing was, whoever has connected meanwhile.
SetOffline ==
    /\ online' = FALSE
    /\ unfinished' = FALSE
    /\ UNCHANGED <<refs, latecomers>>

GoOffline(k) ==
    /\ socket[k].pc = "last"
    /\ SetOffline
    /\ Handler(k, "gone")
    /\ UNCHANGED <<serverKeys, known, held, sweep, stuck>>

-----------------------------------------------------------------------------
(***************************************************************************)
(* A process                                                               *)
(***************************************************************************)
Beat(s) ==
    /\ server[s] # "down"
    /\ listed' = listed \cup {s} /\ beating' = beating \cup {s}
    /\ UNCHANGED <<userKeys, server, lapsed, socket, known, held, sweep, stuck>>

\* 45 s without a heartbeat, of a dead process or of one that was held up.
BeatLapses(s) ==
    /\ s \in beating
    /\ beating' = beating \ {s}
    /\ lapsed' = IF server[s] = "down" THEN lapsed ELSE lapsed \cup {s}
    /\ UNCHANGED <<userKeys, server, listed, socket, known, held, sweep, stuck>>

\* What dies with a removal under way, or with a sweep.
Removing(s) == \E k \in Sockets : On(k, s) /\ socket[k].pc \in {"counting", "last"}
Sweeping(s) == sweep[s].pc \in {"count", "last"}
InHand(s) == IF sweep[s].pc = "drop" THEN sweep[s].ref ELSE {}

SweepDone(s) ==
    /\ server' = [server EXCEPT ![s] = "down"]
    /\ socket' = [k \in Sockets |-> IF On(k, s) THEN [socket[k] EXCEPT !.pc = "gone", !.up = FALSE]
                                    ELSE socket[k]]
    /\ sweep' = [sweep EXCEPT ![s] = NoSweep]
    /\ unfinished' = (unfinished \/ Removing(s) \/ Sweeping(s))

ProcessDies(s) ==
    /\ server[s] # "down"
    /\ SweepDone(s)
    /\ stuck' = stuck \cup InHand(s)
    /\ UNCHANGED <<refs, online, latecomers, known, held, listed, beating, lapsed>>

\* clearLocalPresenceFromRedis removes the references it finds, ...
Close(s) ==
    /\ server[s] = "up"
    /\ server' = [server EXCEPT ![s] = "closing"]
    /\ socket' = [k \in Sockets |->
          IF k \in held[s] /\ socket[k].pc \in {"joined", "handled", "gone"}
          THEN [socket[k] EXCEPT !.pc = "removing"] ELSE socket[k]]
    /\ UNCHANGED <<userKeys, listed, beating, lapsed, known, held, sweep, stuck>>

\* ... then the process's own keys, and exits; what was added meanwhile is forgotten.
CloseEnds(s) ==
    /\ server[s] = "closing"
    /\ \A k \in Sockets : On(k, s) => socket[k].pc \notin {"removing", "dropping", "counting", "last"}
    /\ SweepDone(s)
    /\ stuck' = stuck \cup held[s] \cup InHand(s)
    /\ held' = [held EXCEPT ![s] = {}]
    /\ listed' = listed \ {s} /\ beating' = beating \ {s}
    /\ UNCHANGED <<refs, online, latecomers, known, lapsed>>

-----------------------------------------------------------------------------
(***************************************************************************)
(* reconcileDeadPresenceServers                                            *)
(***************************************************************************)
Sweeps(s, pc) == server[s] # "down" /\ sweep[s].pc = pc

SweepLists(s) ==
    /\ Sweeps(s, "idle")
    /\ listed \ {s} # {}
    /\ sweep' = [sweep EXCEPT ![s] = [NoSweep EXCEPT !.pc = "check", !.list = listed \ {s}]]
    /\ UNCHANGED <<userKeys, serverKeys, socket, known, held, stuck>>

\* Faulty variant: every other server is taken for dead.
DeadAssumed(v) == TRUE

Dead(v) == v \notin beating

SweepChecks(s) ==
    /\ Sweeps(s, "check")
    /\ \E v \in sweep[s].list :
          sweep' = [sweep EXCEPT ![s].list = @ \ {v}, ![s].victim = {v},
                                 ![s].pc = IF Dead(v) THEN "refs" ELSE "check"]
    /\ UNCHANGED <<userKeys, serverKeys, socket, known, held, stuck>>

SweepReads(s) ==
    /\ Sweeps(s, "refs")
    /\ \E v \in sweep[s].victim :
          sweep' = [sweep EXCEPT ![s].pc = "each", ![s].todo = held[v]]
    /\ UNCHANGED <<userKeys, serverKeys, socket, known, held, stuck>>

\* Whose socket it is, ...
SweepTakes(s) ==
    /\ Sweeps(s, "each")
    /\ \E k \in sweep[s].todo :
          sweep' = [sweep EXCEPT ![s].todo = @ \ {k}, ![s].ref = {k},
                                 ![s].pc = IF k \in known THEN "take" ELSE "clear"]
    /\ UNCHANGED <<userKeys, serverKeys, socket, known, held, stuck>>

\* ... the socket's own keys, ...
SweepClears(s) ==
    /\ Sweeps(s, "take") \/ Sweeps(s, "clear")
    /\ known' = known \ sweep[s].ref
    /\ \E v \in sweep[s].victim : held' = [held EXCEPT ![v] = @ \ sweep[s].ref]
    /\ sweep' = [sweep EXCEPT ![s].pc = IF @ = "take" THEN "drop" ELSE "each"]
    /\ UNCHANGED <<userKeys, serverKeys, socket, stuck>>

\* ... then the member's, of a socket whose member was known.
SweepDrops(s) ==
    /\ Sweeps(s, "drop")
    /\ refs' = refs \ sweep[s].ref
    /\ sweep' = [sweep EXCEPT ![s].pc = "count"]
    /\ UNCHANGED <<serverKeys, online, latecomers, unfinished, socket, known, held, stuck>>

SweepCounts(s) ==
    /\ Sweeps(s, "count")
    /\ sweep' = [sweep EXCEPT ![s].pc = IF NoneLeft THEN "last" ELSE "each"]
    /\ UNCHANGED <<userKeys, serverKeys, socket, known, held, stuck>>

SweepSetsOffline(s) ==
    /\ Sweeps(s, "last")
    /\ SetOffline
    /\ sweep' = [sweep EXCEPT ![s].pc = "each"]
    /\ UNCHANGED <<serverKeys, socket, known, held, stuck>>

\* The dead server's keys go, with what a server that was not dead has added.
SweepForgets(s) ==
    /\ Sweeps(s, "each") /\ sweep[s].todo = {}
    /\ \E v \in sweep[s].victim :
          /\ stuck' = stuck \cup held[v]
          /\ held' = [held EXCEPT ![v] = {}]
          /\ listed' = listed \ {v}
    /\ sweep' = [sweep EXCEPT ![s].pc = "check", ![s].victim = {}]
    /\ UNCHANGED <<userKeys, server, beating, lapsed, socket, known>>

\* The list is through, or a command fails.
SweepStops(s) ==
    /\ sweep[s].pc # "idle"
    /\ sweep' = [sweep EXCEPT ![s] = NoSweep]
    /\ stuck' = stuck \cup InHand(s)
    /\ unfinished' = (unfinished \/ Sweeping(s))
    /\ UNCHANGED <<serverKeys, refs, online, latecomers, socket, known, held>>

PresenceNext ==
    \/ \E k \in Sockets :
          \/ \E s \in Servers : Connect(k, s) \/ AddRef(k, s) \/ RemoveRef(k, s)
          \/ RegisterHandler(k) \/ Disconnects(k) \/ LookUp(k) \/ CountRefs(k) \/ GoOffline(k)
    \/ \E s \in Servers :
          \/ Beat(s) \/ BeatLapses(s) \/ ProcessDies(s) \/ Close(s) \/ CloseEnds(s)
          \/ SweepLists(s) \/ SweepChecks(s) \/ SweepReads(s) \/ SweepTakes(s) \/ SweepClears(s)
          \/ SweepDrops(s) \/ SweepCounts(s) \/ SweepSetsOffline(s) \/ SweepForgets(s) \/ SweepStops(s)

PresenceSpec == PresenceInit /\ [][PresenceNext]_presenceVars

-----------------------------------------------------------------------------
(***************************************************************************)
(* Properties                                                              *)
(***************************************************************************)
PresenceTypeOK ==
    /\ \A k \in Sockets : socket[k].pc \in {"none", "adding", "joined", "handled", "removing",
                                            "dropping", "counting", "last", "gone"}
    /\ server \in [Servers -> {"up", "closing", "down"}]
    /\ refs \cup known \cup stuck \subseteq Sockets
    /\ held \in [Servers -> SUBSET Sockets]
    /\ listed \cup beating \cup lapsed \subseteq Servers
    /\ \A s \in Servers : sweep[s].pc \in {"idle", "check", "refs", "each", "take", "clear",
                                           "drop", "count", "last"}

\* A reference that has no connection any more will be removed: by its handler, or by a sweep that
\* has it in hand or can still find it under a dead server.  The ways to stay online for ever are
\* the ones in stuck: disconnected before the handler was registered, a sweep that failed half-way,
\* added while the process was closing, or to a server taken for dead (redisRemove, reconcile).
NoGhost ==
    \A k \in refs :
        \/ k \in stuck
        \/ socket[k].pc \in {"joined", "handled", "removing", "dropping"}
        \/ \E s \in Servers : k \in InHand(s)
        \/ \E s \in listed : server[s] = "down" /\ k \in held[s]

\* "Drop socket refs owned by dead API instances" (presence.ts): a sweep never takes the
\* connections of a process whose heartbeat has not failed.
SparesTheLiving ==
    \A k \in Sockets, s \in Servers :
        On(k, s) /\ socket[k].pc \in {"joined", "handled"} /\ s \notin lapsed
            => k \in refs /\ k \in held[s]

\* Online and connected agree, however connections, disconnections and sweeps of several processes
\* overlap: a member without a connection is online only while somebody is about to count or died
\* then, one with a connection offline only after a removal that counted before it came.
OnlineTold ==
    /\ online /\ refs = {} => unfinished \/ \E s \in Servers : Removing(s) \/ Sweeping(s)
    /\ ~online => refs \subseteq latecomers
=============================================================================
