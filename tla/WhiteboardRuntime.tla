-------------------------- MODULE WhiteboardRuntime --------------------------
(***************************************************************************)
(* The whiteboard runtime beside its control plane: grants and leases in   *)
(* the memory of Core API (collaboration/grant_broker.go, service.go) and  *)
(* the sockets, the readiness and the live document of one runtime         *)
(* (whiteboard-runtime/src: runtimeServer.ts, runtimeReadinessCoordinator  *)
(* .ts, runtimeSessionRegistry.ts, runtimePolicy.ts, controlPlane.ts).     *)
(*                                                                         *)
(* A step is what the event loop runs between two awaits. The readiness    *)
(* epoch is kept as a mark on each probe: current says that the epoch has  *)
(* not advanced since the probe was requested. A grant has one socket, and *)
(* a lease is named by the socket it admits. Byte and rate limits only     *)
(* refuse and are left out, and so is awareness, which stores nothing.     *)
(***************************************************************************)
EXTENDS Whiteboard

CONSTANTS
    Sockets,            \* sockets of clients
    SocketLimit         \* maxConnectionsPerDocument

ASSUME RuntimeAssumption ==
    SocketLimit \in Nat /\ Sockets \cap {"dependency", "authority"} = {}

VARIABLES
    socket,     \* how far a client's socket has come, and its scope
    tickets,    \* the broker's pending grants
    leases,     \* the broker's leases
    revoking,   \* a committed transition has still to call grants.Revoke
    ready,      \* the readiness coordinator
    probe,      \* requested probes, by who asked
    memory      \* the loaded document

runtimeVars == <<socket, tickets, leases, revoking, ready, probe, memory>>

Refreshes == {"dependency", "authority"}
NoSocket == [step |-> "none", scope |-> None, view |-> FALSE]
NoProbe == [step |-> "none", current |-> FALSE, scopes |-> {}, valid |-> {}, revoke |-> 0]
NoMemory == [loaded |-> FALSE, edit |-> 0, dirty |-> FALSE, last |-> None, storing |-> None]

RuntimeInit ==
    /\ socket = [k \in Sockets |-> NoSocket]
    /\ tickets = {} /\ leases = {} /\ revoking = FALSE
    /\ ready = [lifecycle |-> "starting", authority |-> FALSE, dependencies |-> FALSE,
                checkpoint |-> TRUE, mode |-> "off"]
    /\ probe = [q \in Refreshes \cup Sockets |-> NoProbe]
    /\ memory = NoMemory

(* snapshot: ready *)
ReadyIn(r) == r.lifecycle = "running" /\ r.authority /\ r.dependencies /\ r.checkpoint /\ r.mode # "off"
Ready == ReadyIn(ready)

(* The registry's sessions, pending and active.                            *)
Reserved == {k \in Sockets : socket[k].step \in {"reserved", "open"}}

(* advanceEpoch *)
Advanced(p) == [q \in DOMAIN p |-> [p[q] EXCEPT !.current = FALSE]]
Unhealthy(r) == [r EXCEPT !.authority = FALSE, !.dependencies = FALSE]

(* closeInvalidScopes: pending reservations are rolled back too.           *)
Closed(s, keep) == [k \in Sockets |-> IF s[k].step \in {"reserved", "open"} /\ k \notin keep
                                      THEN NoSocket ELSE s[k]]
(* closeWriters *)
Writers(s, mode) == {k \in Sockets : mode = "off" \/ ~s[k].view}

-----------------------------------------------------------------------------
(* Control plane.                                                          *)

(* ExchangeGrant and Issue.                                                *)
IssueGrant(k) ==
    /\ socket[k] = NoSocket
    /\ board.status = "open"
    /\ socket' = [socket EXCEPT ![k] = [step |-> "granted", scope |-> Authority, view |-> FALSE]]
    /\ tickets' = tickets \cup {k}
    /\ UNCHANGED <<boardVars, leases, revoking, ready, probe, memory>>

(* validateGrantResolution, of a lease the broker still has.               *)
Honoured(k) == k \in leases /\ board.status = "open" /\ socket[k].scope = Authority

(* Transition or Restore commits; grants.Revoke follows, unless the        *)
(* process stops first, and then the broker's memory is gone as well.      *)
Revocable(op) ==
    /\ Transition(op)
    /\ revoking' = (revoking \/ op \in {"suspend", "close"})
    /\ UNCHANGED <<socket, tickets, leases, ready, probe, memory>>
RevokeGrants ==
    /\ revoking
    /\ revoking' = FALSE /\ tickets' = {} /\ leases' = {}
    /\ UNCHANGED <<boardVars, socket, ready, probe, memory>>
RestartCoreAPI ==
    /\ tickets # {} \/ leases # {}
    /\ revoking' = FALSE /\ tickets' = {} /\ leases' = {}
    /\ UNCHANGED <<boardVars, socket, ready, probe, memory>>

-----------------------------------------------------------------------------
(* Probes: RuntimeReadinessCoordinator.                                    *)

(* start: activate, with the authority guard acquired; then the timers     *)
(* request one refresh of each kind at a time.                             *)
Activate ==
    /\ ready.lifecycle = "starting"
    /\ ready' = [Unhealthy(ready) EXCEPT !.lifecycle = "running"]
    /\ probe' = Advanced(probe)
    /\ UNCHANGED <<boardVars, socket, tickets, leases, revoking, memory>>
Request(q) ==
    /\ ready.lifecycle = "running"
    /\ probe[q] = NoProbe
    /\ probe' = [probe EXCEPT ![q] = [NoProbe EXCEPT !.step = "queued", !.current = TRUE]]
    /\ UNCHANGED <<boardVars, socket, tickets, leases, revoking, ready, memory>>

(* canApply *)
(* mutant: a success from before the last failure counts *)
CanApplyLate(q) == ready.lifecycle = "running"
CanApply(q) == ready.lifecycle = "running" /\ probe[q].current

(* enqueueProbe runs one probe at a time; a stale one is dropped. An       *)
(* authority refresh takes the scopes of the moment.                       *)
RunProbe(q) ==
    /\ probe[q].step = "queued"
    /\ ~\E p \in DOMAIN probe : probe[p].step \in {"running", "answered"}
    /\ probe' = [probe EXCEPT ![q] = IF CanApply(q)
                                     THEN [@ EXCEPT !.step = "running", !.scopes = Reserved]
                                     ELSE NoProbe]
    /\ socket' = IF q \in Sockets /\ ~CanApply(q) THEN [socket EXCEPT ![q] = NoSocket] ELSE socket
    /\ UNCHANGED <<boardVars, tickets, leases, revoking, ready, memory>>

(* validateScopes: Core API drops the leases it does not honour.           *)
ValidateScopes ==
    LET p == probe["authority"]
        valid == {k \in p.scopes : Honoured(k)}
    IN /\ p.step = "running"
       /\ probe' = [probe EXCEPT !["authority"].step = "answered", !["authority"].valid = valid,
                                 !["authority"].revoke = board.revoke]
       /\ leases' = leases \ (p.scopes \ valid)
       /\ UNCHANGED <<boardVars, socket, tickets, revoking, ready, memory>>

(* refreshDependencies: what the three probes found.                       *)
ApplyDependencies(guard, control, persistence, mode) ==
    LET healthy == guard /\ control /\ persistence
        r == [ready EXCEPT !.dependencies = healthy, !.authority = guard /\ control,
                           !.mode = IF control THEN mode ELSE @]
        done == [probe EXCEPT !["dependency"] = NoProbe]
    IN /\ probe["dependency"].step = "running"
       /\ IF CanApply("dependency")
          THEN /\ ready' = r
               /\ probe' = IF healthy /\ mode # "off" THEN done ELSE Advanced(done)
               /\ socket' = IF ReadyIn(r) THEN socket ELSE Closed(socket, {})
          ELSE /\ probe' = done
               /\ UNCHANGED <<ready, socket>>
       /\ UNCHANGED <<boardVars, tickets, leases, revoking, memory>>

(* refreshAuthority of the timer, then closeWriters and                    *)
(* closeInvalidScopes; a failed one closes everything.                     *)
ApplyAuthority(mode) ==
    LET p == probe["authority"]
        done == [probe EXCEPT !["authority"] = NoProbe]
        keep == IF mode = "enabled" THEN p.valid ELSE p.valid \ Writers(socket, mode)
    IN /\ p.step = "answered"
       /\ IF CanApply("authority")
          THEN /\ ready' = [ready EXCEPT !.authority = TRUE, !.mode = mode]
               /\ probe' = IF mode = "off" THEN Advanced(done) ELSE done
               /\ socket' = Closed(socket, keep)
          ELSE /\ probe' = done
               /\ UNCHANGED <<ready, socket>>
       /\ UNCHANGED <<boardVars, tickets, leases, revoking, memory>>
FailAuthority ==
    LET done == [probe EXCEPT !["authority"] = NoProbe]
    IN /\ probe["authority"].step \in {"running", "answered"}
       /\ IF CanApply("authority")
          THEN /\ ready' = Unhealthy(ready)
               /\ probe' = Advanced(done)
               /\ socket' = Closed(socket, {})
          ELSE /\ probe' = done
               /\ UNCHANGED <<ready, socket>>
       /\ UNCHANGED <<boardVars, tickets, leases, revoking, memory>>

(* assertAdmissionReady and readiness find the provider guard stale        *)
(* (ProviderGuard): failClosed. The sockets stay until they act.           *)
FailClosed ==
    /\ Ready
    /\ ready' = Unhealthy(ready)
    /\ probe' = Advanced(probe)
    /\ UNCHANGED <<boardVars, socket, tickets, leases, revoking, memory>>

-----------------------------------------------------------------------------
(* Sockets.                                                                *)
Step(k, from, to) == socket[k].step = from /\ socket' = [socket EXCEPT ![k].step = to]

(* onAuthenticate, first: an authority refresh of its own.                 *)
Authenticate(k) ==
    /\ Ready
    /\ Step(k, "granted", "probing")
    /\ probe' = [probe EXCEPT ![k] = [NoProbe EXCEPT !.step = "queued", !.current = TRUE]]
    /\ UNCHANGED <<boardVars, tickets, leases, revoking, ready, memory>>
ApplyAdmissionProbe(k, answered, mode) ==
    LET r == IF answered THEN [ready EXCEPT !.authority = TRUE, !.mode = mode] ELSE Unhealthy(ready)
        done == [probe EXCEPT ![k] = NoProbe]
        admit == CanApply(k) /\ answered /\ ReadyIn(r)
    IN /\ probe[k].step = "running"
       /\ ready' = IF CanApply(k) THEN r ELSE ready
       /\ probe' = IF CanApply(k) /\ (~answered \/ mode = "off") THEN Advanced(done) ELSE done
       /\ socket' = [socket EXCEPT ![k] = IF admit THEN [@ EXCEPT !.step = "probed", !.view = (mode = "read_only")]
                                          ELSE NoSocket]
       /\ UNCHANGED <<boardVars, tickets, leases, revoking, memory>>

(* controlPlane.exchangeGrant, Consume and ConsumeGrant: once.             *)
ConsumeGrant(k) ==
    LET honoured == k \in tickets /\ board.status = "open" /\ socket[k].scope = Authority
    IN /\ socket[k].step = "probed"
       /\ tickets' = tickets \ {k}
       /\ leases' = IF honoured THEN leases \cup {k} ELSE leases
       /\ socket' = [socket EXCEPT ![k] = IF honoured /\ Ready THEN [@ EXCEPT !.step = "exchanged"]
                                          ELSE NoSocket]
       /\ UNCHANGED <<boardVars, revoking, ready, probe, memory>>

(* validateScopes of the one scope, answered by Core API.                  *)
ValidateGrant(k) ==
    /\ socket[k].step = "exchanged"
    /\ socket' = [socket EXCEPT ![k] = IF Honoured(k) THEN [@ EXCEPT !.step = "validated"] ELSE NoSocket]
    /\ leases' = IF Honoured(k) THEN leases ELSE leases \ {k}
    /\ UNCHANGED <<boardVars, tickets, revoking, ready, probe, memory>>

(* assertProviderReservation, assertCanonicalOwner                         *)
SharesScope(k) == \A j \in Reserved : socket[j].scope.generation = socket[k].scope.generation =>
                                        socket[j].scope = socket[k].scope

(* reserve, with the capability the probe's mode left.                     *)
Reserve(k) ==
    /\ socket[k].step = "validated"
    /\ Ready
    /\ SharesScope(k) /\ Cardinality(Reserved) < SocketLimit
    /\ socket' = [socket EXCEPT ![k].step = "reserved"]
    /\ UNCHANGED <<boardVars, tickets, leases, revoking, ready, probe, memory>>

(* onLoadDocument for the first socket: the checkpoint of its generation   *)
(* and provider, or an empty board. A failure latches.                     *)
LoadDocument(k, loaded) ==
    LET s == socket[k].scope
        c == checkpoint[s.generation]
    IN /\ socket[k].step = "reserved" /\ ~memory.loaded
       /\ IF loaded
          THEN /\ memory' = [NoMemory EXCEPT !.loaded = TRUE, !.last = s,
                               !.edit = IF c = None THEN 0 ELSE IF c.provider = s.provider THEN c.edit ELSE 0]
               /\ UNCHANGED <<ready, probe, socket>>
          ELSE /\ ready' = [Unhealthy(ready) EXCEPT !.checkpoint = FALSE]
               /\ probe' = Advanced(probe)
               /\ socket' = Closed(socket, {j \in Sockets : socket[j].step = "open"})
               /\ UNCHANGED memory
       /\ UNCHANGED <<boardVars, tickets, leases, revoking>>

(* connected: a socket that is no longer admitted is rolled back.          *)
Connected(k) ==
    /\ memory.loaded
    /\ socket[k].step = "reserved"
    /\ socket' = [socket EXCEPT ![k] =
                    IF Ready /\ (ready.mode = "enabled" \/ socket[k].view)
                    THEN [@ EXCEPT !.step = "open"] ELSE NoSocket]
    /\ UNCHANGED <<boardVars, tickets, leases, revoking, ready, probe, memory>>

(* A client leaves, or is denied at a check after an await.                *)
Disconnect(k) ==
    /\ socket[k].step \notin {"none", "probing"}
    /\ socket' = [socket EXCEPT ![k] = NoSocket]
    /\ tickets' = tickets \ {k}
    /\ UNCHANGED <<boardVars, leases, revoking, ready, probe, memory>>
LeaseExpires(k) ==
    /\ k \in leases /\ socket[k] = NoSocket
    /\ leases' = leases \ {k}
    /\ UNCHANGED <<boardVars, socket, tickets, revoking, ready, probe, memory>>

-----------------------------------------------------------------------------
(* The live document.                                                      *)

(* beforeSync and onChange.                                                *)
Update(k) ==
    /\ socket[k].step = "open" /\ ~socket[k].view
    /\ Ready /\ ready.mode = "enabled"
    /\ memory.edit < MaxEdit
    /\ memory' = [memory EXCEPT !.edit = @ + 1, !.dirty = TRUE, !.last = socket[k].scope]
    /\ UNCHANGED <<boardVars, socket, tickets, leases, revoking, ready, probe>>

(* onStoreDocument: the state is encoded, then stored under the scope of   *)
(* the last change.                                                        *)
BeginStore ==
    /\ memory.dirty /\ memory.storing = None
    /\ memory' = [memory EXCEPT !.storing = [scope |-> memory.last, edit |-> memory.edit]]
    /\ UNCHANGED <<boardVars, socket, tickets, leases, revoking, ready, probe>>
FinishStore ==
    LET s == memory.storing
    IN /\ s # None
       /\ Storable(s.scope)
       /\ checkpoint' = Stored(s.scope, s.edit)
       /\ memory' = [memory EXCEPT !.storing = None, !.dirty = FALSE]
       /\ ready' = [ready EXCEPT !.checkpoint = TRUE]
       /\ UNCHANGED <<board, provider, artifact, job, snapshots, objects, purging, swap, issued,
                      socket, tickets, leases, revoking, probe>>
FailStore ==
    /\ memory.storing # None
    /\ memory' = [memory EXCEPT !.storing = None]
    /\ ready' = [Unhealthy(ready) EXCEPT !.checkpoint = FALSE]
    /\ probe' = Advanced(probe)
    /\ socket' = Closed(socket, {})
    /\ UNCHANGED <<boardVars, tickets, leases, revoking>>

(* afterUnloadDocument, of a saved document without sockets.               *)
Unload ==
    /\ memory.loaded /\ ~memory.dirty /\ memory.storing = None /\ Reserved = {}
    /\ memory' = NoMemory
    /\ UNCHANGED <<boardVars, socket, tickets, leases, revoking, ready, probe>>

(* The runtime's process stops; what was not stored is lost. A new one     *)
(* starts, also after a drain.                                             *)
RestartRuntime ==
    /\ ready.lifecycle # "starting"
    /\ ready' = [lifecycle |-> "starting", authority |-> FALSE, dependencies |-> FALSE,
                 checkpoint |-> TRUE, mode |-> "off"]
    /\ socket' = [k \in Sockets |-> IF socket[k].step = "granted" THEN socket[k] ELSE NoSocket]
    /\ probe' = [q \in DOMAIN probe |-> NoProbe]
    /\ memory' = NoMemory
    /\ UNCHANGED <<boardVars, tickets, leases, revoking>>

(* drain: admission stops, stores are flushed and sockets closed; then, or *)
(* at the deadline, the runtime has stopped, with or without unsaved       *)
(* documents. A store on its way may still land.                           *)
BeginDrain ==
    /\ ready.lifecycle = "running"
    /\ ready' = [Unhealthy(ready) EXCEPT !.lifecycle = "draining"]
    /\ probe' = Advanced(probe)
    /\ UNCHANGED <<boardVars, socket, tickets, leases, revoking, memory>>
FinishDrain ==
    /\ ready.lifecycle = "draining"
    /\ ready' = [ready EXCEPT !.lifecycle = "stopped"]
    /\ socket' = [k \in Sockets |-> IF socket[k].step = "granted" THEN socket[k] ELSE NoSocket]
    /\ probe' = [q \in DOMAIN probe |-> NoProbe]
    /\ memory' = [NoMemory EXCEPT !.storing = memory.storing]
    /\ UNCHANGED <<boardVars, tickets, leases, revoking>>

-----------------------------------------------------------------------------
RuntimeModes == {"enabled", "read_only", "off"}
RuntimeNext ==
    \/ (CreateBoard \/ (Transition("open") \/ Transition("resume"))) /\ UNCHANGED runtimeVars
    \/ \E op \in {"suspend", "close"} : Revocable(op)
    \/ RevokeGrants \/ RestartCoreAPI \/ Activate \/ ValidateScopes \/ FailAuthority
    \/ FailClosed
    \/ \E q \in Refreshes : Request(q)
    \/ \E q \in Refreshes \cup Sockets : RunProbe(q)
    \/ \E g, c, p \in BOOLEAN, m \in RuntimeModes : ApplyDependencies(g, c, p, m)
    \/ \E m \in RuntimeModes : ApplyAuthority(m)
    \/ \E k \in Sockets :
         \/ IssueGrant(k) \/ Authenticate(k) \/ ConsumeGrant(k) \/ ValidateGrant(k) \/ Reserve(k)
         \/ Connected(k) \/ Disconnect(k) \/ LeaseExpires(k) \/ Update(k)
         \/ \E a \in BOOLEAN, m \in RuntimeModes : ApplyAdmissionProbe(k, a, m)
         \/ \E loaded \in BOOLEAN : LoadDocument(k, loaded)
    \/ BeginStore \/ FinishStore \/ FailStore \/ Unload
    \/ BeginDrain \/ FinishDrain \/ RestartRuntime

RuntimeSpec ==
    WhiteboardInit /\ RuntimeInit /\ [][RuntimeNext]_<<boardVars, runtimeVars>>

-----------------------------------------------------------------------------
(* The runtime fails closed. After an authority refresh the sockets left   *)
(* are writers of the revoke generation Core API had when it answered,     *)
(* admitted meanwhile or not; a change is taken only while the runtime is  *)
(* ready and beside sockets of its own fence alone; and once something     *)
(* failed, or a drain began, only a probe asked for afterwards makes the   *)
(* runtime ready again.                                                    *)
RuntimeFailsClosed ==
    [][/\ probe["authority"].step = "answered" /\ probe'["authority"].step = "none" /\ ReadyIn(ready') =>
            \A k \in Sockets : socket'[k].step \in {"reserved", "open"} =>
               socket'[k].scope.fence = probe["authority"].revoke
       /\ memory'.edit > memory.edit /\ memory.loaded =>
            /\ Ready
            /\ \A k \in Reserved : socket[k].scope = memory'.last
       /\ ~Ready /\ ReadyIn(ready') /\ ready'.checkpoint = ready.checkpoint =>
            \E q \in DOMAIN probe : probe[q].step \in {"running", "answered"} /\ probe[q].current
      ]_runtimeVars

-----------------------------------------------------------------------------
(* What holds between the steps of one runtime and its control plane. The  *)
(* board has its first generation only: a restore's swap is Whiteboard's.  *)

ScopeRow == [generation : {1}, provider : {"initial"}, fence : Nat]
SocketRow == [step : {"none", "granted", "probing", "probed", "exchanged", "validated",
                      "reserved", "open"},
              scope : ScopeRow \cup {None}, view : BOOLEAN]
ProbeRow == [step : {"none", "queued", "running", "answered"}, current : BOOLEAN,
             scopes : SUBSET Sockets, valid : SUBSET Sockets, revoke : Nat]
ReadyRow == [lifecycle : {"starting", "running", "draining", "stopped"}, authority : BOOLEAN,
             dependencies : BOOLEAN, checkpoint : BOOLEAN, mode : RuntimeModes]
StoreRow == [scope : ScopeRow, edit : Nat]
MemoryRow == [loaded : BOOLEAN, edit : Nat, dirty : BOOLEAN, last : ScopeRow \cup {None},
              storing : StoreRow \cup {None}]

(* The rows of the board, its checkpoint and the runtime have their types. *)
RuntimeTypeOK ==
    /\ board \in [status : {"none", "created", "open", "suspended", "closed"}, version : Nat,
                  generation : {0, 1}, revoke : Nat]
    /\ provider \in [Generations -> {"initial", None}]
    /\ checkpoint \in [Generations -> CheckpointRow \cup {None}]
    /\ socket \in [Sockets -> SocketRow]
    /\ probe \in [Refreshes \cup Sockets -> ProbeRow]
    /\ ready \in ReadyRow
    /\ memory \in MemoryRow

(* A board that exists has the one generation; a socket under way has its  *)
(* scope, and so have changes that are not stored.                         *)
ScopesNamed ==
    /\ board.status # "none" => board.generation = 1 /\ provider[1] = "initial"
    /\ \A k \in Sockets : socket[k].step # "none" => socket[k].scope \in ScopeRow
    /\ memory.dirty => memory.last \in ScopeRow

(* Sockets beside each other have one scope.                               *)
ScopeShared == \A j, k \in Reserved : socket[j].scope = socket[k].scope

(* One probe runs at a time, and a socket that asked for one waits; one    *)
(* from before the last failure finds the runtime still unready, for       *)
(* nothing else can make it ready meanwhile.                               *)
ActiveProbe(q) == probe[q].step \in {"running", "answered"}
Healthy(r) == r.lifecycle = "running" /\ r.authority /\ r.dependencies /\ r.mode # "off"
ProbesInTurn ==
    /\ \A p, q \in Refreshes \cup Sockets : ActiveProbe(p) /\ ActiveProbe(q) => p = q
    /\ \A q \in Refreshes \cup Sockets :
         ActiveProbe(q) /\ ~probe[q].current => ~Healthy(ready)
    /\ \A k \in Sockets : probe[k].step # "none" => socket[k].step = "probing"

(* The sockets an answer vouches for are of the revoke generation it was   *)
(* given at: a client that comes back meanwhile waits for its own probe.   *)
Probed == {"probed", "exchanged", "validated", "reserved", "open"}
AnswerStands ==
    probe["authority"].step = "answered" =>
       \A k \in probe["authority"].valid :
         socket[k].step \in Probed => socket[k].scope.fence = probe["authority"].revoke

(* The inductive invariant of the runtime.                                 *)
RuntimeInv == RuntimeTypeOK /\ ScopesNamed /\ ScopeShared /\ ProbesInTurn /\ AnswerStands
=============================================================================
