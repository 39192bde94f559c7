----------------------------- MODULE MediaLobby -----------------------------
(***************************************************************************)
(* The people of one open media room of a study meeting                    *)
(* (internal/modules/media): the lobby and its admission requests, the     *)
(* members of the space (postgres_lobby_repository.go), join attempts,     *)
(* credentials and participant webhooks (postgres_instance_repository.go), *)
(* moderation (postgres_moderation_repository.go) and hands                *)
(* (postgres_signal_repository.go).                                        *)
(*                                                                         *)
(* A client reads the room and sends a command with the versions it read   *)
(* (the services build the command); the command reaches the repository    *)
(* any time later, more than once if it is retried.  Each repository       *)
(* method is one transaction under the tenant control lock, one step here. *)
(* A refused command changes nothing and is no step.                       *)
(***************************************************************************)
EXTENDS Integers, FiniteSets

CONSTANTS
    Users,        \* people of the tenant
    Owner,        \* owner_user_id of the study meeting, the host of the room
    SafetyAdmins, \* organization admins: they see the space, may not join it
    Attempts,     \* join_attempt_id values, each names its participant session
    AttemptUser,  \* AttemptUser[j]: who draws the identifier j
    Keys,         \* idempotency keys, one per command a client means to run
    KeyOps,       \* KeyOps[k]: the operations the command of k may be
    Events,       \* identifiers of participant webhooks
    Capacities,   \* media participants the quotas of a tenant may allow
    LobbyEnabled, \* lobby_enabled of the space
    MaxClaims,    \* bound on the claims of one provider effect
    None          \* NULL

AdmissionOps == {"admit", "deny", "restore", "cancel"}
MemberOps == {"invite", "revoke_member", "restore_member"}
LockOps == {"lock", "unlock"}
TargetOps == {"promote", "demote", "mute", "remove"}
HandOps == {"raise", "lower", "lower_one", "lower_all"}
Ops == AdmissionOps \cup MemberOps \cup LockOps \cup TargetOps \cup HandOps

ASSUME LobbyAssumption ==
    /\ Owner \in Users
    /\ SafetyAdmins \subseteq Users \ {Owner}
    /\ AttemptUser \in [Attempts -> Users]
    /\ KeyOps \in [Keys -> SUBSET Ops]
    /\ Capacities \subseteq Nat
    /\ IsFiniteSet(Attempts)
    /\ LobbyEnabled \in BOOLEAN
    /\ MaxClaims \in Nat
    /\ None \notin Users \cup Attempts

VARIABLES
    open,       \* the space is open and its room instance active
    space,      \* media_spaces: version, locked; seats of its tenant
    room,       \* media_room_instances: version, projection, signal
    sess,       \* media_participant_sessions by join attempt
    adm,        \* media_admission_requests by join attempt
    member,     \* media_space_members by user
    assign,     \* media_room_role_assignments by user
    hand,       \* signal_sequence of a raised hand, 0 when lowered
    sent,       \* the command a client sent under a key
    receipt,    \* the mutation receipt of a key, with its provider effect
    calls,      \* provider calls in flight: key and claimed attempt
    received    \* media_provider_webhook_receipts

lobbyVars == <<open, space, room, sess, adm, member, assign, hand, sent, receipt,
               calls, received>>
people == <<sess, adm, member, assign, hand>>
providerVars == <<calls, received>>

SessionStatuses == {"none", "waiting", "admitted", "joining", "connected",
                    "left", "removed", "failed"}
AdmissionStatuses == {"none", "waiting", "admitted", "denied", "cancelled",
                      "expired"}
Roles == {"host", "co_host", "attendee"}
Effects == {"none", "pending", "applying", "retryable", "permanent", "applied"}

NoSession == [status |-> "none", role |-> "attendee", reserved |-> FALSE,
              restored |-> FALSE]
NoAdmission == [status |-> "none", version |-> 0, overdue |-> FALSE]
NoMember == [status |-> "none", version |-> 0]
NoCommand == [op |-> "none", actor |-> None, target |-> None, space |-> 0,
              room |-> 0, projection |-> 0, row |-> 0]
NoReceipt == [done |-> FALSE, effect |-> "none", attempts |-> 0, leased |-> FALSE]

LobbyInit ==
    /\ open = TRUE
    /\ space \in [version : {1}, locked : {FALSE}, seats : Capacities]
    /\ room = [version |-> 1, projection |-> 1, signal |-> 0]
    /\ sess = [j \in Attempts |-> NoSession]
    /\ adm = [j \in Attempts |-> NoAdmission]
    /\ member \in [Users -> {NoMember, [status |-> "active", version |-> 1]}]
    /\ member[Owner] = NoMember
    /\ assign = [u \in Users |-> "none"]
    /\ hand = [j \in Attempts |-> 0]
    /\ sent = [k \in Keys |-> NoCommand]
    /\ receipt = [k \in Keys |-> NoReceipt]
    /\ calls = {}
    /\ received = {}

-----------------------------------------------------------------------------
(* What the repository methods read. *)

(* activeParticipantStatus *)
Active(s) == s.status \in {"waiting", "admitted", "joining", "connected"}
(* The participants a snapshot shows, moderation and signals act on.       *)
InRoom(s) == s.status \in {"joining", "connected"}

(* authorizeSource for a study meeting: who sees the space, who may join.  *)
MayJoin(u) == u = Owner \/ member[u].status = "active"
Sees(u) == MayJoin(u) \/ u \in SafetyAdmins

(* effectiveRoomRole: a dynamic co-host assignment over the role r.        *)
EffectiveRole(u, r) ==
    IF r = "host" THEN r ELSE IF assign[u] = "active" THEN "co_host" ELSE r
SourceRole(u) == IF u = Owner THEN "host" ELSE "attendee"
RoomRole(u) == EffectiveRole(u, SourceRole(u))

(* hasActiveParticipant, hasUnrestoredRemovalBarrier                       *)
HasActive(u) == \E j \in Attempts : AttemptUser[j] = u /\ Active(sess[j])
Barred(u) == \E j \in Attempts : /\ AttemptUser[j] = u
                                 /\ sess[j].status = "removed"
                                 /\ ~sess[j].restored

(* requireParticipantCapacity: one more reservation fits the quotas.       *)
(* mutant: the reservation about to be made is not counted *)
CapacityLeftOver ==
    Cardinality({j \in Attempts : sess[j].reserved}) <= space.seats
CapacityLeft ==
    Cardinality({j \in Attempts : sess[j].reserved}) + 1 <= space.seats

(* advanceMediaRosterProjection *)
NextProjection == [room EXCEPT !.projection = @ + 1]
(* A moderation that changes a participant also moves the room version.    *)
NextRoomVersion == [NextProjection EXCEPT !.version = @ + 1]

(* The session s when it ends with the given status.                       *)
End(s, status) == [s EXCEPT !.status = status, !.reserved = FALSE]

-----------------------------------------------------------------------------
(* Commands in flight. *)

(* The row whose version the command carries.                              *)
RowVersion(op, t) == CASE op \in AdmissionOps -> adm[t].version
                       [] op \in MemberOps    -> member[t].version
                       [] OTHER               -> 0

Targets(op) == CASE op \in AdmissionOps \cup TargetOps -> Attempts
                 [] op = "lower_one"                   -> Attempts
                 [] op \in MemberOps                   -> Users
                 [] OTHER                              -> {None}

Moderator(role) == role \in {"host", "co_host"}

(* participantModerationOperations: what the snapshot of u offers on t.    *)
ModerationOffered(u, op, t) ==
    LET actor == RoomRole(u)
        target == EffectiveRole(AttemptUser[t], sess[t].role)
    IN  /\ InRoom(sess[t]) /\ AttemptUser[t] # u /\ target # "host"
        /\ \/ op = "promote" /\ actor = "host" /\ target = "attendee"
           \/ op = "demote" /\ actor = "host" /\ assign[AttemptUser[t]] = "active"
           \/ op \in {"mute", "remove"}
                /\ (actor = "host" \/ (actor = "co_host" /\ target = "attendee"))
           \/ op = "remove" /\ u \in SafetyAdmins

(* What the views offer u: the lobby lists, the member list, and the       *)
(* viewer operations of loadMediaParticipantSnapshot.                      *)
Offered(u, op, t) ==
    CASE op \in {"admit", "deny"} -> Moderator(RoomRole(u)) /\ adm[t].status = "waiting"
      [] op = "restore" -> Moderator(RoomRole(u)) /\ adm[t].status = "denied"
      [] op = "cancel" -> AttemptUser[t] = u /\ adm[t].status = "waiting"
      [] op = "invite" -> u = Owner /\ t # u /\ member[t].status = "none"
      [] op = "revoke_member" -> u \in SafetyAdmins \cup {Owner} /\ t # u
                                 /\ member[t].status = "active"
      [] op = "restore_member" -> u = Owner /\ member[t].status = "revoked"
      [] op \in LockOps -> u = Owner /\ space.locked = (op = "unlock")
      [] op \in TargetOps -> ModerationOffered(u, op, t)
      [] op = "lower_one" -> Moderator(RoomRole(u)) /\ hand[t] # 0
      [] op = "lower_all" -> Moderator(RoomRole(u)) /\ \E j \in Attempts : hand[j] # 0
      [] op = "raise" -> \E j \in Attempts : AttemptUser[j] = u /\ InRoom(sess[j])
      [] op = "lower" -> \E j \in Attempts : AttemptUser[j] = u /\ hand[j] # 0

(* A client sends a command with what it reads now: the services' Admit,   *)
(* Deny, RestoreAdmission, CancelJoinAttempt, ...                          *)
Send(k, u, op, t) ==
    /\ open
    /\ sent[k] = NoCommand
    /\ op \in KeyOps[k]
    /\ Offered(u, op, t)
    /\ sent' = [sent EXCEPT ![k] =
                  [op |-> op, actor |-> u, target |-> t,
                   space |-> space.version, room |-> room.version,
                   projection |-> room.projection,
                   row |-> RowVersion(op, t)]]
    /\ UNCHANGED <<open, space, room, people, receipt, providerVars>>

(* The command of k arrives, is one of ops and is not a replay.            *)
Arrives(k, ops) == sent[k].op \in ops /\ ~receipt[k].done

(* insertLobbyMutationReceipt                                              *)
Record(k, effect) ==
    receipt' = [receipt EXCEPT ![k].done = TRUE, ![k].effect = effect]

-----------------------------------------------------------------------------
(* The lobby. *)

(* loadModeratorLobby *)
ModeratorLobby(c) ==
    /\ open /\ LobbyEnabled
    /\ Sees(c.actor)
    /\ c.space = space.version
    /\ c.room = room.version
    /\ Moderator(RoomRole(c.actor))

(* loadSelfLobby of a mutation *)
SelfLobby(c) ==
    /\ open /\ LobbyEnabled
    /\ Sees(c.actor)
    /\ c.space = space.version
    /\ c.room = room.version

(* expireLobbyAttempt *)
ExpiredAdmission(a) == [a EXCEPT !.status = "expired", !.version = @ + 1]

(* The admission of j may still be decided under the command c.            *)
Decidable(c, j) ==
    /\ c.row = adm[j].version
    /\ adm[j].status = "waiting"
    /\ ~adm[j].overdue
    /\ sess[j].status = "waiting"

(* admitLobbyAdmission; a locked room admits nobody.                       *)
(* mutant: the admission is decided, the participant keeps waiting *)
AdmitHalfway(k) ==
    LET c == sent[k]
        j == c.target
    IN  /\ Arrives(k, {"admit"})
        /\ ModeratorLobby(c)
        /\ ~space.locked
        /\ Decidable(c, j)
        /\ adm' = [adm EXCEPT ![j].status = "admitted", ![j].version = @ + 1]
        /\ Record(k, "none")
        /\ UNCHANGED <<open, space, room, sess, member, assign, hand, sent,
                       providerVars>>
Admit(k) ==
    LET c == sent[k]
        j == c.target
    IN  /\ Arrives(k, {"admit"})
        /\ ModeratorLobby(c)
        /\ ~space.locked
        /\ Decidable(c, j)
        /\ adm' = [adm EXCEPT ![j].status = "admitted", ![j].version = @ + 1]
        /\ sess' = [sess EXCEPT ![j].status = "admitted"]
        /\ Record(k, "none")
        /\ UNCHANGED <<open, space, room, member, assign, hand, sent, providerVars>>

(* denyLobbyAdmission *)
Deny(k) ==
    LET c == sent[k]
        j == c.target
    IN  /\ Arrives(k, {"deny"})
        /\ ModeratorLobby(c)
        /\ Decidable(c, j)
        /\ adm' = [adm EXCEPT ![j].status = "denied", ![j].version = @ + 1]
        /\ sess' = [sess EXCEPT ![j] = End(@, "removed")]
        /\ Record(k, "none")
        /\ UNCHANGED <<open, space, room, member, assign, hand, sent, providerVars>>

(* restoreLobbyAdmission: a denied person may ask again.                   *)
RestoreAdmission(k) ==
    LET c == sent[k]
        j == c.target
    IN  /\ Arrives(k, {"restore"})
        /\ ModeratorLobby(c)
        /\ c.row = adm[j].version
        /\ adm[j].status = "denied"
        /\ sess[j].status = "removed" /\ ~sess[j].restored
        /\ adm' = [adm EXCEPT ![j].status = "cancelled", ![j].version = @ + 1]
        /\ sess' = [sess EXCEPT ![j].restored = TRUE]
        /\ Record(k, "none")
        /\ UNCHANGED <<open, space, room, member, assign, hand, sent, providerVars>>

(* MutateAdmission and CancelJoinAttempt find a request that waited too    *)
(* long: it expires.  Only the cancellation leaves a receipt.              *)
TooLate(k) ==
    LET c == sent[k]
        j == c.target
    IN  /\ Arrives(k, AdmissionOps)
        /\ IF c.op = "cancel" THEN SelfLobby(c) /\ AttemptUser[j] = c.actor
                              ELSE ModeratorLobby(c)
        /\ c.op = "admit" => ~space.locked
        /\ c.row = adm[j].version
        /\ adm[j].status = "waiting" /\ adm[j].overdue
        /\ adm' = [adm EXCEPT ![j] = ExpiredAdmission(@)]
        /\ sess' = [sess EXCEPT ![j] = End(@, "failed")]
        /\ IF c.op = "cancel" THEN Record(k, "none") ELSE UNCHANGED receipt
        /\ UNCHANGED <<open, space, room, member, assign, hand, sent, providerVars>>

(* CancelJoinAttempt *)
CancelJoinAttempt(k) ==
    LET c == sent[k]
        j == c.target
    IN  /\ Arrives(k, {"cancel"})
        /\ SelfLobby(c)
        /\ AttemptUser[j] = c.actor
        /\ Decidable(c, j)
        /\ adm' = [adm EXCEPT ![j].status = "cancelled", ![j].version = @ + 1]
        /\ sess' = [sess EXCEPT ![j] = End(@, "left")]
        /\ Record(k, "none")
        /\ UNCHANGED <<open, space, room, member, assign, hand, sent, providerVars>>

(* defaultLobbyAdmissionTTL passes for the request of j.                   *)
Overdue(j) ==
    /\ adm[j].status = "waiting" /\ ~adm[j].overdue
    /\ adm' = [adm EXCEPT ![j].overdue = TRUE]
    /\ UNCHANGED <<open, space, room, sess, member, assign, hand, sent,
                   receipt, providerVars>>

(* The overdue requests a read of the lobby expires: ListAdmissions takes  *)
(* all of the room's, GetJoinAttempt the caller's own.                     *)
TimedOut == {j \in Attempts : adm[j].status = "waiting" /\ adm[j].overdue}
ListAdmissions == {TimedOut}
GetJoinAttempt == {{j} : j \in {i \in TimedOut : Sees(AttemptUser[i])}}

(* expireTimedOutLobbyAdmissions *)
ExpireTimedOut(js) ==
    /\ open /\ LobbyEnabled
    /\ js # {}
    /\ adm' = [j \in Attempts |->
                 IF j \in js THEN ExpiredAdmission(adm[j]) ELSE adm[j]]
    /\ sess' = [j \in Attempts |->
                  IF j \in js THEN End(sess[j], "failed") ELSE sess[j]]
    /\ UNCHANGED <<open, space, room, member, assign, hand, sent, receipt,
                   providerVars>>

-----------------------------------------------------------------------------
(* The members of the space. *)

(* loadStudyMeetingLobby *)
StudyMeetingLobby(c) ==
    /\ open
    /\ c.actor = Owner \/ (c.op = "revoke_member" /\ c.actor \in SafetyAdmins)
    /\ c.space = space.version
    /\ c.target # c.actor

(* InviteMember: a new row, or an active one left as it is.                *)
InviteMember(k) ==
    LET c == sent[k]
        u == c.target
    IN  /\ Arrives(k, {"invite"})
        /\ StudyMeetingLobby(c)
        /\ u # Owner
        /\ member[u].status \in {"none", "active"}
        /\ member' = IF member[u].status = "active" THEN member
                     ELSE [member EXCEPT ![u] =
                             [status |-> "active", version |-> 1]]
        /\ Record(k, "none")
        /\ UNCHANGED <<open, space, room, sess, adm, assign, hand, sent,
                       providerVars>>

(* removeLobbyMemberParticipants: everything the revoked u has in the room *)
(* ends; the projection moves when somebody was there.                     *)
SessionsOf(u) == {j \in Attempts : AttemptUser[j] = u /\ Active(sess[j])}

RevokeMember(k) ==
    LET c == sent[k]
        u == c.target
        js == SessionsOf(u)
    IN  /\ Arrives(k, {"revoke_member"})
        /\ StudyMeetingLobby(c)
        /\ c.row = member[u].version
        /\ member[u].status = "active"
        /\ member' = [member EXCEPT ![u].status = "revoked", ![u].version = @ + 1]
        /\ adm' = [j \in Attempts |->
                     IF AttemptUser[j] = u /\ adm[j].status = "waiting"
                     THEN [adm[j] EXCEPT !.status = "denied", !.version = @ + 1]
                     ELSE adm[j]]
        /\ sess' = [j \in Attempts |->
                      IF j \in js THEN End(sess[j], "removed") ELSE sess[j]]
        /\ hand' = [j \in Attempts |-> IF j \in js THEN 0 ELSE hand[j]]
        /\ room' = IF js # {} THEN NextProjection ELSE room
        /\ Record(k, "none")
        /\ UNCHANGED <<open, space, assign, sent, providerVars>>

RestoreMember(k) ==
    LET c == sent[k]
        u == c.target
    IN  /\ Arrives(k, {"restore_member"})
        /\ StudyMeetingLobby(c)
        /\ c.row = member[u].version
        /\ member[u].status = "revoked"
        /\ member' = [member EXCEPT ![u].status = "active", ![u].version = @ + 1]
        /\ sess' = [j \in Attempts |->
                      IF AttemptUser[j] = u /\ sess[j].status = "removed"
                      THEN [sess[j] EXCEPT !.restored = TRUE] ELSE sess[j]]
        /\ Record(k, "none")
        /\ UNCHANGED <<open, space, room, adm, assign, hand, sent, providerVars>>

-----------------------------------------------------------------------------
(* Joining. *)

(* CreateOrReuseJoinAttempt of a new attempt: attendees wait in the lobby. *)
(* A retry of an attempt that still waits or joins changes nothing.        *)
(* mutant: a removal does not bar the person from a new attempt *)
MayAttemptUnbarred(j) ==
    LET u == AttemptUser[j] IN
    /\ open /\ ~space.locked
    /\ MayJoin(u)
    /\ sess[j].status = "none"
    /\ ~HasActive(u)
    /\ CapacityLeft
MayAttempt(j) ==
    LET u == AttemptUser[j] IN
    /\ open /\ ~space.locked
    /\ MayJoin(u)
    /\ sess[j].status = "none"
    /\ ~HasActive(u)
    /\ ~Barred(u)
    /\ CapacityLeft

CreateOrReuseJoinAttempt(j) ==
    LET role == RoomRole(AttemptUser[j])
        waits == LobbyEnabled /\ role = "attendee"
    IN  /\ MayAttempt(j)
        /\ sess' = [sess EXCEPT ![j] =
                      [status |-> IF waits THEN "waiting" ELSE "admitted",
                       role |-> role, reserved |-> TRUE, restored |-> FALSE]]
        /\ adm' = IF waits THEN [adm EXCEPT ![j].status = "waiting",
                                            ![j].version = 1] ELSE adm
        /\ UNCHANGED <<open, space, room, member, assign, hand, sent, receipt,
                       providerVars>>

(* requireAdmittedAdmission *)
Admitted(j) == adm[j].status = "admitted"

(* PrepareCredential: an admitted participant joins; a credential asked    *)
(* for again refreshes the role.                                           *)
(* mutant: the refreshed role is not published to the roster *)
PrepareCredentialQuietly(j) ==
    LET u == AttemptUser[j]
        role == RoomRole(u)
    IN  /\ open /\ ~space.locked
        /\ MayJoin(u)
        /\ sess[j].status \in {"admitted", "joining"}
        /\ LobbyEnabled /\ role = "attendee" => Admitted(j)
        /\ sess[j].status = "admitted" \/ sess[j].role # role
        /\ sess' = [sess EXCEPT ![j].status = "joining", ![j].role = role]
        /\ UNCHANGED <<open, space, room, adm, member, assign, hand, sent,
                       receipt, providerVars>>
PrepareCredential(j) ==
    LET u == AttemptUser[j]
        role == RoomRole(u)
    IN  /\ open /\ ~space.locked
        /\ MayJoin(u)
        /\ sess[j].status \in {"admitted", "joining"}
        /\ LobbyEnabled /\ role = "attendee" => Admitted(j)
        /\ sess[j].status = "admitted" \/ sess[j].role # role
        /\ sess' = [sess EXCEPT ![j].status = "joining", ![j].role = role]
        /\ room' = NextProjection
        /\ UNCHANGED <<open, space, adm, member, assign, hand, sent, receipt,
                       providerVars>>

(* classifyParticipantWebhook.  The provider delivers the events of j      *)
(* late, twice or in the wrong order; an event id is recorded once.        *)
ParticipantJoined(e, j) ==
    /\ open
    /\ e \notin received
    /\ received' = received \cup {e}
    /\ sess[j].status = "joining"
    /\ sess' = [sess EXCEPT ![j].status = "connected"]
    /\ room' = NextProjection
    /\ UNCHANGED <<open, space, adm, member, assign, hand, sent, receipt, calls>>

(* mutant: the hand of a participant who left stays up *)
ParticipantLeftHandUp(e, j) ==
    /\ open
    /\ e \notin received
    /\ received' = received \cup {e}
    /\ sess[j].status \in {"admitted", "joining", "connected"}
    /\ sess' = [sess EXCEPT ![j] = End(@, "left")]
    /\ room' = NextProjection
    /\ UNCHANGED <<open, space, adm, member, assign, hand, sent, receipt, calls>>
ParticipantLeft(e, j) ==
    /\ open
    /\ e \notin received
    /\ received' = received \cup {e}
    /\ sess[j].status \in {"admitted", "joining", "connected"}
    /\ sess' = [sess EXCEPT ![j] = End(@, "left")]
    /\ hand' = [hand EXCEPT ![j] = 0]
    /\ room' = NextProjection
    /\ UNCHANGED <<open, space, adm, member, assign, sent, receipt, calls>>

(* Recorded and ignored: stale, terminal or unsupported.                   *)
WebhookIgnored(e) ==
    /\ e \notin received
    /\ received' = received \cup {e}
    /\ UNCHANGED <<open, space, room, people, sent, receipt, calls>>

-----------------------------------------------------------------------------
(* Moderation: ApplyModeration. *)

(* The participant of u in the room, as loadSignalParticipantByActor finds *)
(* it; its stored role is the base of the actor's effective role.          *)
ActorRoles(u) == {EffectiveRole(u, sess[j].role) :
                    j \in {i \in Attempts : AttemptUser[i] = u /\ InRoom(sess[i])}}

(* moderationActorAllowed *)
ActorAllowed(op, role) ==
    CASE op \in {"lock", "unlock", "promote", "demote"} -> role = "host"
      [] op \in {"remove", "mute"} -> role \in {"host", "co_host"}

(* moderationTargetAllowed *)
TargetAllowed(op, actorRole, targetRole) ==
    CASE targetRole = "host" -> FALSE
      [] op = "promote" -> actorRole = "host" /\ targetRole = "attendee"
      [] op = "demote" -> actorRole = "host" /\ targetRole = "co_host"
      [] OTHER -> actorRole = "host" \/ targetRole = "attendee"

(* moderationAuthority and authorizeModerationOperation: an organization   *)
(* admin who does not own the meeting removes people as a safety action.   *)
SafetyAction(c) == c.op = "remove" /\ c.actor \in SafetyAdmins
Authority(c, role) == SafetyAction(c) \/ (role \in ActorRoles(c.actor)
                                          /\ ActorAllowed(c.op, role))

(* The checks that every moderation command passes.                        *)
Moderates(k, ops, role) ==
    LET c == sent[k] IN
    /\ Arrives(k, ops)
    /\ open
    /\ Sees(c.actor)
    /\ c.space = space.version
    /\ c.room = room.version
    /\ c.projection = room.projection
    /\ Authority(c, role)

(* loadModerationTarget and the checks on it.                              *)
ModerationTarget(c, role) ==
    LET j == c.target
        targetRole == EffectiveRole(AttemptUser[j], sess[j].role)
    IN  /\ InRoom(sess[j])
        /\ AttemptUser[j] # c.actor
        /\ targetRole # "host"
        /\ SafetyAction(c) \/ TargetAllowed(c.op, role, targetRole)

(* insertModerationReceipt: all but a lock have to reach the provider.     *)
RecordModeration(k) == Record(k, IF sent[k].op \in LockOps THEN "none" ELSE "pending")

SetLocked(k, role) ==
    LET locked == sent[k].op = "lock" IN
    /\ Moderates(k, LockOps, role)
    /\ space' = IF space.locked = locked THEN space
                ELSE [space EXCEPT !.version = @ + 1, !.locked = locked]
    /\ RecordModeration(k)
    /\ UNCHANGED <<open, room, people, sent, providerVars>>

(* mutateDynamicCoHost *)
ChangeParticipantRole(k, role) ==
    LET c == sent[k]
        j == c.target
        u == AttemptUser[j]
        promote == c.op = "promote"
    IN  /\ Moderates(k, {"promote", "demote"}, role)
        /\ ModerationTarget(c, role)
        /\ promote \/ assign[u] = "active"
        /\ assign' = [assign EXCEPT ![u] = IF promote THEN "active" ELSE "revoked"]
        /\ sess' = [sess EXCEPT ![j].role =
                      IF promote THEN "co_host" ELSE "attendee"]
        /\ room' = NextRoomVersion
        /\ RecordModeration(k)
        /\ UNCHANGED <<open, space, adm, member, hand, sent, providerVars>>

MuteParticipant(k, role) ==
    /\ Moderates(k, {"mute"}, role)
    /\ ModerationTarget(sent[k], role)
    /\ RecordModeration(k)
    /\ UNCHANGED <<open, space, room, people, sent, providerVars>>

RemoveParticipant(k, role) ==
    LET j == sent[k].target IN
    /\ Moderates(k, {"remove"}, role)
    /\ ModerationTarget(sent[k], role)
    /\ sess' = [sess EXCEPT ![j] = End(@, "removed")]
    /\ hand' = [hand EXCEPT ![j] = 0]
    /\ room' = NextRoomVersion
    /\ RecordModeration(k)
    /\ UNCHANGED <<open, space, adm, member, assign, sent, providerVars>>

(* ClaimProviderModerationEffect, by the request or by a retry of it.      *)
ClaimProviderModerationEffect(k) ==
    /\ receipt[k].attempts < MaxClaims
    /\ receipt[k].effect \in {"pending", "retryable"}
       \/ (receipt[k].effect = "applying" /\ ~receipt[k].leased)
    /\ receipt' = [receipt EXCEPT ![k].effect = "applying",
                                  ![k].attempts = @ + 1, ![k].leased = TRUE]
    /\ calls' = calls \cup {[key |-> k, attempt |-> receipt[k].attempts + 1]}
    /\ UNCHANGED <<open, space, room, people, sent, received>>

(* applyProviderEffect, classifyModerationProviderError and                *)
(* CompleteProviderModerationEffect, fenced by the attempt; a worker that  *)
(* dies never completes.                                                   *)
CompleteProviderModerationEffect(call, outcome) ==
    LET k == call.key IN
    /\ call \in calls
    /\ calls' = calls \ {call}
    /\ receipt' = IF receipt[k].effect = "applying"
                     /\ receipt[k].attempts = call.attempt
                  THEN [receipt EXCEPT ![k].effect = outcome,
                                       ![k].leased = FALSE]
                  ELSE receipt
    /\ UNCHANGED <<open, space, room, people, sent, received>>

EffectLeaseExpires(k) ==
    /\ receipt[k].effect = "applying" /\ receipt[k].leased
    /\ receipt' = [receipt EXCEPT ![k].leased = FALSE]
    /\ UNCHANGED <<open, space, room, people, sent, providerVars>>

-----------------------------------------------------------------------------
(* Hands: SendSignal. *)

(* loadSignalAuthority: the actor's participant in the open room.          *)
SignalAuthority(u, j) ==
    /\ open
    /\ Sees(u)
    /\ AttemptUser[j] = u /\ InRoom(sess[j])

(* SendSignal: the versions are checked after the replay.                  *)
Signals(k, ops, j) ==
    LET c == sent[k] IN
    /\ Arrives(k, ops)
    /\ SignalAuthority(c.actor, j)
    /\ c.space = space.version
    /\ c.room = room.version
    /\ c.projection = room.projection

(* advanceSignalRoomProjection *)
NextSignal == [room EXCEPT !.projection = @ + 1, !.signal = @ + 1]

(* applySignal and persistSignalChange; a hand that is up stays as it is.  *)
RaiseHand(k, j) ==
    /\ Signals(k, {"raise"}, j)
    /\ IF hand[j] # 0 THEN UNCHANGED <<hand, room>>
       ELSE /\ room' = NextSignal
            /\ hand' = [hand EXCEPT ![j] = room.signal + 1]
    /\ Record(k, "none")
    /\ UNCHANGED <<open, space, sess, adm, member, assign, sent, providerVars>>

(* canModerateParticipantHands *)
LowerHands(k, j) ==
    LET c == sent[k]
        js == CASE c.op = "lower"     -> {j}
                [] c.op = "lower_one" -> {c.target}
                [] OTHER              -> Attempts
    IN  /\ Signals(k, {"lower", "lower_one", "lower_all"}, j)
        /\ c.op # "lower" => Moderator(RoomRole(c.actor))
        /\ c.op = "lower_one" => InRoom(sess[c.target])
        /\ hand' = [i \in Attempts |-> IF i \in js THEN 0 ELSE hand[i]]
        /\ room' = IF \E i \in js : hand[i] # 0 THEN NextSignal ELSE room
        /\ Record(k, "none")
        /\ UNCHANGED <<open, space, sess, adm, member, assign, sent, providerVars>>

(* End or recover of the room: expireOutstandingLobbyAdmissions,           *)
(* terminateRoomParticipants, failRoomParticipants.                        *)
CloseRoom(status) ==
    /\ open
    /\ open' = FALSE
    /\ adm' = [j \in Attempts |-> IF adm[j].status = "waiting"
                                  THEN ExpiredAdmission(adm[j]) ELSE adm[j]]
    /\ sess' = [j \in Attempts |-> IF Active(sess[j]) THEN End(sess[j], status)
                                   ELSE sess[j]]
    /\ hand' = [j \in Attempts |-> 0]
    /\ room' = IF \E j \in Attempts : Active(sess[j])
               THEN NextRoomVersion ELSE [room EXCEPT !.version = @ + 1]
    /\ UNCHANGED <<space, member, assign, sent, receipt, providerVars>>

-----------------------------------------------------------------------------
Lobby(k) == Admit(k) \/ Deny(k) \/ RestoreAdmission(k) \/ TooLate(k)
            \/ CancelJoinAttempt(k)
Members(k) == InviteMember(k) \/ RevokeMember(k) \/ RestoreMember(k)
Moderation(k) ==
    \/ \E r \in Roles : SetLocked(k, r) \/ ChangeParticipantRole(k, r)
                        \/ MuteParticipant(k, r) \/ RemoveParticipant(k, r)
    \/ ClaimProviderModerationEffect(k)
    \/ EffectLeaseExpires(k)

LobbyNext ==
    \/ \E k \in Keys, u \in Users, op \in Ops :
         \E t \in Targets(op) : Send(k, u, op, t)
    \/ \E k \in Keys : Lobby(k) \/ Members(k) \/ Moderation(k)
    \/ \E k \in Keys, j \in Attempts : RaiseHand(k, j) \/ LowerHands(k, j)
    \/ \E j \in Attempts : \/ Overdue(j)
                           \/ CreateOrReuseJoinAttempt(j)
                           \/ PrepareCredential(j)
    \/ \E js \in ListAdmissions \cup GetJoinAttempt : ExpireTimedOut(js)
    \/ \E e \in Events, j \in Attempts : ParticipantJoined(e, j)
                                         \/ ParticipantLeft(e, j)
    \/ \E e \in Events : WebhookIgnored(e)
    \/ \E call \in calls, o \in {"applied", "retryable", "permanent"} :
         CompleteProviderModerationEffect(call, o)
    \/ \E s \in {"left", "failed"} : CloseRoom(s)

LobbySpec == LobbyInit /\ [][LobbyNext]_lobbyVars

-----------------------------------------------------------------------------
SessionRow == [status : SessionStatuses, role : Roles, reserved : BOOLEAN,
               restored : BOOLEAN]
AdmissionRow == [status : AdmissionStatuses, version : Nat, overdue : BOOLEAN]
MemberRow == [status : {"none", "active", "revoked"}, version : Nat]
Command == [op : Ops \cup {"none"}, actor : Users \cup {None},
            target : Users \cup Attempts \cup {None}, space : Nat, room : Nat,
            projection : Nat, row : Nat]
ReceiptRow == [done : BOOLEAN, effect : Effects, attempts : Nat,
               leased : BOOLEAN]

(* Type correctness of the rows the media tables keep about one room.      *)
LobbyTypeOK ==
    /\ open \in BOOLEAN
    /\ space \in [version : Nat, locked : BOOLEAN, seats : Nat]
    /\ room \in [version : Nat, projection : Nat, signal : Nat]
    /\ sess \in [Attempts -> SessionRow]
    /\ adm \in [Attempts -> AdmissionRow]
    /\ member \in [Users -> MemberRow]
    /\ assign \in [Users -> {"none", "active", "revoked"}]
    /\ hand \in [Attempts -> Nat]
    /\ sent \in [Keys -> Command]
    /\ receipt \in [Keys -> ReceiptRow]
    /\ calls \subseteq [key : Keys, attempt : Nat]
    /\ received \subseteq Events

(* Seats are accounted: capacity_reserved is true of exactly the sessions  *)
(* that still may use the room, the quota is never exceeded, and nobody    *)
(* has two of them at a time, whichever of expiry, denial, revocation,     *)
(* removal or webhook ends a session.                                      *)
SeatsAccounted ==
    /\ \A j \in Attempts : sess[j].reserved <=> Active(sess[j])
    /\ Cardinality({j \in Attempts : sess[j].reserved}) <= space.seats
    /\ \A i, j \in Attempts :
         /\ AttemptUser[i] = AttemptUser[j]
         /\ Active(sess[i]) /\ Active(sess[j])
         => i = j

(* The rows of an attempt agree: an admission waits exactly while its      *)
(* session does, a session that entered through the lobby stays in the     *)
(* room only on an admission a moderator granted, and a raised hand        *)
(* belongs to somebody in the room and has a place in the order of its own.*)
AttemptRowsAgree ==
    \A j \in Attempts :
      /\ adm[j].status = "waiting" <=> sess[j].status = "waiting"
      /\ (sess[j].status \in {"admitted", "joining", "connected"}
          /\ adm[j].status # "none") => adm[j].status = "admitted"
      /\ hand[j] # 0 => /\ InRoom(sess[j]) /\ hand[j] <= room.signal
                        /\ \A i \in Attempts : hand[i] = hand[j] => i = j

(* Whoever was put out stays out: a removed person with no restore has no  *)
(* live session, and neither has a revoked member.                         *)
BarredStaysOut ==
    \A u \in Users :
      /\ Barred(u) => ~HasActive(u)
      /\ ~MayJoin(u) => ~HasActive(u)

(* What GetParticipantSnapshot shows of an attempt.                        *)
Shown(j) == IF InRoom(sess[j]) THEN <<sess[j].status, sess[j].role, hand[j]>>
            ELSE <<"out", "attendee", 0>>

(* Every change a snapshot would show moves projection_version, so that a  *)
(* command that still carries the current one saw the roster it acts on.   *)
RosterVersioned ==
    [][(\E j \in Attempts : Shown(j)' # Shown(j))
         => room'.projection > room.projection]_lobbyVars

-----------------------------------------------------------------------------
(* A command in flight names a target of its kind.                         *)
CommandsFit ==
    \A k \in Keys : sent[k].op # "none" =>
      sent[k].actor \in Users /\ sent[k].target \in Targets(sent[k].op)

(* An attempt nobody made has no admission request.                        *)
FreshRows == \A j \in Attempts : sess[j].status = "none" => adm[j].status = "none"

(* The inductive invariant of the room.                                    *)
LobbyIInv == /\ LobbyTypeOK
             /\ CommandsFit
             /\ FreshRows
             /\ SeatsAccounted
             /\ AttemptRowsAgree
             /\ BarredStaysOut
=============================================================================
