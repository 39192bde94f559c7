------------------------------- MODULE Policy -------------------------------
(***************************************************************************)
(* The authorization engine (internal/policy/policy.go): what organization *)
(* and class roles permit, which resource states block an action, and the  *)
(* roster hierarchy. The tables keep the actions the models use.           *)
(***************************************************************************)
EXTENDS Integers

OrganizationRoles == {"org_admin", "teacher", "student", "guest"}
PersistedClassRoles == {"co_teacher", "teaching_assistant", "student"}

(* validAction: the actions of the tables below.                           *)
AllPermissions ==
    {"tenant.view", "tenant.manage_members", "class.create", "class.update",
     "class.archive", "class.transfer_ownership", "class.view",
     "conversation.create_direct", "message.write_direct",
     "poll.create", "poll.manage_own", "poll.publish_to_class",
     "study_meeting.schedule_own", "enrollment.manage", "enrollment.leave",
     "session.schedule", "session.start", "session.join", "chat.send"}

(* actionRequiresClass *)
ActionRequiresClass(action) ==
    action \in {"class.update", "class.archive", "class.transfer_ownership",
                "enrollment.manage", "enrollment.leave", "session.schedule",
                "session.start", "session.join", "chat.send",
                "poll.publish_to_class"}

(* organizationPermissions *)
OrganizationPermissions ==
    LET member == {"tenant.view", "conversation.create_direct",
                   "message.write_direct", "poll.create", "poll.manage_own",
                   "study_meeting.schedule_own"}
    IN  [org_admin |-> AllPermissions,
         teacher |-> member \cup
           {"class.create", "class.update", "class.view", "enrollment.manage",
            "session.schedule", "session.start", "session.join", "chat.send",
            "poll.publish_to_class"},
         student |-> member,
         guest |-> member]

(* classPermissions *)
ClassPermissions ==
    LET enrolled == {"class.view", "enrollment.leave", "session.join", "chat.send"}
        managing == enrolled \cup {"class.update", "enrollment.manage",
                                   "session.schedule", "session.start",
                                   "poll.publish_to_class"}
    IN  [owner |-> managing \cup {"class.archive", "class.transfer_ownership"},
         co_teacher |-> managing,
         teaching_assistant |-> enrolled,
         student |-> enrolled]

(* EffectivePermissions *)
EffectivePermissions(active, role, classRoles) ==
    IF ~active THEN {}
    ELSE OrganizationPermissions[role]
           \cup UNION {ClassPermissions[r] : r \in classRoles}

(* actionBlockedForResourceState *)
Blocked(action, state) ==
    CASE state \in {"unknown", "active"} -> FALSE
      [] state = "draft" ->
           /\ ActionRequiresClass(action)
           /\ action \notin {"class.update", "class.archive",
                             "class.transfer_ownership"}
      [] state = "archived" ->
           /\ ActionRequiresClass(action)
           /\ action \notin {"class.archive", "class.transfer_ownership",
                             "enrollment.manage", "enrollment.leave"}

(* Authorize, within one tenant *)
Authorize(active, role, classRoles, action, state) ==
    /\ action \in EffectivePermissions(active, role, classRoles)
    /\ ~Blocked(action, state)

-----------------------------------------------------------------------------
(* organizationRosterLevel *)
OrganizationLevel == [org_admin |-> 4, teacher |-> 2, student |-> 0, guest |-> 0]

(* classRosterLevel *)
ClassLevel == [owner |-> 3, co_teacher |-> 2, teaching_assistant |-> 1, student |-> 0]

(* rosterAuthorityLevel *)
AuthorityLevel(role, classRoles) ==
    LET levels == {OrganizationLevel[role]} \cup {ClassLevel[r] : r \in classRoles}
    IN  CHOOSE n \in levels : \A m \in levels : m <= n

(* CanMutateRoster: strictly downwards, never oneself or the owner; a role *)
(* to grant is below the actor's level too.                                *)
CanMutateRoster(actor, actorLevel, target, targetLevel, targetIsOwner, desired) ==
    /\ actor # target
    /\ ~targetIsOwner
    /\ actorLevel > targetLevel
    /\ desired # "" => actorLevel > ClassLevel[desired]
=============================================================================
