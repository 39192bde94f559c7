------------------------------- MODULE Polls --------------------------------
(***************************************************************************)
(* An availability poll: its owner offers slots, members and guests with a *)
(* link answer, and the owner turns one slot into a study meeting or a     *)
(* class session (internal/modules/calendar:                               *)
(* postgres_availability_poll_repository.go; internal/modules/classroom:   *)
(* poll_outcome_writer.go).                                                *)
(*                                                                         *)
(* Every method locks the poll row, so each is one step; a stale version,  *)
(* a repeated key and every other refusal change nothing and are no step.  *)
(* A token names a row of availability_poll_capabilities until the row is  *)
(* reused, which replaces the digest; whoever holds an older token is      *)
(* refused, so a row stands for its newest token.                          *)
(***************************************************************************)
EXTENDS Participation

CONSTANTS
    PollOwner,      \* of the Schedulers
    Invitees,       \* participants the owner may name, members or not
    AccessRows,     \* poll_access rows, at most maximumPollAccessCapabilities
    SessionRows,    \* response_session rows, at most maximumPollResponseSessionHistory
    ResponseLimit,  \* quota availability_poll_participants
    MaxStructures,  \* maximumPollSlotHistory, maximumPollParticipantHistory
    Nil

ASSUME PollsAssumption ==
    /\ PollOwner \in Schedulers
    /\ ResponseLimit \in Nat
    /\ MaxStructures \in Nat \ {0}
    /\ AccessRows \cap SessionRows = {}
    /\ Nil \notin Users \cup Invitees \cup SessionRows

VARIABLES
    poll,       \* the availability_polls row with its unretired slots
    responses,  \* the availability_poll_responses rows with their answers
    link        \* the availability_poll_capabilities rows

pollVars == <<poll, responses, link>>

LinkRows == AccessRows \cup SessionRows
ShareModes == {"class_members", "invited_only", "anyone_with_link"}
NoLink == [status |-> "none", parent |-> Nil, participant |-> Nil, holder |-> Nil]
NoPoll == [status |-> "none", structure |-> 0, slots |-> {}, share |-> "class_members",
           invited |-> {}, late |-> FALSE]

PollInit ==
    /\ poll = NoPoll
    /\ responses = {}
    /\ link = [c \in LinkRows |-> NoLink]

-----------------------------------------------------------------------------
(* CreatePoll *)
CreatePoll(share, slots, invited) ==
    /\ poll.status = "none"
    /\ poll' = [status |-> "draft", structure |-> 1, slots |-> slots, share |-> share,
                invited |-> invited, late |-> FALSE]
    /\ UNCHANGED <<responses, link>>

(* Every unrevoked row of the poll is revoked.                             *)
AllRevoked ==
    [c \in LinkRows |-> IF link[c].status = "live" THEN [link[c] EXCEPT !.status = "dead"]
                        ELSE link[c]]

(* UpdatePoll: slots, participants and the rest of the structure change    *)
(* (pollStructureMatchesInput) only while nobody has answered.             *)
(* mutant: also afterwards *)
StructureFreeAlways == TRUE
StructureFree == responses = {} /\ poll.structure < MaxStructures
UpdatePoll(share, slots, invited, structural) ==
    /\ poll.status \in {"draft", "open", "closed"}
    /\ IF structural THEN StructureFree
       ELSE slots = poll.slots /\ invited = poll.invited
    /\ poll' = [poll EXCEPT !.structure = IF structural THEN @ + 1 ELSE @,
                            !.slots = slots, !.invited = invited, !.share = share,
                            !.late = FALSE]
    /\ link' = IF structural \/ share # poll.share THEN AllRevoked ELSE link
    /\ UNCHANGED responses

(* transitionPoll: to open only before the deadline; reopening sets a new  *)
(* one.                                                                    *)
TransitionPoll(from, to, late) ==
    /\ poll.status = from
    /\ to = "open" => ~late
    /\ poll' = [poll EXCEPT !.status = to, !.late = late]
    /\ UNCHANGED <<responses, link>>
OpenPoll == TransitionPoll("draft", "open", poll.late)
ClosePoll == TransitionPoll("open", "closed", poll.late)
ReopenPoll == TransitionPoll("closed", "open", FALSE)

(* CancelPoll *)
CancelPoll ==
    /\ poll.status \in {"draft", "open", "closed"}
    /\ poll' = [poll EXCEPT !.status = "cancelled"]
    /\ link' = AllRevoked
    /\ UNCHANGED responses

DeadlinePasses ==
    /\ poll.status \in {"draft", "open", "closed"} /\ ~poll.late
    /\ poll' = [poll EXCEPT !.late = TRUE]
    /\ UNCHANGED <<responses, link>>

Answerable == poll.status = "open" /\ ~poll.late

-----------------------------------------------------------------------------
(* upsertPollResponse and replacePollAnswers. author is who wrote the row  *)
(* first, a history field. The unique indexes refuse a second row of a     *)
(* member, of a participant or of a session.                               *)
NewResponse(user, participant, cap, author, answers) ==
    [user |-> user, participant |-> participant, cap |-> cap, author |-> author,
     answers |-> {<<poll.structure, t>> : t \in answers}]
InsertResponse(r) ==
    /\ Cardinality(responses) + 1 <= ResponseLimit
    /\ \A old \in responses :
         /\ r.participant # Nil => old.participant # r.participant
         /\ r.cap # Nil => old.cap # r.cap
    /\ responses' = responses \cup {r}
UpdateResponse(old, r) ==
    responses' = (responses \ {old}) \cup
        {[old EXCEPT !.answers = r.answers,
                     !.cap = IF old.user = Nil THEN r.cap ELSE @]}
UpsertResponse(mine, r) ==
    IF mine = {} THEN InsertResponse(r) ELSE \E old \in mine : UpdateResponse(old, r)

(* loadPoll: who may answer when signed in.                                *)
CanRespond(u) ==
    u = PollOwner \/ u \in poll.invited \/ (poll.share = "class_members" /\ u \in Users)

(* Respond, validateAnswerSlotSet *)
Respond(u, answers) ==
    /\ Answerable
    /\ CanRespond(u)
    /\ answers \subseteq poll.slots
    /\ UpsertResponse({r \in responses : r.user = u},
                      NewResponse(u, IF u \in poll.invited THEN u ELSE Nil, Nil, u, answers))
    /\ UNCHANGED <<poll, link>>

-----------------------------------------------------------------------------
(* CreateCapability: an expired or revoked row without sessions is reused  *)
(* before one is inserted.                                                 *)
ReusableAccess == {c \in AccessRows : link[c].status = "dead"
                                        /\ \A s \in SessionRows : link[s].parent # c}
CreateCapability(c, p) ==
    /\ poll.status \in {"draft", "open", "closed"}
    /\ \/ poll.share = "invited_only" /\ p \in poll.invited
       \/ poll.share = "anyone_with_link" /\ p = Nil
    /\ IF ReusableAccess = {} THEN link[c].status = "none" ELSE c \in ReusableAccess
    /\ link' = [link EXCEPT ![c] = [NoLink EXCEPT !.status = "live", !.participant = p]]
    /\ UNCHANGED <<poll, responses>>

(* RevokeCapability, with the sessions opened by it *)
RevokeCapability(c) ==
    /\ link[c].status = "live"
    /\ link' = [d \in LinkRows |->
         IF (d = c \/ link[d].parent = c) /\ link[d].status = "live"
         THEN [link[d] EXCEPT !.status = "dead"] ELSE link[d]]
    /\ UNCHANGED <<poll, responses>>

(* expires_at passes; a session never outlives the row it came from.       *)
LinkExpires(c) ==
    /\ link[c].status = "live"
    /\ link' = [d \in LinkRows |->
         IF (d = c \/ link[d].parent = c) /\ link[d].status = "live"
         THEN [link[d] EXCEPT !.status = "dead"] ELSE link[d]]
    /\ UNCHANGED <<poll, responses>>

(* loadPublicCapability *)
PublicCapability(c) ==
    /\ link[c].status = "live"
    /\ c \in SessionRows => link[link[c].parent].status = "live"

(* ResolvePublic: whoever has the token of c trades it for a session. A    *)
(* row is reused only while no response hangs on it.                       *)
(* mutant: any expired session is reused *)
ReusableSessionsAll == {s \in SessionRows : link[s].status = "dead"}
ReusableSessions ==
    {s \in SessionRows : link[s].status = "dead" /\ \A r \in responses : r.cap # s}
ResolvePublic(g, c, s) ==
    /\ c \in AccessRows /\ PublicCapability(c)
    /\ Answerable
    /\ poll.share # "class_members"
    /\ IF ReusableSessions = {} THEN link[s].status = "none" ELSE s \in ReusableSessions
    /\ link' = [link EXCEPT ![s] = [status |-> "live", parent |-> c,
                                    participant |-> link[c].participant, holder |-> g]]
    /\ UNCHANGED <<poll, responses>>

(* RespondPublic: the answer of an invited participant is one row whoever  *)
(* gave it, that of anyone else belongs to the session.                    *)
RespondPublic(s, answers) ==
    LET p == link[s].participant
        mine == IF p # Nil THEN {r \in responses : r.participant = p}
                           ELSE {r \in responses : r.cap = s}
    IN  /\ s \in SessionRows /\ PublicCapability(s)
        /\ Answerable
        /\ poll.share # "class_members"
        /\ answers \subseteq poll.slots
        /\ UpsertResponse(mine, NewResponse(Nil, p, s, IF p # Nil THEN p ELSE link[s].holder,
                                            answers))
        /\ UNCHANGED <<poll, link>>

-----------------------------------------------------------------------------
(* Finalize with a study meeting of the owner, or a class session          *)
(* (CreatePollOutcomeInTransaction), in the same transaction.              *)
Finalized(t) ==
    /\ poll.status = "closed"
    /\ t \in poll.slots
    /\ poll' = [poll EXCEPT !.status = "finalized"]
    /\ UNCHANGED <<responses, link>>
FinalizeStudyMeeting(m, t) == Finalized(t) /\ BookMeeting(m, PollOwner, t)
FinalizeClassSession(i, t) == Finalized(t) /\ CreateSession(PollOwner, i, t)

PollStep ==
    \/ \E share \in ShareModes, slots \in SUBSET Slots \ {{}}, invited \in SUBSET Invitees :
         \/ CreatePoll(share, slots, invited)
         \/ \E structural \in BOOLEAN : UpdatePoll(share, slots, invited, structural)
    \/ OpenPoll \/ ClosePoll \/ ReopenPoll \/ CancelPoll \/ DeadlinePasses
    \/ \E answers \in SUBSET poll.slots :
         \/ \E u \in Users : Respond(u, answers)
         \/ \E s \in SessionRows : RespondPublic(s, answers)
    \/ \E c \in AccessRows :
         \/ \E p \in Invitees \cup {Nil} : CreateCapability(c, p)
         \/ RevokeCapability(c)
         \/ \E g \in People, s \in SessionRows : ResolvePublic(g, c, s)
    \/ \E c \in LinkRows : LinkExpires(c)
PollNext ==
    \/ PollStep /\ UNCHANGED vars
    \/ \E m \in MeetingIds, t \in Slots : FinalizeStudyMeeting(m, t)
    \/ \E i \in SessionIds, t \in Slots : FinalizeClassSession(i, t)
PollSpec == PollInit /\ Init /\ [][PollNext \/ (Next /\ UNCHANGED pollVars)]_<<vars, pollVars>>

-----------------------------------------------------------------------------
(* The rows of a poll have their types.                                    *)
PollRow == [status : {"none", "draft", "open", "closed", "finalized", "cancelled"},
            structure : Nat, slots : SUBSET Slots, share : ShareModes,
            invited : SUBSET Invitees, late : BOOLEAN]
ResponseRow == [user : Users \cup {Nil}, participant : Invitees \cup {Nil},
                cap : SessionRows \cup {Nil}, author : People \cup Invitees \cup {Nil},
                answers : SUBSET (Nat \X Slots)]
LinkRow == [status : {"none", "live", "dead"}, parent : AccessRows \cup {Nil},
            participant : Invitees \cup {Nil}, holder : People \cup {Nil}]
PollTypeOK ==
    /\ poll \in PollRow
    /\ responses \subseteq ResponseRow
    /\ link \in [LinkRows -> LinkRow]

(* A poll is answered once it exists; what is not a member's answer hangs  *)
(* on a session row, which is in use from then on.                         *)
ResponsesFit ==
    /\ poll.status = "none" => responses = {}
    /\ \A r \in responses :
         /\ r.user = Nil => r.cap # Nil
         /\ r.cap # Nil => link[r.cap].status # "none"

(* An answer means what it meant when it was given, and stays its author's *)
(* own: the slots it names are still those on offer, because UpdatePoll    *)
(* refuses to retire slots under answers, and the session row it hangs on  *)
(* is not handed to another person, because ResolvePublic reuses none that  *)
(* a response refers to.                                                   *)
AnswersKeepTheirMeaning ==
    \A r \in responses :
        /\ r.answers \subseteq {<<poll.structure, t>> : t \in poll.slots}
        /\ (r.user = Nil /\ r.participant = Nil) => link[r.cap].holder = r.author

PollInv == PollTypeOK /\ ResponsesFit /\ AnswersKeepTheirMeaning
=============================================================================
