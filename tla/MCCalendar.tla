----------------------------- MODULE MCCalendar -----------------------------
(* Four views of one class. "occurrences": a session, a series, a study   *)
(* meeting and a student who may be invited. "split": a series split or    *)
(* cut while a session and the organizer's study meeting stand.            *)
(* "answers": what members and a guest answer to a session or a series     *)
(* while it is changed, cut, split and cancelled. "poll": a poll from      *)
(* draft to its outcome, beside a session and a study meeting.             *)
EXTENDS Polls, TLC

VARIABLE focus

MCInit == Init /\ PollInit /\ focus \in {"occurrences", "split", "answers", "poll"}

(* The sources whose audience is replaced.                                 *)
Watched == {SessionSource("s1"), SeriesSource("r1"), OccurrenceSource("r1", 2)}

Replace(src, who, asked, rerolled) ==
    \/ src[1] = "session" /\ ReplaceSessionAudience(src[2], who, asked, rerolled)
    \/ ReplaceParticipationAudience(src, who, asked, rerolled)

Occurrences ==
    \/ \E t \in Slots : CreateSession("teacher", "s1", t) \/ UpdateSession("s1", t)
    \/ CreateSeries("teacher", "r1", 1, 2)
    \/ \E k \in Slots, t \in Starts, o \in BOOLEAN : UpdateOccurrence("r1", k, t, o)
    \/ \E k \in Slots : CancelOccurrence("r1", k)
    \/ \E t \in Starts, n \in Counts \cup {0} : UpdateEntireSeries("r1", t, n, FALSE)
    \/ \E src \in Watched,
          who \in SUBSET {"ann"} : Replace(src, who, TRUE, {})
    \/ \E t \in Slots : BookMeeting("m1", "ann", t) \/ MoveMeeting("m1", t)

Split ==
    \/ \E t \in Slots : CreateSession("teacher", "s1", t)
    \/ \E t \in Slots, n \in Counts : CreateSeries("teacher", "r1", t, n)
    \/ \E k \in Slots, t \in Starts, o \in BOOLEAN : UpdateOccurrence("r1", k, t, o)
    \/ \E k \in Slots : CancelOccurrence("r1", k)
    \/ \E b \in Slots : CancelFollowing("r1", b)
    \/ CancelSeries("r1")
    \/ \E b \in Slots \cup {0}, t \in Starts, n \in Counts \cup {0}, p \in Policies,
          o \in BOOLEAN : SplitSeries("r1", "r2", b, t, n, p, o)
    \/ \E t \in Slots, n \in Counts \cup {0}, o \in BOOLEAN : UpdateEntireSeries("r2", t, n, o)
    \/ \E t \in Slots : BookMeeting("m1", "teacher", t)
    \/ CancelMeeting("m1")

Answering ==
    \/ CreateSession("teacher", "s1", 1)
    \/ CancelSession("s1")
    \/ CreateSeries("teacher", "r1", 1, 2)
    \/ CancelSeries("r1")
    \/ CancelFollowing("r1", 1)
    \/ UpdateOccurrence("r1", 2, NoSlot, FALSE) \/ CancelOccurrence("r1", 2)
    \/ \E b \in {0, 1} : SplitSeries("r1", "r2", b, NoSlot, 0, "carry", FALSE)
    \/ \E src \in Watched, asked \in BOOLEAN, who \in {{"guest"}, {"ann", "guest"}} :
         \E rerolled \in {{}, {"ann"} \cap who} : Replace(src, who, asked, rerolled)
    \/ \E src \in Watched : TransferOrganizer(src, "helper")
    \/ AnswerNext

Polling ==
    \/ /\ UNCHANGED vars
       /\ \/ \E share \in ShareModes : \/ CreatePoll(share, {1, 2}, {"ann"})
                                       \/ UpdatePoll(share, {1, 2}, {"ann"}, FALSE)
                                       \/ UpdatePoll(share, {2}, {}, TRUE)
          \/ OpenPoll \/ ClosePoll \/ ReopenPoll \/ CancelPoll \/ DeadlinePasses
          \/ \E answers \in {{}, {1}} : Respond("ann", answers)
          \/ \E s \in SessionRows : RespondPublic(s, {2})
          \/ \E c \in AccessRows :
               \/ \E p \in {"ann", Nil} : CreateCapability(c, p)
               \/ RevokeCapability(c)
               \/ \E g \in {"guest", "ann"}, s \in SessionRows : ResolvePublic(g, c, s)
          \/ \E c \in LinkRows : LinkExpires(c)
    \/ FinalizeStudyMeeting("m1", 2)
    \/ \E t \in Slots : FinalizeClassSession("s1", t)
    \/ /\ UNCHANGED pollVars
       /\ \/ CreateSession("teacher", "s1", 1) \/ CancelSession("s1")
          \/ BookMeeting("m1", "teacher", 2) \/ MoveMeeting("m1", 1)

MCNext ==
    /\ UNCHANGED focus
    /\ \/ /\ UNCHANGED pollVars
          /\ \/ focus = "occurrences" /\ Occurrences
             \/ focus = "split" /\ Split
             \/ focus = "answers" /\ Answering
       \/ focus = "poll" /\ Polling
MCSpec == MCInit /\ [][MCNext]_<<vars, pollVars, focus>>

Bounded ==
    /\ \A i \in SessionIds : session[i].sequence <= 1
    /\ \A r \in SeriesIds : series[r].sequence <= 2
    /\ \A src \in Sources : snapshot[src].sequence <= IF focus = "occurrences" THEN 1 ELSE 2
    /\ focus = "poll" =>
         \/ \A c \in LinkRows : link[c] = NoLink
         \/ session["s1"].status = "none" /\ meeting["m1"].status = "none"
    /\ focus = "answers" =>
         /\ series["r1"].status # "none" => session["s1"].status = "none" /\ ~archived
         /\ Invited(OccurrenceSource("r1", 1)) = {}
         /\ "helper" \in Invited(SeriesSource("r1")) => exception["r1"] = NoExceptions
=============================================================================
