---------------------------- MODULE SlackPolling ----------------------------
(***************************************************************************)
(* Asking reviewers: SlackAdapter (approval/slack.rs), redaction, the mock *)
(* adapter, and PollingScheduler (approval/scheduler.rs) with all its      *)
(* tasks.  ApprovalFlow has what one task goes through around a decision;  *)
(* here several tasks share the queue, the limiter and the cache of names, *)
(* and reviewers put reactions on messages and take them away.             *)
(*                                                                         *)
(* A document is a function from paths of keys and indices to its leaves.  *)
(* A message holds what it shows and its reactions, oldest first.  Time    *)
(* passes in ticks; whether a task is past its expires_at is left open.    *)
(***************************************************************************)
EXTENDS Integers, Sequences, FiniteSets, SequencesExt, FiniteSetsExt

CONSTANTS Tasks, None,
          Adapters,              \* kind "slack" or "mock"; the mock's verdict
          Votes,                 \* reactions reviewers may put: emoji and user
          ApproveReaction, RejectReaction,
          Arguments, RedactFields,   \* of the calls that need approval
          MaxConcurrent,         \* THOUGHTGATE_MAX_CONCURRENT_POLLS
          BaseInterval, MaxInterval,
          RetryAfter,            \* what a rate limited call is told to wait
          MaxUserCache, EvictShare,  \* 1000 names, of which a quarter goes
          MaxSubmits,            \* bound: submissions at one time
          MaxVotes               \* bound: reactions on all messages at one time

ASSUME SlackAssumption ==
    /\ {MaxConcurrent, BaseInterval, MaxSubmits, EvictShare} \subseteq Nat \ {0}
    /\ {MaxInterval, RetryAfter, MaxUserCache, MaxVotes} \subseteq Nat
    /\ IsFiniteSet(Tasks) /\ None \notin Nat

\* A field is the path to it, key by key.
ASSUME FieldsAssumption == RedactFields \in Seq(Seq(STRING))

\* Below this the quarter that is evicted is nothing; 1000 is far above.
ASSUME CacheAssumption == MaxUserCache >= EvictShare

VARIABLES adapter,
          status,       \* of the tasks, in the task store
          submit,       \* where the submission of a task is
          references,   \* of the tasks that have one: the interval before the last poll
          pending,      \* the queue: tasks and ticks to their next poll, in order
          token,        \* the rate limiter lets a call through
          poll,         \* what poll_next is doing
          message,      \* Slack: the message of a task
          userCache,
          run,          \* run goes on; then the references left to drain
          peak,         \* the most submissions there were at one time (history)
          verdict       \* decisions as recorded, with what they rest on (history)

vars == <<adapter, status, submit, references, pending, token, poll, message, userCache, run, peak, verdict>>
store == <<status, peak, verdict>>

NoPoll == [phase |-> "idle", task |-> None, interval |-> 0, found |-> None]

Init ==
    /\ adapter \in Adapters
    /\ status = [t \in Tasks |-> "none"] /\ peak = 0 /\ verdict = [t \in Tasks |-> None]
    /\ submit = [t \in Tasks |-> "none"]
    /\ references = [t \in Tasks |-> None] /\ pending = <<>>
    /\ token = TRUE /\ poll = NoPoll
    /\ message = [t \in Tasks |-> None]
    /\ userCache = {} /\ run = [on |-> TRUE, drain |-> {}]

References == {t \in Tasks : references[t] # None}
Queued(t) == \E k \in DOMAIN pending : pending[k].task = t

----------------------------------------------------------------------------
(* Pure parts.                                                             *)

\* redact_path: what is at or under the path gives way to one word.
RedactsLeavesOnly(doc, path) ==
    [p \in DOMAIN doc |-> IF p = path THEN "[REDACTED]" ELSE doc[p]]
RedactPath(doc, path) ==
    LET under == {p \in DOMAIN doc : IsPrefix(path, p)} IN
    IF under = {} THEN doc
    ELSE [p \in (DOMAIN doc \ under) \cup {path} |-> IF p = path THEN "[REDACTED]" ELSE doc[p]]
\* redact_fields: one field after the other.
Redact[n \in 0 .. Len(RedactFields)] ==
    IF n = 0 THEN Arguments ELSE RedactPath(Redact[n - 1], RedactFields[n])

\* build_approval_blocks and build_cancelled_blocks.
ApprovalBlocks == [shows |-> Redact[Len(RedactFields)], cancelled |-> FALSE, deleted |-> FALSE, votes |-> <<>>]
Cancelled(m) == IF m = None THEN m ELSE [m EXCEPT !.cancelled = TRUE, !.shows = None]

\* check_reactions: an approval counts before any rejection, and the first who
\* gave the reaction is who decided.
By(votes, emoji) == {k \in DOMAIN votes : votes[k].emoji = emoji}
Deciding(decision) == IF decision = "approved" THEN ApproveReaction ELSE RejectReaction
LastReactor(votes) ==
    IF By(votes, ApproveReaction) # {} THEN [decision |-> "approved", user |-> Last(votes).user]
    ELSE IF By(votes, RejectReaction) # {} THEN [decision |-> "rejected", user |-> Last(votes).user]
    ELSE None
CheckReactions(votes) ==
    LET found(decision) == [decision |-> decision, user |-> votes[Min(By(votes, Deciding(decision)))].user] IN
    IF By(votes, ApproveReaction) # {} THEN found("approved")
    ELSE IF By(votes, RejectReaction) # {} THEN found("rejected")
    ELSE None

\* map_slack_error and is_retriable, for the errors Slack has; "network" is a
\* call that failed or was not answered in JSON, "429" the status.
SlackErrors == {"network", "429", "ratelimited", "channel_not_found", "invalid_auth", "fatal_error"}
MapSlackError(e) ==
    CASE e \in {"429", "ratelimited"} -> "RateLimited"
      [] e = "channel_not_found" -> "ChannelNotFound"
      [] e = "invalid_auth" -> "InvalidToken"
      [] e = "message_not_found" -> "MessageNotFound"
      [] e = "network" -> "PollFailed"
      [] OTHER -> "PostFailed"
HandleRateLimit == 0 .. RetryAfter
IsRetriable(error) == error \in {"RateLimited", "PollFailed"}

\* backoff_interval: poll_count is kept as the interval it stands for, which is
\* doubled three times at most.
Smaller(a, b) == IF a < b THEN a ELSE b
FirstInterval == Smaller(BaseInterval, MaxInterval)
BackoffInterval(interval) == Smaller(Smaller(2 * interval, 8 * BaseInterval), MaxInterval)

\* The BTreeMap: by the time of the next poll.
AtTheFront(t, due) == <<[task |-> t, due |-> due]>> \o pending
Insert(t, due) ==
    LET later == {k \in DOMAIN pending : pending[k].due > due} IN
    InsertAt(pending, Min(later \cup {Len(pending) + 1}), [task |-> t, due |-> due])

----------------------------------------------------------------------------
(* submit, by the tasks of the requests.                                   *)

InSubmit == {t \in Tasks : submit[t] \in {"limiter", "posting", "queueing"}}
Fails(t) == submit' = [submit EXCEPT ![t] = "over"]

\* start_approval has put the task into the store; submit looks at the capacity.
CountsPending(t) ==
    /\ status[t] = "none" /\ Cardinality(InSubmit) < MaxSubmits
    /\ status' = [status EXCEPT ![t] = "input"]
    /\ IF Len(pending) >= MaxConcurrent THEN Fails(t) ELSE submit' = [submit EXCEPT ![t] = "limiter"]
    /\ peak' = Max({peak, Cardinality(InSubmit')})
    /\ UNCHANGED <<adapter, references, pending, token, poll, message, userCache, run, verdict>>
Submit(t) ==
    /\ status[t] = "none" /\ Cardinality(InSubmit) < MaxSubmits
    /\ status' = [status EXCEPT ![t] = "input"]
    /\ IF Cardinality(References) >= MaxConcurrent THEN Fails(t) ELSE submit' = [submit EXCEPT ![t] = "limiter"]
    /\ peak' = Max({peak, Cardinality(InSubmit')})
    /\ UNCHANGED <<adapter, references, pending, token, poll, message, userCache, run, verdict>>

SubmitReady(t) ==
    /\ submit[t] = "limiter" /\ token
    /\ token' = FALSE /\ submit' = [submit EXCEPT ![t] = "posting"]
    /\ UNCHANGED <<adapter, store, references, pending, poll, message, userCache, run>>

\* chat.postMessage.  Its answer may be lost, or the request be dropped, when the
\* message is there.
PostFails(t) ==
    /\ submit[t] = "posting" /\ adapter.kind = "slack"
    /\ Fails(t)
    /\ \E delivered \in BOOLEAN :
          message' = IF delivered THEN [message EXCEPT ![t] = ApprovalBlocks] ELSE message
    /\ UNCHANGED <<adapter, store, references, pending, token, poll, userCache, run>>
Posted(t) ==
    /\ submit[t] = "posting"
    /\ references' = [references EXCEPT ![t] = FirstInterval]
    /\ submit' = [submit EXCEPT ![t] = "queueing"]
    /\ UNCHANGED <<adapter, store, pending, token, poll, userCache, run>>
PostApprovalRequest(t) ==
    /\ adapter.kind = "slack" /\ Posted(t)
    /\ message' = [message EXCEPT ![t] = ApprovalBlocks]
MockPost(t) ==
    /\ adapter.kind = "mock" /\ Posted(t)
    /\ UNCHANGED message
Enqueue(t) ==
    /\ submit[t] = "queueing"
    /\ pending' = Insert(t, BaseInterval)
    /\ submit' = [submit EXCEPT ![t] = "over"]
    /\ UNCHANGED <<adapter, store, references, token, poll, message, userCache, run>>

----------------------------------------------------------------------------
(* run and poll_next.                                                      *)

Terminal(t) == status[t] \in {"rejected", "expired", "cancelled"}
Forget(t) == references' = [references EXCEPT ![t] = None]

\* get_next_due and the checks that follow it without an await.
TakeDue ==
    /\ run.on /\ poll.phase = "idle" /\ pending # <<>> /\ Head(pending).due = 0
    /\ pending' = Tail(pending)
    /\ LET t == Head(pending).task IN
       \/ /\ references[t] = None \/ Terminal(t)
          /\ Forget(t) /\ UNCHANGED <<status, poll>>
       \/ /\ references[t] # None /\ ~Terminal(t)
          /\ Forget(t) /\ status' = [status EXCEPT ![t] = "expired"] /\ UNCHANGED poll
       \/ /\ references[t] # None /\ ~Terminal(t)
          /\ poll' = [phase |-> "limiter", task |-> t, interval |-> references[t], found |-> None]
          /\ UNCHANGED <<status, references>>
    /\ UNCHANGED <<adapter, submit, token, message, userCache, run, verdict, peak>>

PollReady ==
    /\ poll.phase = "limiter" /\ token
    /\ token' = FALSE /\ poll' = [poll EXCEPT !.phase = "asking"]
    /\ UNCHANGED <<adapter, store, submit, references, pending, message, userCache, run>>

\* reschedule: the reference at once, the queue once its lock is held.
RescheduleAfter(due) ==
    /\ references' = [references EXCEPT ![poll.task] = BackoffInterval(poll.interval)]
    /\ poll' = [poll EXCEPT !.phase = "queueing", !.found = due]
Reschedule ==
    /\ poll.phase = "queueing"
    /\ pending' = Insert(poll.task, poll.found) /\ poll' = NoPoll
    /\ UNCHANGED <<adapter, store, submit, references, token, message, userCache, run>>

\* handle_decision and record_approval, which wants an InputRequired task.
HandleDecision(found) ==
    /\ Forget(poll.task) /\ poll' = NoPoll
    /\ IF status[poll.task] = "input"
         THEN /\ status' = [status EXCEPT ![poll.task] = IF found.decision = "approved" THEN "executing" ELSE "rejected"]
              /\ verdict' = [verdict EXCEPT ![poll.task] = found]
         ELSE UNCHANGED <<status, verdict>>

\* With what reviewers had said by then: the first of the two reactions, and
\* everybody who gave the one that decides.
Seen(found, votes) ==
    LET counted == By(votes, ApproveReaction) \cup By(votes, RejectReaction) IN
    [decision |-> found.decision, user |-> found.user, first |-> votes[Min(counted)].emoji,
     givers |-> {votes[k].user : k \in By(votes, Deciding(found.decision))}]

\* reactions.get: reactions of the message, or one of the errors.
PollAnswers ==
    /\ poll.phase = "asking" /\ adapter.kind = "slack" /\ ~message[poll.task].deleted
    /\ LET votes == message[poll.task].votes
           found == CheckReactions(votes) IN
       \/ /\ found = None
          /\ RescheduleAfter(BackoffInterval(poll.interval))
          /\ UNCHANGED <<status, verdict>>
       \/ /\ found # None /\ found.user \notin userCache
          /\ poll' = [poll EXCEPT !.phase = "naming", !.found = Seen(found, votes)]
          /\ UNCHANGED <<status, verdict, references>>
       \/ /\ found # None /\ found.user \in userCache
          /\ HandleDecision(Seen(found, votes))
    /\ UNCHANGED <<adapter, submit, pending, token, message, userCache, run, peak>>
PollFails(e) ==
    /\ poll.phase = "asking" /\ adapter.kind = "slack"
    /\ e = "message_not_found" <=> message[poll.task].deleted
    /\ LET error == MapSlackError(e) IN
       \/ /\ error = "RateLimited"
          /\ \E wait \in HandleRateLimit : RescheduleAfter(wait)
       \/ /\ error # "RateLimited" /\ IsRetriable(error)
          /\ RescheduleAfter(BackoffInterval(poll.interval))
       \/ /\ ~IsRetriable(error)
          /\ Forget(poll.task) /\ poll' = NoPoll
    /\ UNCHANGED <<adapter, store, submit, pending, token, message, userCache, run>>

\* MockAdapter::poll_for_decision, after the delay it gave itself.
MockPoll ==
    /\ poll.phase = "asking" /\ adapter.kind = "mock"
    /\ HandleDecision([decision |-> adapter.verdict, user |-> "mock:auto", first |-> None, givers |-> {}])
    /\ UNCHANGED <<adapter, submit, pending, token, message, userCache, run, peak>>

\* get_user_display_name: users.info, and room in the cache when it is full; a
\* name that cannot be had leaves the id and no entry.
CacheName(user) ==
    IF Cardinality(userCache) < MaxUserCache THEN {userCache \cup {user}}
    ELSE {(userCache \ out) \cup {user} : out \in kSubset(Cardinality(userCache) \div EvictShare, userCache)}
GetUserDisplayName ==
    /\ poll.phase = "naming"
    /\ userCache' \in CacheName(poll.found.user) \cup {userCache}
    /\ HandleDecision(poll.found)
    /\ UNCHANGED <<adapter, submit, pending, token, message, run, peak>>

\* The expiration tick: overdue tasks end, and a poll in progress is dropped at
\* its await; its task is in no queue then.
ExpireOverdue ==
    \E late \in SUBSET {t \in Tasks : status[t] \in {"input", "executing"}} :
        status' = [t \in Tasks |-> IF t \in late THEN "expired" ELSE status[t]]
ExpirationTick ==
    /\ run.on /\ ExpireOverdue /\ poll' = NoPoll
    /\ UNCHANGED <<adapter, submit, references, pending, token, message, userCache, run, verdict, peak>>

\* cancel_approval, whatever Slack answers, is done with the message.
CancelApproval(t) == message' \in {message, [message EXCEPT ![t] = Cancelled(@)]}

\* The shutdown: a last sweep, then drain_pending, one best-effort chat.update
\* for each reference it found.
StopScheduler ==
    /\ run.on /\ run' = [on |-> FALSE, drain |-> References]
    /\ ExpireOverdue /\ poll' = NoPoll
    /\ UNCHANGED <<adapter, submit, references, pending, token, message, userCache, verdict, peak>>

DrainPending(t) ==
    /\ t \in run.drain /\ run' = [run EXCEPT !.drain = @ \ {t}]
    /\ Forget(t)
    /\ CancelApproval(t)
    /\ UNCHANGED <<adapter, store, submit, pending, token, poll, userCache>>

----------------------------------------------------------------------------
(* Reviewers, callers and time.                                            *)

VotesCast == FoldSet(LAMBDA t, n : n + (IF message[t] = None THEN 0 ELSE Len(message[t].votes)), 0, Tasks)
\* What is done to a message nobody will poll is left out.
Watched(t) == run.on /\ references[t] # None
React(t, v) ==
    /\ Watched(t) /\ message[t] # None /\ ~message[t].deleted
    /\ ~Contains(message[t].votes, v) /\ VotesCast < MaxVotes
    /\ message' = [message EXCEPT ![t].votes = Append(@, v)]
    /\ UNCHANGED <<adapter, store, submit, references, pending, token, poll, userCache, run>>
Unreact(t, v) ==
    /\ Watched(t) /\ message[t] # None
    /\ \E k \in DOMAIN message[t].votes :
          /\ message[t].votes[k] = v
          /\ message' = [message EXCEPT ![t].votes = RemoveAt(@, k)]
    /\ UNCHANGED <<adapter, store, submit, references, pending, token, poll, userCache, run>>
DeleteMessage(t) ==
    /\ Watched(t) /\ message[t] # None /\ ~message[t].deleted
    /\ message' = [message EXCEPT ![t].deleted = TRUE, ![t].votes = <<>>]
    /\ UNCHANGED <<adapter, store, submit, references, pending, token, poll, userCache, run>>

CancelTask(t) ==
    /\ status[t] = "input"
    /\ status' = [status EXCEPT ![t] = "cancelled"]
    /\ UNCHANGED <<adapter, submit, references, pending, token, poll, message, userCache, run, verdict, peak>>
Tick ==
    /\ token' = TRUE
    /\ pending' = [k \in DOMAIN pending |-> [pending[k] EXCEPT !.due = IF @ = 0 THEN 0 ELSE @ - 1]]
    /\ UNCHANGED <<adapter, store, submit, references, poll, message, userCache, run>>

----------------------------------------------------------------------------
(* The system.                                                             *)

PollStep == TakeDue \/ PollReady \/ Reschedule \/ PollAnswers \/ MockPoll \/ GetUserDisplayName
            \/ \E e \in SlackErrors \cup {"message_not_found"} : PollFails(e)
SubmitStep(t) == SubmitReady(t) \/ PostApprovalRequest(t) \/ MockPost(t) \/ PostFails(t) \/ Enqueue(t)

Next ==
    \/ PollStep \/ ExpirationTick \/ StopScheduler \/ Tick
    \/ \E t \in Tasks : \/ Submit(t) \/ SubmitStep(t) \/ DrainPending(t)
                        \/ DeleteMessage(t) \/ CancelTask(t)
                        \/ \E v \in Votes : React(t, v) \/ Unreact(t, v)

\* The scheduler's loop runs, every call to Slack ends (api_timeout), submissions
\* go on, time passes; nobody has to react, cancel or stop anything.
Spec == Init /\ [][Next]_vars
FairSpec == Spec /\ WF_vars(PollStep) /\ WF_vars(Tick) /\ \A t \in Tasks : WF_vars(SubmitStep(t))

----------------------------------------------------------------------------
(* Properties.                                                             *)

LongestWait == Max({BaseInterval, MaxInterval, RetryAfter})
Messages == [shows : {Redact[Len(RedactFields)], None}, cancelled : BOOLEAN, deleted : BOOLEAN, votes : Seq(Votes)]

TypeOK ==
    /\ status \in [Tasks -> {"none", "input", "executing", "rejected", "expired", "cancelled"}]
    /\ submit \in [Tasks -> {"none", "limiter", "posting", "queueing", "over"}]
    /\ references \in [Tasks -> 0 .. MaxInterval \cup {None}]
    /\ pending \in Seq([task : Tasks, due : 0 .. LongestWait])
    /\ message \in [Tasks -> Messages \cup {None}]
    /\ run \in [on : BOOLEAN, drain : SUBSET Tasks]
    /\ poll = [phase |-> poll.phase, task |-> poll.task, interval |-> poll.interval, found |-> poll.found]
    /\ poll.phase \in {"idle", "limiter", "asking", "naming", "queueing"}
    /\ poll.phase # "idle" => poll.task \in Tasks /\ poll.interval \in 0 .. MaxInterval
    /\ poll.phase = "queueing" => poll.found \in 0 .. LongestWait
    /\ peak \in Nat /\ DOMAIN verdict = Tasks

\* A decision stands on a reaction that was on the message of that very task when
\* it was polled, and names somebody who gave it; it is recorded once, for a task
\* that was still waiting.
DecisionHasReviewer ==
    \A t \in Tasks : verdict[t] # None /\ adapter.kind = "slack" =>
        /\ status[t] = (IF verdict[t].decision = "approved" THEN "executing" ELSE "rejected") \/ status[t] = "expired"
        /\ verdict[t].user \in verdict[t].givers

\* The queue holds every task at most once and, while the scheduler runs, none
\* without its reference.
QueueTidy ==
    /\ \A j, k \in DOMAIN pending : pending[j].task = pending[k].task => j = k
    /\ \A k \in 1 .. Len(pending) - 1 : pending[k].due <= pending[k + 1].due
    /\ run.on => \A k \in DOMAIN pending : references[pending[k].task] # None

\* The soft limit on polled tasks is exceeded by less than the number of
\* submissions that ever ran at one time (the comment on submit).
OvershootBounded == References # {} => Cardinality(References) <= MaxConcurrent + peak - 1

\* The cache of names stays within its limit.
CacheBounded == Cardinality(userCache) <= MaxUserCache

\* What the tasks share stays in order: the queue, the soft limit, the cache.
SharedStateSound == QueueTidy /\ OvershootBounded /\ CacheBounded

\* What reviewers see: everything but what is at or under a configured field.
ArgumentsRedacted ==
    \A t \in Tasks : message[t] # None /\ ~message[t].cancelled =>
        LET shown == message[t].shows
            secret(p) == \E k \in DOMAIN RedactFields : IsPrefix(RedactFields[k], p) IN
        \A p \in DOMAIN Arguments :
            IF secret(p) THEN p \in DOMAIN shown => shown[p] = "[REDACTED]"
            ELSE p \in DOMAIN shown /\ shown[p] = Arguments[p]

\* No task starves in the queue, though all share one limiter and the polls of
\* the others are repeated forever.
QueueServed == \A t \in Tasks : Queued(t) ~> (~Queued(t) \/ ~run.on)

\* The specification (REQ-GOV-003 F-005.3): with both reactions on a message the
\* first one wins.
FirstReactionWins ==
    \A t \in Tasks : verdict[t] # None /\ adapter.kind = "slack" =>
        verdict[t].first = Deciding(verdict[t].decision)
=============================================================================
