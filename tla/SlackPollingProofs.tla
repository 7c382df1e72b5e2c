------------------------- MODULE SlackPollingProofs -------------------------
(***************************************************************************)
(* Theorems about SlackPolling, for any number of tasks, reviewers and     *)
(* reactions: a decision names somebody who gave the reaction it rests on, *)
(* reviewers see no field that is to be redacted, and the queue, the soft  *)
(* limit and the cache of names that all tasks share stay in order.        *)
(***************************************************************************)
EXTENDS SlackPolling, TLAPS, FiniteSetTheorems, SequenceTheorems, WellFoundedInduction

\* A task that was never submitted is nowhere, and neither a submission under
\* way nor the task that is being polled is in the queue.
Polling(t) == poll.phase # "idle" /\ poll.task = t
Placed ==
    \A t \in Tasks :
        /\ status[t] = "none" => submit[t] = "none"
        /\ submit[t] # "over" => ~Queued(t) /\ ~Polling(t)
        /\ Polling(t) => ~Queued(t)

\* While run goes on nothing but its own polls takes references away; once it
\* has stopped nothing is polled.
Referenced ==
    /\ run.drain # {} => ~run.on
    /\ poll.phase # "idle" => run.on /\ references[poll.task] # None
    /\ \A t \in Tasks : submit[t] = "queueing" /\ run.on => references[t] # None

QueueInv == Placed /\ Referenced /\ QueueTidy

\* Those that count against the soft limit now or will once they are posted.
Held == {t \in Tasks : references[t] # None \/ submit[t] \in {"limiter", "posting"}}
LimitInv ==
    /\ Cardinality(Held) <= MaxConcurrent + peak - 1
    /\ Cardinality(InSubmit) <= peak

CacheInv == IsFiniteSet(userCache) /\ CacheBounded

\* A polled task has its message, and a message shows the redacted arguments
\* until it says that the request was cancelled.
MessageInv ==
    \A t \in Tasks :
        /\ adapter.kind = "slack" /\ references[t] # None => message[t] \in Messages
        /\ message[t] # None /\ ~message[t].cancelled => message[t].shows = Redact[Len(RedactFields)]

DecisionInv ==
    /\ poll.phase = "naming" => poll.found.user \in poll.found.givers
    /\ DecisionHasReviewer

IndInv == TypeOK /\ QueueInv /\ LimitInv /\ CacheInv /\ MessageInv /\ DecisionInv

-----------------------------------------------------------------------------
(* Numbers and sequences *)

\* A set of numbers has a least one, which is its Min.
LEMMA MinOf ==
    ASSUME NEW S, S \subseteq Nat, S # {}
    PROVE  Min(S) \in S /\ \A j \in S : Min(S) <= j
<1>1. PICK k \in S : \A j \in S : ~(<<j, k>> \in OpToRel(<, Nat))
  BY NatLessThanWellFounded, WFMin
<1>2. ASSUME NEW j \in S PROVE k <= j
  <2>1. <<j, k>> \in Nat \X Nat /\ <<j, k>> \notin OpToRel(<, Nat)
    BY <1>1
  <2> QED BY <2>1 DEF OpToRel
<1> QED BY <1>1, <1>2 DEF Min

\* The larger of two counts.
LEMMA MaxOfTwo ==
    ASSUME NEW a \in Nat, NEW b \in Nat
    PROVE  Max({a, b}) \in Nat /\ Max({a, b}) >= a /\ Max({a, b}) >= b
<1>1. \E x \in {a, b} : \A y \in {a, b} : x >= y
  BY SMT
<1>2. Max({a, b}) \in {a, b} /\ \A y \in {a, b} : Max({a, b}) >= y
  BY <1>1 DEF Max
<1> QED BY <1>2

\* No wait is longer than the longest one.
LEMMA Waits ==
    /\ LongestWait \in Nat
    /\ BaseInterval <= LongestWait /\ MaxInterval <= LongestWait /\ RetryAfter <= LongestWait
<1> DEFINE W == {BaseInterval, MaxInterval, RetryAfter}
<1>1. W \subseteq Nat
  BY SlackAssumption
<1>2. \E x \in W : \A y \in W : x >= y
  BY <1>1, SMT
<1>3. Max(W) \in W /\ \A y \in W : Max(W) >= y
  BY <1>2 DEF Max
<1> QED BY <1>1, <1>3 DEF LongestWait

\* Both intervals a reference can hold are within the configured maximum.
LEMMA Intervals ==
    /\ FirstInterval \in 0 .. MaxInterval
    /\ \A i \in 0 .. MaxInterval : BackoffInterval(i) \in 0 .. MaxInterval
BY SlackAssumption DEF FirstInterval, BackoffInterval, Smaller

\* A share of something that is at least as large is not nothing.
LEMMA ShareOf ==
    ASSUME NEW n \in Nat, NEW d \in Nat \ {0}, n >= d
    PROVE  n \div d \in Nat /\ n \div d >= 1
OBVIOUS

\* What is left of a sequence without its kth element is one of the same elements.
LEMMA RemoveAtType ==
    ASSUME NEW S, NEW q \in Seq(S), NEW k \in DOMAIN q
    PROVE  RemoveAt(q, k) \in Seq(S)
<1>1. k \in 1 .. Len(q) /\ Len(q) \in Nat
  BY LenProperties
<1>2. SubSeq(q, 1, k - 1) \in Seq(S) /\ SubSeq(q, k + 1, Len(q)) \in Seq(S)
  BY <1>1, SubSeqProperties
<1> QED BY <1>2, ConcatProperties DEF RemoveAt

\* InsertAt, element by element.
LEMMA InsertAtIs ==
    ASSUME NEW S, NEW q \in Seq(S), NEW p \in 1 .. Len(q) + 1, NEW e \in S
    PROVE  /\ InsertAt(q, p, e) \in Seq(S)
           /\ Len(InsertAt(q, p, e)) = Len(q) + 1
           /\ \A k \in 1 .. Len(q) + 1 :
                 InsertAt(q, p, e)[k] = IF k < p THEN q[k] ELSE IF k = p THEN e ELSE q[k - 1]
<1> DEFINE front == SubSeq(q, 1, p - 1)
           back == SubSeq(q, p, Len(q))
<1>1. Len(q) \in Nat /\ p \in Nat
  BY LenProperties
<1>2. /\ front \in Seq(S) /\ Len(front) = p - 1
      /\ \A k \in 1 .. p - 1 : front[k] = q[k]
  BY <1>1, SubSeqProperties
<1>3. /\ back \in Seq(S) /\ Len(back) = Len(q) - p + 1
      /\ \A k \in 1 .. Len(q) - p + 1 : back[k] = q[p + k - 1]
  BY <1>1, SubSeqProperties
<1>4. <<e>> \in Seq(S) /\ Len(<<e>>) = 1 /\ <<e>>[1] = e
  OBVIOUS
<1> DEFINE fe == front \o <<e>>
<1> HIDE DEF front, back
<1>5. /\ fe \in Seq(S) /\ Len(fe) = p
      /\ \A k \in 1 .. p : fe[k] = IF k <= p - 1 THEN front[k] ELSE <<e>>[k - (p - 1)]
  BY <1>1, <1>2, <1>4, ConcatProperties
<1> HIDE DEF fe
<1> DEFINE all == fe \o back
<1>6. /\ all \in Seq(S) /\ Len(all) = Len(fe) + Len(back)
      /\ \A k \in 1 .. Len(fe) + Len(back) :
            all[k] = IF k <= Len(fe) THEN fe[k] ELSE back[k - Len(fe)]
  BY <1>3, <1>5, ConcatProperties
<1>7. InsertAt(q, p, e) = all
  BY DEF InsertAt, fe, front, back
<1> HIDE DEF all
<1>8. /\ Len(all) = Len(q) + 1
      /\ \A k \in 1 .. Len(q) + 1 : all[k] = IF k <= p THEN fe[k] ELSE back[k - p]
  BY <1>1, <1>3, <1>5, <1>6
<1>9. ASSUME NEW k \in 1 .. Len(q) + 1
      PROVE  all[k] = IF k < p THEN q[k] ELSE IF k = p THEN e ELSE q[k - 1]
  <2>1. ASSUME k < p PROVE all[k] = q[k]
    <3>1. k \in 1 .. p - 1 /\ k \in 1 .. p /\ k <= p - 1 /\ k <= p
      BY <1>1, <2>1
    <3>2. all[k] = fe[k] /\ fe[k] = front[k]
      BY <1>5, <1>8, <3>1
    <3> QED BY <1>2, <3>1, <3>2
  <2>2. k = p => all[k] = e
    <3>1. p \in 1 .. p /\ ~(p <= p - 1) /\ p - (p - 1) = 1
      BY <1>1
    <3>2. fe[p] = <<e>>[1]
      BY <1>5, <3>1
    <3> QED BY <1>1, <1>4, <1>8, <3>2
  <2>3. ASSUME k > p PROVE all[k] = q[k - 1]
    <3>1. all[k] = back[k - p] /\ k - p \in 1 .. Len(q) - p + 1
      BY <1>1, <1>8, <2>3
    <3>2. back[k - p] = q[p + (k - p) - 1]
      BY <1>3, <3>1
    <3> QED BY <1>1, <2>3, <3>1, <3>2
  <2> QED BY <1>1, <2>1, <2>2, <2>3
<1> QED BY <1>6, <1>7, <1>8, <1>9

-----------------------------------------------------------------------------
(* Redaction *)

\* Redact does what its definition says: functions that follow it as far as any
\* given field exist, so one that follows it to the end does.
LEMMA RedactDefined ==
    Redact = [n \in 0 .. Len(RedactFields) |->
                 IF n = 0 THEN Arguments ELSE RedactPath(Redact[n - 1], RedactFields[n])]
<1> DEFINE N == Len(RedactFields)
           Follows(f, m) == f = [n \in 0 .. m |-> IF n = 0 THEN Arguments ELSE RedactPath(f[n - 1], RedactFields[n])]
           Bad == {m \in Nat : ~ \E f : Follows(f, m)}
<1>1. N \in Nat
  BY FieldsAssumption, LenProperties
<1>2. ASSUME Bad # {} PROVE FALSE
  <2> HIDE DEF Bad
  <2>1. PICK m \in Bad : \A j \in Bad : m <= j
    <3>1. Bad \subseteq Nat
      BY DEF Bad
    <3> QED BY <1>2, <3>1, MinOf
  <2>2. m \in Nat /\ ~ \E f : Follows(f, m)
    BY <2>1 DEF Bad
  <2>3. ASSUME m = 0 PROVE FALSE
    <3>1. Follows([n \in 0 .. 0 |-> Arguments], 0)
      OBVIOUS
    <3> QED BY <2>2, <2>3, <3>1
  <2>4. m # 0 => m - 1 \in Nat /\ m - 1 \notin Bad
    BY <2>1, <2>2
  <2>5. PICK f : Follows(f, m - 1)
    BY <2>3, <2>4 DEF Bad
  <2> DEFINE g == [n \in 0 .. m |-> IF n = m THEN RedactPath(f[m - 1], RedactFields[m]) ELSE f[n]]
  <2>6. \A n \in 0 .. m - 1 : f[n] = IF n = 0 THEN Arguments ELSE RedactPath(f[n - 1], RedactFields[n])
    BY <2>5
  <2>7. \A n \in 0 .. m - 1 : g[n] = f[n]
    BY <2>2
  <2>8. g[m] = RedactPath(g[m - 1], RedactFields[m]) /\ m # 0
    BY <2>2, <2>3, <2>7
  <2>9. ASSUME NEW n \in 0 .. m
        PROVE  g[n] = IF n = 0 THEN Arguments ELSE RedactPath(g[n - 1], RedactFields[n])
    <3>1. CASE n = m
      BY <2>8, <3>1
    <3>2. CASE n = 0
      BY <2>2, <2>6, <2>7, <2>8, <3>2
    <3>3. CASE n # m /\ n # 0
      <4>1. n \in 0 .. m - 1 /\ n - 1 \in 0 .. m - 1
        BY <2>2, <3>3
      <4> QED BY <2>6, <2>7, <3>3, <4>1
    <3> QED BY <3>1, <3>2, <3>3
  <2>10. g = [n \in 0 .. m |-> g[n]]
    OBVIOUS
  <2> HIDE DEF g
  <2>11. Follows(g, m)
    BY <2>9, <2>10
  <2> QED BY <2>2, <2>11
<1>3. \E f : Follows(f, N)
  BY <1>1, <1>2
<1> QED BY <1>3 DEF Redact

\* The fields up to the nth, and what is at or under one of them.
Secret(n, p) == \E k \in 1 .. n : IsPrefix(RedactFields[k], p)
RedactedTo(n) ==
    \A p \in DOMAIN Arguments :
        IF Secret(n, p) THEN p \in DOMAIN Redact[n] => Redact[n][p] = "[REDACTED]"
        ELSE p \in DOMAIN Redact[n] /\ Redact[n][p] = Arguments[p]

\* One more field: what is under it gives way, whatever was redacted before stays
\* so, and the rest is not touched.
LEMMA RedactOne ==
    ASSUME NEW n \in 1 .. Len(RedactFields), RedactedTo(n - 1)
    PROVE  RedactedTo(n)
<1> DEFINE doc == Redact[n - 1]
           path == RedactFields[n]
           under == {p \in DOMAIN doc : IsPrefix(path, p)}
<1>1. Len(RedactFields) \in Nat /\ n \in 1 .. Len(RedactFields) /\ n \in Nat
  BY FieldsAssumption, LenProperties
<1>2. path \in Seq(STRING)
  BY <1>1, FieldsAssumption, ElementOfSeq
<1>3. IsPrefix(path, path)
  BY <1>2, LenProperties DEF IsPrefix
<1>4. Redact[n] = RedactPath(doc, path)
  BY <1>1, RedactDefined
<1>5. \A p : Secret(n, p) <=> Secret(n - 1, p) \/ IsPrefix(path, p)
  BY <1>1 DEF Secret
<1> HIDE DEF doc, path
<1> SUFFICES ASSUME NEW p \in DOMAIN Arguments
             PROVE  IF Secret(n, p) THEN p \in DOMAIN Redact[n] => Redact[n][p] = "[REDACTED]"
                    ELSE p \in DOMAIN Redact[n] /\ Redact[n][p] = Arguments[p]
  BY DEF RedactedTo
<1>6. IF Secret(n - 1, p) THEN p \in DOMAIN doc => doc[p] = "[REDACTED]"
      ELSE p \in DOMAIN doc /\ doc[p] = Arguments[p]
  BY DEF RedactedTo, doc
<1>7. CASE under = {}
  <2>1. Redact[n] = doc
    BY <1>4, <1>7 DEF RedactPath
  <2> QED BY <1>5, <1>6, <1>7, <2>1
<1>8. CASE under # {}
  <2>1. Redact[n] = [q \in (DOMAIN doc \ under) \cup {path} |-> IF q = path THEN "[REDACTED]" ELSE doc[q]]
    BY <1>4, <1>8 DEF RedactPath
  <2> QED BY <1>3, <1>5, <1>6, <2>1
<1> QED BY <1>7, <1>8

\* redact_fields hides all that is configured and nothing else.
LEMMA RedactAll == RedactedTo(Len(RedactFields))
<1> DEFINE N == Len(RedactFields)
           Bad == {n \in Nat : n <= N /\ ~RedactedTo(n)}
<1>1. N \in Nat
  BY FieldsAssumption, LenProperties
<1>2. ASSUME Bad # {} PROVE FALSE
  <2> HIDE DEF Bad
  <2>1. PICK n \in Bad : \A j \in Bad : n <= j
    <3>1. Bad \subseteq Nat
      BY DEF Bad
    <3> QED BY <1>2, <3>1, MinOf
  <2>2. n \in 0 .. N /\ ~RedactedTo(n)
    BY <1>1, <2>1 DEF Bad
  <2>3. ASSUME n = 0 PROVE FALSE
    <3>1. Redact[0] = Arguments
      BY <1>1, RedactDefined
    <3>2. \A p : ~Secret(0, p)
      BY DEF Secret
    <3>3. RedactedTo(0)
      BY <3>1, <3>2 DEF RedactedTo
    <3> QED BY <2>2, <2>3, <3>3
  <2>4. n \in 1 .. N /\ n - 1 \in Nat /\ n - 1 <= N /\ n - 1 \notin Bad
    BY <1>1, <2>1, <2>2, <2>3
  <2>5. RedactedTo(n - 1)
    BY <2>4 DEF Bad
  <2> QED BY <2>2, <2>4, <2>5, RedactOne
<1> QED BY <1>1, <1>2

-----------------------------------------------------------------------------
(* The queue and the reactions *)

Entries == [task : Tasks, due : 0 .. LongestWait]
Unique == \A j, k \in DOMAIN pending : pending[j].task = pending[k].task => j = k
Sorted == \A k \in 1 .. Len(pending) - 1 : pending[k].due <= pending[k + 1].due

\* What an entry holds.
LEMMA EntryType ==
    ASSUME pending \in Seq(Entries), NEW k \in DOMAIN pending
    PROVE  pending[k] \in Entries /\ pending[k].task \in Tasks /\ pending[k].due \in Nat
<1>1. pending[k] \in Entries
  BY ElementOfSeq, LenProperties
<1> QED BY <1>1, Waits DEF Entries

\* A task that is not in the queue gets its place: behind all that are due no
\* later, before all that are due later.
LEMMA InsertKeeps ==
    ASSUME pending \in Seq(Entries), Unique, Sorted,
           NEW t \in Tasks, ~Queued(t), NEW due \in 0 .. LongestWait, pending' = Insert(t, due)
    PROVE  /\ pending' \in Seq(Entries) /\ Unique' /\ Sorted'
           /\ \A x \in Tasks : Queued(x)' <=> Queued(x) \/ x = t
<1> DEFINE e == [task |-> t, due |-> due]
           later == {k \in DOMAIN pending : pending[k].due > due}
           at == Min(later \cup {Len(pending) + 1})
<1>1. DOMAIN pending = 1 .. Len(pending) /\ Len(pending) \in Nat
  BY LenProperties
<1>2. \A k \in DOMAIN pending : pending[k] \in Entries /\ pending[k].due \in Nat
  BY EntryType
<1>3. e \in Entries /\ due \in Nat
  BY Waits DEF Entries
<1>4. at \in later \cup {Len(pending) + 1} /\ \A k \in later \cup {Len(pending) + 1} : at <= k
  <2>1. later \cup {Len(pending) + 1} \subseteq Nat /\ later \cup {Len(pending) + 1} # {}
    BY <1>1
  <2> QED BY <2>1, MinOf
<1>5. at \in 1 .. Len(pending) + 1
  BY <1>1, <1>4
<1>6. pending' = InsertAt(pending, at, e)
  BY DEF Insert
<1> HIDE DEF at, e
<1>7. /\ pending' \in Seq(Entries) /\ Len(pending') = Len(pending) + 1
      /\ \A k \in 1 .. Len(pending) + 1 :
            pending'[k] = IF k < at THEN pending[k] ELSE IF k = at THEN e ELSE pending[k - 1]
  <2> DEFINE q == InsertAt(pending, at, e)
  <2>1. /\ q \in Seq(Entries) /\ Len(q) = Len(pending) + 1
        /\ \A k \in 1 .. Len(pending) + 1 :
              q[k] = IF k < at THEN pending[k] ELSE IF k = at THEN e ELSE pending[k - 1]
    BY <1>3, <1>5, InsertAtIs
  <2> HIDE DEF q
  <2> QED BY <1>6, <2>1 DEF q
<1>8. DOMAIN pending' = 1 .. Len(pending) + 1
  BY <1>7, LenProperties
<1>9. /\ \A k \in 1 .. at - 1 : k \in DOMAIN pending /\ pending[k].due <= due
      /\ at \in DOMAIN pending => pending[at].due > due
  <2>1. \A k \in later : at <= k
    BY <1>4
  <2>2. at # Len(pending) + 1 => at \in later
    BY <1>4
  <2> QED BY <1>1, <1>2, <1>3, <1>5, <2>1, <2>2
<1>10. \A k \in DOMAIN pending : pending[k].task # t
  BY DEF Queued
<1>11. e.task = t /\ e.due = due
  BY DEF e
<1>12. \A x \in Tasks : Queued(x)' <=> Queued(x) \/ x = t
  <2> SUFFICES ASSUME NEW x \in Tasks PROVE Queued(x)' <=> Queued(x) \/ x = t
    OBVIOUS
  <2>1. ASSUME Queued(x)' PROVE Queued(x) \/ x = t
    BY <1>1, <1>5, <1>7, <1>8, <1>11, <2>1 DEF Queued
  <2>2. ASSUME NEW k \in DOMAIN pending, pending[k].task = x PROVE Queued(x)'
    <3>1. CASE k < at
      <4>1. k \in DOMAIN pending' /\ pending'[k].task = x
        BY <1>1, <1>7, <1>8, <2>2, <3>1
      <4> QED BY <4>1 DEF Queued
    <3>2. CASE ~(k < at)
      <4>1. k + 1 \in DOMAIN pending' /\ pending'[k + 1] = pending[(k + 1) - 1] /\ (k + 1) - 1 = k
        BY <1>1, <1>5, <1>7, <1>8, <3>2
      <4> QED BY <2>2, <4>1 DEF Queued
    <3> QED BY <3>1, <3>2
  <2>3. ASSUME x = t PROVE Queued(x)'
    BY <1>5, <1>7, <1>8, <1>11, <2>3 DEF Queued
  <2> QED BY <2>1, <2>2, <2>3 DEF Queued
<1>13. Unique'
  <2> DEFINE old(k) == IF k < at THEN k ELSE k - 1
  <2>1. \A k \in DOMAIN pending' : k # at => old(k) \in DOMAIN pending /\ pending'[k] = pending[old(k)]
    BY <1>1, <1>5, <1>7, <1>8
  <2>2. \A j, k \in DOMAIN pending' : j # at /\ k # at /\ old(j) = old(k) => j = k
    BY <1>1, <1>5, <1>8
  <2> HIDE DEF old
  <2>3. pending'[at] = e /\ at \in DOMAIN pending'
    BY <1>5, <1>7, <1>8
  <2>4. ASSUME NEW j \in DOMAIN pending', NEW k \in DOMAIN pending', pending'[j].task = pending'[k].task
        PROVE  j = k
    <3>1. CASE j # at /\ k # at
      BY <2>1, <2>2, <2>4, <3>1 DEF Unique
    <3>2. CASE j = at \/ k = at
      BY <1>10, <1>11, <2>1, <2>3, <2>4, <3>2
    <3> QED BY <3>1, <3>2
  <2> QED BY <2>4 DEF Unique
<1>14. Sorted'
  <2> SUFFICES ASSUME NEW k \in 1 .. Len(pending') - 1 PROVE pending'[k].due <= pending'[k + 1].due
    BY DEF Sorted
  <2>1. k \in 1 .. Len(pending) /\ k \in 1 .. Len(pending) + 1 /\ k + 1 \in 1 .. Len(pending) + 1
    BY <1>1, <1>7
  <2>2. CASE k + 1 < at
    <3>1. pending'[k] = pending[k] /\ pending'[k + 1] = pending[k + 1] /\ k \in 1 .. Len(pending) - 1
      BY <1>1, <1>5, <1>7, <2>1, <2>2
    <3> QED BY <3>1 DEF Sorted
  <2>3. CASE k + 1 = at
    <3>1. pending'[k] = pending[k] /\ pending'[k + 1] = e /\ k \in 1 .. at - 1
      BY <1>1, <1>5, <1>7, <2>1, <2>3
    <3> QED BY <1>9, <1>11, <3>1
  <2>4. CASE k = at
    <3>1. pending'[k] = e /\ pending'[k + 1] = pending[(k + 1) - 1] /\ (k + 1) - 1 = at /\ at \in DOMAIN pending
      BY <1>1, <1>5, <1>7, <2>1, <2>4
    <3> QED BY <1>2, <1>3, <1>9, <1>11, <3>1
  <2>5. CASE k > at
    <3>1. /\ pending'[k] = pending[k - 1] /\ pending'[k + 1] = pending[(k + 1) - 1]
          /\ (k + 1) - 1 = (k - 1) + 1 /\ k - 1 \in 1 .. Len(pending) - 1
      BY <1>1, <1>5, <1>7, <2>1, <2>5
    <3> QED BY <3>1 DEF Sorted
  <2> QED BY <1>5, <2>1, <2>2, <2>3, <2>4, <2>5
<1> QED BY <1>7, <1>12, <1>13, <1>14

\* What check_reactions finds names somebody among those who gave the reaction.
LEMMA FoundIsGiven ==
    ASSUME NEW votes \in Seq(Votes), CheckReactions(votes) # None
    PROVE  LET found == Seen(CheckReactions(votes), votes) IN found.user \in found.givers
<1> DEFINE found(d) == [decision |-> d, user |-> votes[Min(By(votes, Deciding(d)))].user]
<1>1. ASSUME NEW d, By(votes, Deciding(d)) # {}
      PROVE  LET f == Seen(found(d), votes) IN f.user \in f.givers
  <2>1. By(votes, Deciding(d)) \subseteq Nat
    BY LenProperties DEF By
  <2>2. Min(By(votes, Deciding(d))) \in By(votes, Deciding(d))
    BY <1>1, <2>1, MinOf
  <2> QED BY <2>2 DEF Seen
<1>2. CASE By(votes, ApproveReaction) # {}
  <2>1. CheckReactions(votes) = found("approved") /\ Deciding("approved") = ApproveReaction
    BY <1>2 DEF CheckReactions, Deciding
  <2> QED BY <1>1, <1>2, <2>1
<1>3. CASE By(votes, ApproveReaction) = {}
  <2>1. /\ By(votes, RejectReaction) # {}
        /\ CheckReactions(votes) = found("rejected") /\ Deciding("rejected") = RejectReaction
    BY <1>3 DEF CheckReactions, Deciding
  <2> QED BY <1>1, <2>1
<1> QED BY <1>2, <1>3

\* The sets that are counted are finite.
LEMMA HeldFinite ==
    /\ IsFiniteSet(Held) /\ Cardinality(Held) \in Nat
    /\ IsFiniteSet(InSubmit) /\ Cardinality(InSubmit) \in Nat
    /\ IsFiniteSet(References) /\ Cardinality(References) \in Nat
BY SlackAssumption, FS_Subset, FS_CardinalityType DEF Held, InSubmit, References

-----------------------------------------------------------------------------
(* Frames: what a step that leaves most alone keeps *)

\* Nobody is submitted anew, and no reference appears that was not on its way.
LEMMA LimitFrame ==
    ASSUME LimitInv, TypeOK, TypeOK', Held' \subseteq Held, InSubmit' \subseteq InSubmit, peak' = peak
    PROVE  LimitInv'
<1>1. Cardinality(Held') <= Cardinality(Held) /\ Cardinality(InSubmit') <= Cardinality(InSubmit)
  BY HeldFinite, FS_Subset
<1>2. Cardinality(Held') \in Nat /\ Cardinality(InSubmit') \in Nat
  BY HeldFinite, FS_Subset, FS_CardinalityType
<1>3. /\ MaxConcurrent \in Nat /\ peak \in Nat
      /\ Cardinality(Held) \in Nat /\ Cardinality(InSubmit) \in Nat
  BY HeldFinite, FS_CardinalityType, SlackAssumption DEF TypeOK
<1> QED BY <1>1, <1>2, <1>3 DEF LimitInv

\* The same names in the cache.
LEMMA CacheFrame ==
    ASSUME CacheInv, userCache' = userCache
    PROVE  CacheInv'
BY DEF CacheInv, CacheBounded

\* No new message, no new reference.
LEMMA MessageFrame ==
    ASSUME MessageInv, UNCHANGED <<adapter, message>>,
           \A t \in Tasks : references'[t] # None => references[t] # None
    PROVE  MessageInv'
BY DEF MessageInv, Messages

\* No decision is recorded, and no task with one leaves its status but by
\* expiring.
LEMMA DecisionFrame ==
    ASSUME DecisionInv, UNCHANGED <<adapter, verdict>>,
           \A t \in Tasks : status'[t] = status[t] \/ status'[t] = "expired",
           poll'.phase = "naming" => UNCHANGED poll
    PROVE  DecisionInv'
BY DEF DecisionInv, DecisionHasReviewer

-----------------------------------------------------------------------------
(* The inductive invariant *)

\* The scheduler starts with nothing to poll.
LEMMA InitInd == Init => IndInv
<1> SUFFICES ASSUME Init PROVE IndInv
  OBVIOUS
<1>1. TypeOK
  BY Waits DEF Init, TypeOK, NoPoll
<1>2. QueueInv
  BY DEF Init, QueueInv, Placed, Polling, Queued, Referenced, QueueTidy, NoPoll
<1>3. Held = {} /\ InSubmit = {} /\ Cardinality({}) = 0
  BY FS_EmptySet DEF Init, Held, InSubmit
<1>4. LimitInv
  BY <1>3, SlackAssumption DEF Init, LimitInv
<1>5. CacheInv
  BY <1>3, FS_EmptySet, SlackAssumption DEF Init, CacheInv, CacheBounded
<1>6. MessageInv /\ DecisionInv
  BY DEF Init, MessageInv, DecisionInv, DecisionHasReviewer, NoPoll
<1> QED BY <1>1, <1>2, <1>4, <1>5, <1>6 DEF IndInv

\* A submission is let in while the limit is not reached; those under way
\* together are what may exceed it.
LEMMA SubmitKeeps ==
    ASSUME IndInv, NEW t \in Tasks, Submit(t)
    PROVE  IndInv'
<1>1. TypeOK /\ LimitInv /\ status[t] = "none" /\ submit[t] = "none"
  BY DEF IndInv, QueueInv, Placed, Submit
<1>2. peak \in Nat /\ Cardinality(InSubmit') \in Nat /\ peak' = Max({peak, Cardinality(InSubmit')})
  <2>1. IsFiniteSet(InSubmit')
    BY SlackAssumption, FS_Subset DEF InSubmit
  <2> QED BY <1>1, <2>1, FS_CardinalityType DEF Submit, TypeOK
<1>3. peak' \in Nat /\ peak' >= peak /\ peak' >= Cardinality(InSubmit')
  BY <1>2, MaxOfTwo
<1>4. TypeOK'
  BY <1>1, <1>3 DEF TypeOK, Submit, Fails
<1>5. QueueInv'
  BY <1>1 DEF IndInv, QueueInv, Placed, Polling, Queued, Referenced, QueueTidy, Submit, Fails, TypeOK
<1>6. LimitInv'
  <2>1. CASE Cardinality(References) >= MaxConcurrent
    <3>1. Held' = Held
      BY <1>1, <2>1 DEF Held, Submit, Fails, TypeOK
    <3> QED BY <1>1, <1>2, <1>3, <3>1, HeldFinite, SlackAssumption DEF LimitInv
  <2>2. CASE ~(Cardinality(References) >= MaxConcurrent)
    <3>1. Held' \subseteq References \cup InSubmit'
      BY DEF Held, Submit, References, InSubmit
    <3>2. IsFiniteSet(InSubmit') /\ IsFiniteSet(References \cup InSubmit')
      BY SlackAssumption, FS_Subset DEF References, InSubmit
    <3>3. Cardinality(Held') \in Nat /\ Cardinality(Held') <= Cardinality(References \cup InSubmit')
      BY <3>1, <3>2, FS_Subset, FS_CardinalityType
    <3>4. Cardinality(References \cup InSubmit')
            = Cardinality(References) + Cardinality(InSubmit') - Cardinality(References \cap InSubmit')
      BY <3>2, HeldFinite, FS_Union
    <3>5. Cardinality(References \cap InSubmit') \in Nat
      BY <3>2, FS_Subset, FS_CardinalityType
    <3> QED BY <1>2, <1>3, <2>2, <3>3, <3>4, <3>5, HeldFinite, SlackAssumption DEF LimitInv
  <2> QED BY <2>1, <2>2
<1>7. CacheInv' /\ MessageInv'
  BY CacheFrame, MessageFrame DEF IndInv, Submit
<1>8. DecisionInv'
  BY <1>1 DEF IndInv, DecisionInv, DecisionHasReviewer, Submit, TypeOK
<1> QED BY <1>4, <1>5, <1>6, <1>7, <1>8 DEF IndInv

\* The limiter lets a submission or a poll go on.
LEMMA ReadyKeeps ==
    ASSUME IndInv, PollReady \/ \E t \in Tasks : SubmitReady(t)
    PROVE  IndInv'
<1>1. CASE PollReady
  <2>1. TypeOK /\ TypeOK'
    BY <1>1 DEF IndInv, TypeOK, PollReady, store
  <2>2. QueueInv'
    BY <1>1, <2>1 DEF IndInv, QueueInv, Placed, Polling, Queued, Referenced, QueueTidy, PollReady, store, TypeOK
  <2>3. Held' = Held /\ InSubmit' = InSubmit /\ peak' = peak
    BY <1>1 DEF PollReady, store, Held, InSubmit
  <2>4. LimitInv' /\ CacheInv' /\ MessageInv' /\ DecisionInv'
    BY <1>1, <2>1, <2>3, LimitFrame, CacheFrame, MessageFrame, DecisionFrame DEF IndInv, PollReady, store, TypeOK
  <2> QED BY <2>1, <2>2, <2>4 DEF IndInv
<1>2. ASSUME NEW t \in Tasks, SubmitReady(t) PROVE IndInv'
  <2>1. TypeOK /\ TypeOK'
    BY <1>2 DEF IndInv, TypeOK, SubmitReady, store
  <2>2. QueueInv'
    BY <1>2, <2>1 DEF IndInv, QueueInv, Placed, Polling, Queued, Referenced, QueueTidy, SubmitReady, store, TypeOK
  <2>3. Held' \subseteq Held /\ InSubmit' \subseteq InSubmit /\ peak' = peak
    BY <1>2, <2>1 DEF SubmitReady, store, Held, InSubmit, TypeOK
  <2>4. LimitInv' /\ CacheInv' /\ MessageInv' /\ DecisionInv'
    BY <1>2, <2>1, <2>3, LimitFrame, CacheFrame, MessageFrame, DecisionFrame DEF IndInv, SubmitReady, store
  <2> QED BY <2>1, <2>2, <2>4 DEF IndInv
<1> QED BY <1>1, <1>2

\* A message as it is posted.
LEMMA BlocksType ==
    ApprovalBlocks \in Messages /\ ApprovalBlocks.shows = Redact[Len(RedactFields)] /\ ~ApprovalBlocks.cancelled
BY EmptySeq DEF ApprovalBlocks, Messages

\* Posting: the reference is made once the message is there, and a message whose
\* answer was lost stays without one.
LEMMA PostKeeps ==
    ASSUME IndInv, NEW t \in Tasks, PostFails(t) \/ PostApprovalRequest(t) \/ MockPost(t)
    PROVE  IndInv'
<1>1. CASE PostFails(t)
  <2>1. message' = [message EXCEPT ![t] = ApprovalBlocks] \/ message' = message
    BY <1>1 DEF PostFails
  <2>2. TypeOK /\ TypeOK'
    <3>1. message' \in [Tasks -> Messages \cup {None}]
      BY <2>1, BlocksType DEF IndInv, TypeOK
    <3> QED BY <1>1, <3>1 DEF IndInv, TypeOK, PostFails, Fails, store
  <2>3. QueueInv'
    BY <1>1, <2>2 DEF IndInv, QueueInv, Placed, Polling, Queued, Referenced, QueueTidy, PostFails, Fails, store, TypeOK
  <2>4. Held' \subseteq Held /\ InSubmit' \subseteq InSubmit /\ peak' = peak
    BY <1>1, <2>2 DEF PostFails, Fails, store, Held, InSubmit, TypeOK
  <2>5. MessageInv'
    BY <1>1, <2>1, <2>2, BlocksType DEF IndInv, MessageInv, PostFails, TypeOK
  <2>6. LimitInv' /\ CacheInv' /\ DecisionInv'
    BY <1>1, <2>2, <2>4, LimitFrame, CacheFrame, DecisionFrame DEF IndInv, PostFails, store
  <2> QED BY <2>2, <2>3, <2>5, <2>6 DEF IndInv
<1>2. CASE PostApprovalRequest(t) \/ MockPost(t)
  <2>1. /\ Posted(t)
        /\ \/ adapter.kind = "slack" /\ message' = [message EXCEPT ![t] = ApprovalBlocks]
           \/ adapter.kind = "mock" /\ message' = message
    BY <1>2 DEF PostApprovalRequest, MockPost
  <2>2. TypeOK /\ TypeOK'
    <3>1. message' \in [Tasks -> Messages \cup {None}]
      BY <2>1, BlocksType DEF IndInv, TypeOK
    <3>2. references' \in [Tasks -> 0 .. MaxInterval \cup {None}]
      BY <2>1, Intervals DEF IndInv, TypeOK, Posted
    <3> QED BY <2>1, <3>1, <3>2 DEF IndInv, TypeOK, Posted, store
  <2>3. FirstInterval # None
    BY Intervals, SlackAssumption
  <2>4. QueueInv'
    BY <2>1, <2>2, <2>3 DEF IndInv, QueueInv, Placed, Polling, Queued, Referenced, QueueTidy, Posted, store, TypeOK
  <2>5. Held' \subseteq Held /\ InSubmit' \subseteq InSubmit /\ peak' = peak
    BY <2>1, <2>2 DEF Posted, store, Held, InSubmit, TypeOK
  <2>6. MessageInv'
    <3>1. CASE adapter.kind = "slack" /\ message' = [message EXCEPT ![t] = ApprovalBlocks]
      BY <2>1, <2>2, <3>1, BlocksType DEF IndInv, MessageInv, Posted, TypeOK
    <3>2. CASE adapter.kind = "mock" /\ message' = message
      BY <2>1, <2>2, <3>2 DEF IndInv, MessageInv, Posted, TypeOK
    <3> QED BY <2>1, <3>1, <3>2
  <2>7. LimitInv' /\ CacheInv' /\ DecisionInv'
    BY <2>1, <2>2, <2>5, LimitFrame, CacheFrame, DecisionFrame DEF IndInv, Posted, store
  <2> QED BY <2>2, <2>4, <2>6, <2>7 DEF IndInv
<1> QED BY <1>1, <1>2

\* The parts of QueueTidy.
LEMMA TidyParts ==
    QueueTidy <=> Unique /\ Sorted /\ (run.on => \A k \in DOMAIN pending : references[pending[k].task] # None)
BY DEF QueueTidy, Unique, Sorted

\* A task enters the queue: one that was posted, or one that was polled.
LEMMA QueueGrows ==
    ASSUME IndInv, NEW t \in Tasks, NEW due \in 0 .. LongestWait, pending' = Insert(t, due),
           ~Queued(t), run.on => references[t] # None, UNCHANGED <<references, run>>
    PROVE  /\ pending' \in Seq(Entries) /\ QueueTidy'
           /\ \A x \in Tasks : Queued(x)' <=> Queued(x) \/ x = t
<1>1. pending \in Seq(Entries) /\ Unique /\ Sorted
  BY TidyParts DEF IndInv, TypeOK, Entries, QueueInv
<1>2. /\ pending' \in Seq(Entries) /\ Unique' /\ Sorted'
      /\ \A x \in Tasks : Queued(x)' <=> Queued(x) \/ x = t
  BY <1>1, InsertKeeps
<1>3. ASSUME run.on', NEW k \in DOMAIN pending' PROVE references'[pending'[k].task] # None
  <2>1. pending'[k] \in Entries
    BY <1>2, <1>3, ElementOfSeq, LenProperties
  <2>2. PICK x \in Tasks : x = pending'[k].task
    BY <2>1 DEF Entries
  <2>3. Queued(x)'
    BY <1>3, <2>2 DEF Queued
  <2>4. CASE x = t
    BY <1>3, <2>2, <2>4
  <2>5. CASE Queued(x)
    <3>1. PICK j \in DOMAIN pending : pending[j].task = x
      BY <2>5 DEF Queued
    <3> QED BY <1>3, <2>2, <3>1 DEF IndInv, QueueInv, QueueTidy
  <2> QED BY <1>2, <2>3, <2>4, <2>5
<1>4. QueueTidy'
  BY <1>2, <1>3 DEF QueueTidy, Unique, Sorted
<1> QED BY <1>2, <1>4

LEMMA EnqueueKeeps ==
    ASSUME IndInv, NEW t \in Tasks, Enqueue(t)
    PROVE  IndInv'
<1>1. TypeOK /\ submit[t] = "queueing" /\ ~Queued(t) /\ ~Polling(t) /\ (run.on => references[t] # None)
  BY DEF IndInv, QueueInv, Placed, Referenced, Enqueue
<1>2. BaseInterval \in 0 .. LongestWait
  BY Waits, SlackAssumption
<1>3. /\ pending' \in Seq(Entries) /\ QueueTidy'
      /\ \A x \in Tasks : Queued(x)' <=> Queued(x) \/ x = t
  BY <1>1, <1>2, QueueGrows DEF Enqueue
<1>4. TypeOK'
  BY <1>1, <1>3 DEF TypeOK, Enqueue, store, Entries
<1>5. Placed'
  BY <1>1, <1>3 DEF IndInv, QueueInv, Placed, Polling, Enqueue, store, TypeOK
<1>6. Referenced'
  BY <1>1 DEF IndInv, QueueInv, Referenced, Enqueue, TypeOK
<1>7. Held' \subseteq Held /\ InSubmit' \subseteq InSubmit /\ peak' = peak
  BY <1>1 DEF Enqueue, store, Held, InSubmit, TypeOK
<1>8. LimitInv' /\ CacheInv' /\ MessageInv' /\ DecisionInv'
  BY <1>1, <1>4, <1>7, LimitFrame, CacheFrame, MessageFrame, DecisionFrame DEF IndInv, Enqueue, store
<1> QED BY <1>3, <1>4, <1>5, <1>6, <1>8 DEF IndInv, QueueInv

LEMMA RescheduleKeeps ==
    ASSUME IndInv, Reschedule
    PROVE  IndInv'
<1> DEFINE t == poll.task
<1>1. /\ TypeOK /\ t \in Tasks /\ poll.found \in 0 .. LongestWait
      /\ ~Queued(t) /\ submit[t] = "over" /\ run.on /\ references[t] # None
  BY DEF IndInv, QueueInv, Placed, Polling, Referenced, Reschedule, TypeOK
<1>2. /\ pending' \in Seq(Entries) /\ QueueTidy'
      /\ \A x \in Tasks : Queued(x)' <=> Queued(x) \/ x = t
  BY <1>1, QueueGrows DEF Reschedule
<1>3. TypeOK'
  BY <1>1, <1>2 DEF TypeOK, Reschedule, store, Entries, NoPoll
<1>4. Placed'
  BY <1>1, <1>2 DEF IndInv, QueueInv, Placed, Polling, Reschedule, store, TypeOK, NoPoll
<1>5. Referenced'
  BY <1>1 DEF IndInv, QueueInv, Referenced, Reschedule, NoPoll
<1>6. Held' = Held /\ InSubmit' = InSubmit /\ peak' = peak
  BY DEF Reschedule, store, Held, InSubmit
<1>7. LimitInv' /\ CacheInv' /\ MessageInv' /\ DecisionInv'
  BY <1>1, <1>3, <1>6, LimitFrame, CacheFrame, MessageFrame, DecisionFrame
  DEF IndInv, Reschedule, store, NoPoll
<1> QED BY <1>2, <1>3, <1>4, <1>5, <1>7 DEF IndInv, QueueInv

\* The first task leaves the queue and is in it no more.
LEMMA QueueShrinks ==
    ASSUME pending \in Seq(Entries), Unique, Sorted, pending # <<>>, pending' = Tail(pending)
    PROVE  /\ Head(pending).task \in Tasks /\ Queued(Head(pending).task)
           /\ pending' \in Seq(Entries) /\ Unique' /\ Sorted'
           /\ \A x \in Tasks : Queued(x)' <=> Queued(x) /\ x # Head(pending).task
<1>1. /\ Tail(pending) \in Seq(Entries) /\ Head(pending) = pending[1]
      /\ Len(Tail(pending)) = Len(pending) - 1
      /\ \A k \in 1 .. Len(Tail(pending)) : Tail(pending)[k] = pending[k + 1]
  BY HeadTailProperties
<1>2. Len(pending) \in Nat /\ Len(pending) >= 1 /\ DOMAIN pending = 1 .. Len(pending)
  BY LenProperties, EmptySeq
<1>3. DOMAIN pending' = 1 .. Len(pending) - 1 /\ Len(pending') = Len(pending) - 1
  BY <1>1, LenProperties
<1>4. \A k \in DOMAIN pending' : pending'[k] = pending[k + 1] /\ k + 1 \in DOMAIN pending /\ k + 1 # 1
  BY <1>1, <1>2, <1>3
<1>5. 1 \in DOMAIN pending /\ pending[1].task \in Tasks
  BY <1>2, EntryType
<1>6. Unique'
  <2>1. ASSUME NEW j \in DOMAIN pending', NEW k \in DOMAIN pending', pending'[j].task = pending'[k].task
        PROVE  j = k
    <3>1. j + 1 = k + 1
      BY <1>4, <2>1 DEF Unique
    <3> QED BY <1>2, <1>3, <3>1
  <2> QED BY <2>1 DEF Unique
<1>7. Sorted'
  <2> SUFFICES ASSUME NEW k \in 1 .. Len(pending') - 1 PROVE pending'[k].due <= pending'[k + 1].due
    BY DEF Sorted
  <2>1. k \in DOMAIN pending' /\ k + 1 \in DOMAIN pending' /\ k + 1 \in 1 .. Len(pending) - 1
    BY <1>2, <1>3
  <2> QED BY <1>4, <2>1 DEF Sorted
<1>8. ASSUME NEW x \in Tasks PROVE Queued(x)' <=> Queued(x) /\ x # pending[1].task
  <2>1. ASSUME NEW k \in DOMAIN pending', pending'[k].task = x
        PROVE  Queued(x) /\ x # pending[1].task
    BY <1>4, <1>5, <2>1 DEF Queued, Unique
  <2>2. ASSUME NEW k \in DOMAIN pending, pending[k].task = x, x # pending[1].task
        PROVE  Queued(x)'
    <3>1. k - 1 \in DOMAIN pending' /\ (k - 1) + 1 = k
      BY <1>2, <1>3, <2>2
    <3>2. pending'[k - 1] = pending[k]
      BY <1>4, <3>1
    <3> QED BY <2>2, <3>1, <3>2 DEF Queued
  <2> QED BY <2>1, <2>2 DEF Queued
<1> QED BY <1>1, <1>5, <1>6, <1>7, <1>8 DEF Queued

\* A task leaves the queue: it is dropped, ended or polled, and whoever is left
\* in the queue keeps its reference.
LEMMA TakeKeeps ==
    ASSUME IndInv, TakeDue
    PROVE  IndInv'
<1> DEFINE t == Head(pending).task
<1>1. /\ TypeOK /\ run.on /\ poll.phase = "idle" /\ pending # <<>> /\ pending' = Tail(pending)
      /\ pending \in Seq(Entries) /\ Unique /\ Sorted
  BY TidyParts DEF IndInv, QueueInv, TypeOK, Entries, TakeDue
<1>2. /\ t \in Tasks /\ Queued(t) /\ pending' \in Seq(Entries) /\ Unique' /\ Sorted'
      /\ \A x \in Tasks : Queued(x)' <=> Queued(x) /\ x # t
  BY <1>1, QueueShrinks
<1> HIDE DEF t
<1>3. /\ \/ Forget(t) /\ UNCHANGED <<status, poll>>
         \/ Forget(t) /\ status' = [status EXCEPT ![t] = "expired"] /\ UNCHANGED poll
         \/ /\ references[t] # None
            /\ poll' = [phase |-> "limiter", task |-> t, interval |-> references[t], found |-> None]
            /\ UNCHANGED <<status, references>>
      /\ UNCHANGED <<adapter, submit, token, message, userCache, run, verdict, peak>>
  BY DEF TakeDue, t
<1>4. submit[t] = "over" /\ status[t] # "none" /\ references[t] # None
  <2>1. submit[t] = "over" /\ status[t] # "none"
    BY <1>2 DEF IndInv, QueueInv, Placed
  <2>2. PICK k \in DOMAIN pending : pending[k].task = t
    BY <1>2 DEF Queued
  <2> QED BY <1>1, <2>1, <2>2 DEF IndInv, QueueInv, QueueTidy
<1>5. \A x \in Tasks : x # t => references'[x] = references[x]
  BY <1>1, <1>3 DEF Forget, TypeOK
<1>6. TypeOK'
  <2>1. references' \in [Tasks -> 0 .. MaxInterval \cup {None}]
    BY <1>1, <1>3 DEF Forget, TypeOK
  <2>2. status' \in [Tasks -> {"none", "input", "executing", "rejected", "expired", "cancelled"}]
    BY <1>1, <1>3 DEF TypeOK
  <2>3. references[t] \in 0 .. MaxInterval
    BY <1>1, <1>2, <1>4 DEF TypeOK
  <2> QED BY <1>1, <1>2, <1>3, <2>1, <2>2, <2>3 DEF TypeOK, Entries
<1>7. Placed'
  <2>1. \A x \in Tasks : status'[x] = "none" => status[x] = "none"
    BY <1>1, <1>3 DEF TypeOK
  <2>2. \A x \in Tasks : Polling(x)' => x = t
    BY <1>1, <1>3 DEF Polling
  <2> QED BY <1>2, <1>3, <1>4, <2>1, <2>2 DEF IndInv, QueueInv, Placed
<1>8. Referenced'
  <2>1. run.drain = {} /\ (poll'.phase # "idle" => references'[poll'.task] # None)
    BY <1>1, <1>3 DEF IndInv, QueueInv, Referenced
  <2>2. \A x \in Tasks : submit[x] = "queueing" => references'[x] # None
    BY <1>1, <1>4, <1>5 DEF IndInv, QueueInv, Referenced
  <2> QED BY <1>1, <1>3, <2>1, <2>2 DEF Referenced
<1>9. QueueTidy'
  <2>1. ASSUME NEW k \in DOMAIN pending' PROVE references'[pending'[k].task] # None
    <3>1. pending'[k] \in Entries
      BY <1>2, ElementOfSeq, LenProperties
    <3>2. PICK x \in Tasks : x = pending'[k].task
      BY <3>1 DEF Entries
    <3>3. Queued(x) /\ x # t
      BY <1>2, <3>2 DEF Queued
    <3>4. PICK j \in DOMAIN pending : pending[j].task = x
      BY <3>3 DEF Queued
    <3> QED BY <1>1, <1>5, <3>2, <3>3, <3>4 DEF IndInv, QueueInv, QueueTidy
  <2> QED BY <1>2, <2>1 DEF QueueTidy, Unique, Sorted
<1>10. Held' \subseteq Held /\ InSubmit' = InSubmit
  BY <1>3, <1>4, <1>5, <1>2 DEF Held, InSubmit
<1>11. \A x \in Tasks : references'[x] # None => references[x] # None
  BY <1>4, <1>5
<1>12. DecisionInv'
  <2>1. \A x \in Tasks : status'[x] = status[x] \/ status'[x] = "expired"
    BY <1>1, <1>3 DEF TypeOK
  <2>2. poll'.phase # "naming"
    BY <1>1, <1>3
  <2> QED BY <1>3, <2>1, <2>2, DecisionFrame DEF IndInv
<1>13. LimitInv' /\ CacheInv' /\ MessageInv'
  BY <1>1, <1>3, <1>6, <1>10, <1>11, LimitFrame, CacheFrame, MessageFrame DEF IndInv
<1> QED BY <1>6, <1>7, <1>8, <1>9, <1>12, <1>13 DEF IndInv, QueueInv

\* A poll that ends without an answer: its task is to be polled again.
LEMMA BackoffKeeps ==
    ASSUME IndInv, poll.phase = "asking", NEW due \in 0 .. LongestWait, RescheduleAfter(due),
           UNCHANGED <<adapter, store, submit, pending, token, message, userCache, run>>
    PROVE  IndInv'
<1>1. TypeOK /\ poll.task \in Tasks /\ poll.interval \in 0 .. MaxInterval /\ references[poll.task] # None
  BY DEF IndInv, QueueInv, Referenced, TypeOK
<1>2. BackoffInterval(poll.interval) \in 0 .. MaxInterval /\ BackoffInterval(poll.interval) # None
  BY <1>1, Intervals, SlackAssumption
<1>3. TypeOK'
  <2>1. references' \in [Tasks -> 0 .. MaxInterval \cup {None}]
    BY <1>1, <1>2 DEF RescheduleAfter, TypeOK
  <2> QED BY <1>1, <2>1 DEF RescheduleAfter, TypeOK, store
<1>4. \A x \in Tasks : references'[x] # None <=> references[x] # None
  BY <1>1, <1>2 DEF RescheduleAfter, TypeOK
<1>5. poll'.phase = "queueing" /\ poll'.task = poll.task
  BY <1>1 DEF RescheduleAfter, TypeOK
<1>6. Placed' /\ Referenced'
  BY <1>1, <1>4, <1>5 DEF IndInv, QueueInv, Placed, Referenced, Polling, Queued, store
<1>7. QueueTidy'
  <2>1. \A k \in DOMAIN pending : pending[k].task \in Tasks
    BY <1>1, EntryType DEF TypeOK, Entries
  <2> QED BY <1>4, <2>1 DEF IndInv, QueueInv, QueueTidy
<1>8. Held' = Held /\ InSubmit' = InSubmit /\ peak' = peak
  BY <1>4 DEF Held, InSubmit, store
<1>9. LimitInv' /\ CacheInv' /\ MessageInv' /\ DecisionInv'
  BY <1>1, <1>3, <1>4, <1>5, <1>8, LimitFrame, CacheFrame, MessageFrame, DecisionFrame DEF IndInv, store
<1> QED BY <1>3, <1>6, <1>7, <1>9 DEF IndInv, QueueInv

\* A poll that is over for good: the task, which is in no queue, loses its
\* reference.
LEMMA PollEnds ==
    ASSUME IndInv, poll.phase # "idle", Forget(poll.task), poll' = NoPoll,
           status' \in [Tasks -> {"none", "input", "executing", "rejected", "expired", "cancelled"}],
           \A x \in Tasks : status'[x] = "none" => status[x] = "none", DOMAIN verdict' = Tasks,
           UNCHANGED <<adapter, submit, pending, message, run, peak>>
    PROVE  TypeOK' /\ QueueInv' /\ LimitInv' /\ MessageInv'
<1>1. TypeOK /\ poll.task \in Tasks /\ ~Queued(poll.task) /\ submit[poll.task] = "over"
  BY DEF IndInv, TypeOK, QueueInv, Placed, Polling
<1>2. \A x \in Tasks : references'[x] = IF x = poll.task THEN None ELSE references[x]
  BY <1>1 DEF Forget, TypeOK
<1>3. TypeOK'
  <2>1. references' \in [Tasks -> 0 .. MaxInterval \cup {None}]
    BY <1>1 DEF Forget, TypeOK
  <2> QED BY <1>1, <2>1 DEF TypeOK, NoPoll
<1>4. Placed' /\ Referenced'
  BY <1>1, <1>2 DEF IndInv, QueueInv, Placed, Referenced, Polling, Queued, NoPoll
<1>5. QueueTidy'
  <2>1. \A k \in DOMAIN pending : pending[k].task \in Tasks /\ pending[k].task # poll.task
    BY <1>1, EntryType DEF TypeOK, Entries, Queued
  <2> QED BY <1>2, <2>1 DEF IndInv, QueueInv, QueueTidy
<1>6. Held' \subseteq Held /\ InSubmit' = InSubmit
  BY <1>2 DEF Held, InSubmit
<1>7. LimitInv' /\ MessageInv'
  BY <1>1, <1>2, <1>3, <1>6, LimitFrame, MessageFrame DEF IndInv
<1> QED BY <1>3, <1>4, <1>5, <1>7 DEF QueueInv

\* handle_decision: one more task has its verdict, if it was still waiting.
LEMMA DecisionKeeps ==
    ASSUME IndInv, CacheInv', poll.phase # "idle", NEW found, HandleDecision(found),
           adapter.kind = "slack" => found.user \in found.givers,
           UNCHANGED <<adapter, submit, pending, message, run, peak>>
    PROVE  IndInv'
<1>1. TypeOK /\ poll.task \in Tasks
  BY DEF IndInv, TypeOK
<1>2. /\ status' \in [Tasks -> {"none", "input", "executing", "rejected", "expired", "cancelled"}]
      /\ \A x \in Tasks : status'[x] = "none" => status[x] = "none"
      /\ DOMAIN verdict' = Tasks
  BY <1>1 DEF HandleDecision, TypeOK
<1>3. TypeOK' /\ QueueInv' /\ LimitInv' /\ MessageInv'
  BY <1>2, PollEnds DEF HandleDecision
<1>4. DecisionInv'
  <2>1. poll'.phase # "naming"
    BY DEF HandleDecision, NoPoll
  <2>2. CASE status[poll.task] = "input"
    <3>1. /\ status' = [status EXCEPT ![poll.task] = IF found.decision = "approved" THEN "executing" ELSE "rejected"]
          /\ verdict' = [verdict EXCEPT ![poll.task] = found]
      BY <2>2 DEF HandleDecision
    <3>2. status'[poll.task] = (IF found.decision = "approved" THEN "executing" ELSE "rejected")
      BY <1>1, <3>1 DEF TypeOK
    <3>3. verdict'[poll.task] = found
      BY <1>1, <3>1 DEF TypeOK
    <3>4. \A x \in Tasks : x # poll.task => status'[x] = status[x] /\ verdict'[x] = verdict[x]
      BY <1>1, <3>1 DEF TypeOK
    <3> QED BY <2>1, <3>2, <3>3, <3>4 DEF IndInv, DecisionInv, DecisionHasReviewer
  <2>3. CASE status[poll.task] # "input"
    BY <2>1, <2>3, DecisionFrame DEF IndInv, HandleDecision
  <2> QED BY <2>2, <2>3
<1> QED BY <1>3, <1>4 DEF IndInv

\* The answer to a poll.
LEMMA AnswerKeeps ==
    ASSUME IndInv, PollAnswers
    PROVE  IndInv'
<1> DEFINE votes == message[poll.task].votes
           found == CheckReactions(votes)
<1>1. /\ TypeOK /\ poll.phase = "asking" /\ adapter.kind = "slack" /\ poll.task \in Tasks
      /\ UNCHANGED <<adapter, submit, pending, token, message, userCache, run, peak>>
  BY DEF IndInv, TypeOK, PollAnswers
<1>2. votes \in Seq(Votes)
  BY <1>1 DEF IndInv, QueueInv, Referenced, MessageInv, Messages
<1>3. CacheInv'
  BY <1>1, CacheFrame DEF IndInv
<1>4. CASE found = None /\ RescheduleAfter(BackoffInterval(poll.interval)) /\ UNCHANGED <<status, verdict>>
  <2>1. BackoffInterval(poll.interval) \in 0 .. LongestWait
    BY <1>1, Intervals, Waits, SlackAssumption DEF TypeOK
  <2> QED BY <1>1, <1>4, <2>1, BackoffKeeps DEF store
<1>5. CASE /\ found # None
           /\ poll' = [poll EXCEPT !.phase = "naming", !.found = Seen(found, votes)]
           /\ UNCHANGED <<status, verdict, references>>
  <2>1. /\ poll'.phase = "naming" /\ poll'.task = poll.task /\ poll'.interval = poll.interval
        /\ poll'.found = Seen(found, votes)
        /\ poll' = [phase |-> poll'.phase, task |-> poll'.task, interval |-> poll'.interval, found |-> poll'.found]
    BY <1>1, <1>5 DEF TypeOK
  <2>2. TypeOK'
    BY <1>1, <1>5, <2>1 DEF TypeOK
  <2>3. QueueInv'
    BY <1>1, <1>5, <2>1 DEF IndInv, QueueInv, Placed, Polling, Queued, Referenced, QueueTidy
  <2>4. poll'.found.user \in poll'.found.givers
    BY <1>2, <1>5, <2>1, FoundIsGiven
  <2>5. DecisionInv'
    BY <1>1, <1>5, <2>4 DEF IndInv, DecisionInv, DecisionHasReviewer
  <2>6. Held' = Held /\ InSubmit' = InSubmit
    BY <1>1, <1>5 DEF Held, InSubmit
  <2>7. LimitInv' /\ MessageInv'
    BY <1>1, <1>5, <2>2, <2>6, LimitFrame, MessageFrame DEF IndInv
  <2> QED BY <1>3, <2>2, <2>3, <2>5, <2>7 DEF IndInv
<1>6. CASE found # None /\ HandleDecision(Seen(found, votes))
  <2>1. Seen(found, votes).user \in Seen(found, votes).givers
    BY <1>2, <1>6, FoundIsGiven
  <2> QED BY <1>1, <1>3, <1>6, <2>1, DecisionKeeps
<1> QED BY <1>4, <1>5, <1>6 DEF PollAnswers

\* Or one of the errors: the task is polled again, or given up.
LEMMA FailureKeeps ==
    ASSUME IndInv, NEW e, PollFails(e)
    PROVE  IndInv'
<1>1. /\ TypeOK /\ poll.phase = "asking" /\ poll.task \in Tasks /\ poll.interval \in 0 .. MaxInterval
      /\ UNCHANGED <<adapter, store, submit, pending, token, message, userCache, run>>
  BY DEF IndInv, TypeOK, PollFails
<1>2. ASSUME NEW wait \in HandleRateLimit, RescheduleAfter(wait) PROVE IndInv'
  <2>1. wait \in 0 .. LongestWait
    BY Waits, SlackAssumption DEF HandleRateLimit
  <2> QED BY <1>1, <1>2, <2>1, BackoffKeeps
<1>3. CASE RescheduleAfter(BackoffInterval(poll.interval))
  <2>1. BackoffInterval(poll.interval) \in 0 .. LongestWait
    BY <1>1, Intervals, Waits, SlackAssumption
  <2> QED BY <1>1, <1>3, <2>1, BackoffKeeps
<1>4. CASE Forget(poll.task) /\ poll' = NoPoll
  <2>1. TypeOK' /\ QueueInv' /\ LimitInv' /\ MessageInv'
    BY <1>1, <1>4, PollEnds DEF store, TypeOK
  <2>2. CacheInv' /\ DecisionInv'
    BY <1>1, <1>4, CacheFrame, DecisionFrame DEF IndInv, store, NoPoll
  <2> QED BY <2>1, <2>2 DEF IndInv
<1> QED BY <1>2, <1>3, <1>4 DEF PollFails

\* A name enters the cache, which makes room for it when it is full.
LEMMA CacheKeeps ==
    ASSUME CacheInv, NEW user, userCache' \in CacheName(user) \cup {userCache}
    PROVE  CacheInv'
<1> DEFINE n == Cardinality(userCache)
           share == n \div EvictShare
<1>1. IsFiniteSet(userCache) /\ n \in Nat /\ n <= MaxUserCache
  BY FS_CardinalityType DEF CacheInv, CacheBounded
<1>2. ASSUME NEW S, IsFiniteSet(S)
      PROVE  IsFiniteSet(S \cup {user}) /\ Cardinality(S \cup {user}) <= Cardinality(S) + 1
  <2>1. Cardinality(S) \in Nat
    BY <1>2, FS_CardinalityType
  <2>2. /\ IsFiniteSet(S \cup {user})
        /\ Cardinality(S \cup {user}) = IF user \in S THEN Cardinality(S) ELSE Cardinality(S) + 1
    BY <1>2, FS_AddElement
  <2> QED BY <2>1, <2>2
<1>3. CASE n < MaxUserCache
  <2>1. userCache' = userCache \cup {user} \/ userCache' = userCache
    BY <1>3 DEF CacheName
  <2>2. Cardinality(userCache \cup {user}) \in Nat
    BY <1>1, <1>2, FS_CardinalityType
  <2> QED BY <1>1, <1>2, <1>3, <2>1, <2>2, SlackAssumption DEF CacheInv, CacheBounded
<1>4. CASE ~(n < MaxUserCache)
  <2>1. n = MaxUserCache /\ share \in Nat /\ share >= 1
    <3>1. n = MaxUserCache /\ n >= EvictShare /\ EvictShare \in Nat \ {0}
      BY <1>1, <1>4, SlackAssumption, CacheAssumption
    <3> QED BY <1>1, <3>1, ShareOf
  <2>2. ASSUME NEW out \in kSubset(share, userCache), userCache' = (userCache \ out) \cup {user}
        PROVE  CacheInv'
    <3>1. out \subseteq userCache /\ Cardinality(out) = share
      BY <2>2 DEF kSubset
    <3>2. IsFiniteSet(userCache \ out) /\ Cardinality(userCache \ out) = n - share
      <4>1. userCache \cap out = out
        BY <3>1
      <4>2. /\ IsFiniteSet(userCache \ out)
            /\ Cardinality(userCache \ out) = Cardinality(userCache) - Cardinality(userCache \cap out)
        BY <1>1, FS_Difference
      <4> QED BY <3>1, <4>1, <4>2
    <3>3. Cardinality(userCache') <= n - share + 1 /\ IsFiniteSet(userCache')
      BY <1>2, <2>2, <3>2
    <3>4. Cardinality(userCache') \in Nat
      BY <3>3, FS_CardinalityType
    <3> QED BY <1>1, <2>1, <3>3, <3>4 DEF CacheInv, CacheBounded
  <2>3. ASSUME userCache' \in CacheName(user)
        PROVE  \E out \in kSubset(share, userCache) : userCache' = (userCache \ out) \cup {user}
    BY <1>4, <2>3 DEF CacheName
  <2> QED BY <2>2, <2>3, CacheFrame
<1> QED BY <1>3, <1>4

\* A decision with the name it was waiting for, and the mock's.
LEMMA NamedKeeps ==
    ASSUME IndInv, GetUserDisplayName \/ MockPoll
    PROVE  IndInv'
<1>1. CASE GetUserDisplayName
  <2>1. poll.found.user \in poll.found.givers /\ CacheInv'
    BY <1>1, CacheKeeps DEF IndInv, DecisionInv, GetUserDisplayName
  <2> QED BY <1>1, <2>1, DecisionKeeps DEF GetUserDisplayName
<1>2. CASE MockPoll
  <2>1. CacheInv' /\ adapter.kind # "slack"
    BY <1>2, CacheFrame DEF IndInv, MockPoll
  <2> QED BY <1>2, <2>1, DecisionKeeps DEF MockPoll
<1> QED BY <1>1, <1>2

\* The sweep drops the poll in progress, the shutdown stops polling for good.
LEMMA SweepKeeps ==
    ASSUME IndInv, ExpirationTick \/ StopScheduler
    PROVE  IndInv'
<1>1. PICK late \in SUBSET {t \in Tasks : status[t] \in {"input", "executing"}} :
          status' = [t \in Tasks |-> IF t \in late THEN "expired" ELSE status[t]]
  BY DEF ExpirationTick, StopScheduler, ExpireOverdue
<1>2. /\ TypeOK /\ poll' = NoPoll /\ run.on
      /\ run' = run \/ run' = [on |-> FALSE, drain |-> References]
      /\ UNCHANGED <<adapter, submit, references, pending, token, message, userCache, verdict, peak>>
  BY DEF IndInv, ExpirationTick, StopScheduler
<1>3. \A t \in Tasks : status'[t] = status[t] \/ status'[t] = "expired"
  BY <1>1
<1>4. TypeOK'
  <2>1. status' \in [Tasks -> {"none", "input", "executing", "rejected", "expired", "cancelled"}]
    BY <1>1, <1>2 DEF TypeOK
  <2>2. run' \in [on : BOOLEAN, drain : SUBSET Tasks]
    <3>1. References \in SUBSET Tasks
      BY DEF References
    <3>2. [on |-> FALSE, drain |-> References] \in [on : BOOLEAN, drain : SUBSET Tasks]
      BY <3>1
    <3> QED BY <1>2, <3>2 DEF TypeOK
  <2> QED BY <1>2, <2>1, <2>2 DEF TypeOK, NoPoll
<1>5. QueueInv'
  BY <1>2, <1>3 DEF IndInv, QueueInv, Placed, Polling, Queued, Referenced, QueueTidy, NoPoll
<1>6. Held' = Held /\ InSubmit' = InSubmit
  BY <1>2 DEF Held, InSubmit
<1>7. LimitInv' /\ CacheInv' /\ MessageInv' /\ DecisionInv'
  BY <1>2, <1>3, <1>4, <1>6, LimitFrame, CacheFrame, MessageFrame, DecisionFrame DEF IndInv, NoPoll
<1> QED BY <1>4, <1>5, <1>7 DEF IndInv

\* After the shutdown references go one by one, their messages crossed out or not.
LEMMA DrainKeeps ==
    ASSUME IndInv, NEW t \in Tasks, DrainPending(t)
    PROVE  IndInv'
<1>1. /\ TypeOK /\ t \in run.drain /\ ~run.on /\ poll.phase = "idle"
      /\ run' = [run EXCEPT !.drain = @ \ {t}] /\ Forget(t) /\ CancelApproval(t)
      /\ UNCHANGED <<adapter, store, submit, pending, token, poll, userCache>>
  BY DEF IndInv, QueueInv, Referenced, DrainPending
<1>2. \A x \in Tasks : references'[x] = IF x = t THEN None ELSE references[x]
  BY <1>1 DEF Forget, TypeOK
<1>3. \A x \in Tasks : message'[x] = message[x] \/ (x = t /\ message'[x] = Cancelled(message[x]))
  <2>1. CASE message' = message
    BY <2>1
  <2>2. CASE message' = [message EXCEPT ![t] = Cancelled(@)]
    BY <1>1, <2>2 DEF TypeOK
  <2> QED BY <1>1, <2>1, <2>2 DEF CancelApproval
<1>4. \A m \in Messages : m # None => Cancelled(m) \in Messages /\ Cancelled(m).cancelled
  BY DEF Cancelled, Messages
<1>5. Cancelled(None) = None
  BY DEF Cancelled
<1>6. TypeOK'
  <2>1. references' \in [Tasks -> 0 .. MaxInterval \cup {None}]
    BY <1>1 DEF Forget, TypeOK
  <2>2. message' \in [Tasks -> Messages \cup {None}]
    <3>1. message \in [Tasks -> Messages \cup {None}]
      BY <1>1 DEF TypeOK
    <3>2. Cancelled(message[t]) \in Messages \cup {None}
      BY <3>1, <1>4, <1>5
    <3>3. message' = message \/ message' = [message EXCEPT ![t] = Cancelled(@)]
      BY <1>1 DEF CancelApproval
    <3> QED BY <3>1, <3>2, <3>3
  <2>3. run' \in [on : BOOLEAN, drain : SUBSET Tasks]
    BY <1>1 DEF TypeOK
  <2> QED BY <1>1, <2>1, <2>2, <2>3 DEF TypeOK, store
<1>7. run'.on = run.on
  BY <1>1 DEF TypeOK
<1>8. QueueInv'
  BY <1>1, <1>2, <1>7 DEF IndInv, QueueInv, Placed, Polling, Queued, Referenced, QueueTidy, store
<1>9. MessageInv'
  BY <1>1, <1>2, <1>3, <1>4, <1>5 DEF IndInv, MessageInv, TypeOK
<1>10. Held' \subseteq Held /\ InSubmit' = InSubmit /\ peak' = peak
  BY <1>1, <1>2 DEF Held, InSubmit, store
<1>11. LimitInv' /\ CacheInv' /\ DecisionInv'
  BY <1>1, <1>6, <1>10, LimitFrame, CacheFrame, DecisionFrame DEF IndInv, store
<1> QED BY <1>6, <1>8, <1>9, <1>11 DEF IndInv

\* Reviewers change a message: its reactions, or whether it is there.
LEMMA ReviewKeeps ==
    ASSUME IndInv, NEW t \in Tasks, DeleteMessage(t) \/ \E v \in Votes : React(t, v) \/ Unreact(t, v)
    PROVE  IndInv'
<1>1. /\ TypeOK /\ message[t] # None /\ message[t] \in Messages
      /\ UNCHANGED <<adapter, store, submit, references, pending, token, poll, userCache, run>>
  BY DEF IndInv, TypeOK, DeleteMessage, React, Unreact
<1>2. PICK m \in Messages : /\ m.shows = message[t].shows /\ m.cancelled = message[t].cancelled
                            /\ message' = [message EXCEPT ![t] = m]
  <2>1. CASE DeleteMessage(t)
    <3>1. [message[t] EXCEPT !.deleted = TRUE, !.votes = <<>>] \in Messages
      BY <1>1, EmptySeq DEF Messages
    <3> QED BY <1>1, <2>1, <3>1 DEF DeleteMessage, Messages
  <2>2. ASSUME NEW v \in Votes, React(t, v)
        PROVE  \E m \in Messages : /\ m.shows = message[t].shows /\ m.cancelled = message[t].cancelled
                                   /\ message' = [message EXCEPT ![t] = m]
    <3>1. Append(message[t].votes, v) \in Seq(Votes)
      BY <1>1, AppendProperties DEF Messages
    <3>2. [message[t] EXCEPT !.votes = Append(@, v)] \in Messages
      BY <1>1, <3>1 DEF Messages
    <3>3. message' = [message EXCEPT ![t] = [message[t] EXCEPT !.votes = Append(@, v)]]
      BY <2>2 DEF React
    <3> QED BY <1>1, <3>2, <3>3 DEF Messages
  <2>3. ASSUME NEW v \in Votes, Unreact(t, v)
        PROVE  \E m \in Messages : /\ m.shows = message[t].shows /\ m.cancelled = message[t].cancelled
                                   /\ message' = [message EXCEPT ![t] = m]
    <3>1. PICK k \in DOMAIN message[t].votes : message' = [message EXCEPT ![t].votes = RemoveAt(@, k)]
      BY <2>3 DEF Unreact
    <3>2. RemoveAt(message[t].votes, k) \in Seq(Votes)
      BY <1>1, RemoveAtType DEF Messages
    <3>3. [message[t] EXCEPT !.votes = RemoveAt(@, k)] \in Messages
      BY <1>1, <3>2 DEF Messages
    <3>4. message' = [message EXCEPT ![t] = [message[t] EXCEPT !.votes = RemoveAt(@, k)]]
      BY <3>1
    <3> QED BY <1>1, <3>3, <3>4 DEF Messages
  <2> QED BY <2>1, <2>2, <2>3
<1>3. TypeOK'
  BY <1>1, <1>2 DEF TypeOK, store
<1>4. MessageInv'
  BY <1>1, <1>2 DEF IndInv, MessageInv, TypeOK
<1>5. QueueInv'
  BY <1>1 DEF IndInv, QueueInv, Placed, Polling, Queued, Referenced, QueueTidy, store
<1>6. Held' = Held /\ InSubmit' = InSubmit /\ peak' = peak
  BY <1>1 DEF Held, InSubmit, store
<1>7. LimitInv' /\ CacheInv' /\ DecisionInv'
  BY <1>1, <1>3, <1>6, LimitFrame, CacheFrame, DecisionFrame DEF IndInv, store
<1> QED BY <1>3, <1>4, <1>5, <1>7 DEF IndInv

\* The caller gives up a task that has no verdict.
LEMMA CancelKeeps ==
    ASSUME IndInv, NEW t \in Tasks, CancelTask(t)
    PROVE  IndInv'
<1>1. TypeOK /\ TypeOK' /\ status[t] = "input"
  BY DEF IndInv, TypeOK, CancelTask
<1>2. QueueInv'
  BY <1>1 DEF IndInv, QueueInv, Placed, Polling, Queued, Referenced, QueueTidy, CancelTask, TypeOK
<1>3. Held' = Held /\ InSubmit' = InSubmit
  BY DEF Held, InSubmit, CancelTask
<1>4. DecisionInv'
  BY <1>1 DEF IndInv, DecisionInv, DecisionHasReviewer, CancelTask, TypeOK
<1>5. LimitInv' /\ CacheInv' /\ MessageInv'
  BY <1>1, <1>3, LimitFrame, CacheFrame, MessageFrame DEF IndInv, CancelTask
<1> QED BY <1>1, <1>2, <1>4, <1>5 DEF IndInv

\* Time passes for all entries alike.
LEMMA TickKeeps ==
    ASSUME IndInv, Tick
    PROVE  IndInv'
<1>1. TypeOK /\ pending \in Seq(Entries)
  BY DEF IndInv, TypeOK, Entries
<1>2. DOMAIN pending = 1 .. Len(pending) /\ Len(pending) \in Nat
  BY <1>1, LenProperties
<1>3. \A k \in DOMAIN pending : pending[k] \in Entries /\ pending[k].due \in Nat
  BY <1>1, EntryType
<1> DEFINE older(e) == [e EXCEPT !.due = IF @ = 0 THEN 0 ELSE @ - 1]
<1>4. \A e \in Entries : /\ older(e) \in Entries /\ older(e).task = e.task
                         /\ older(e).due = IF e.due = 0 THEN 0 ELSE e.due - 1
  BY Waits DEF Entries
<1>5. pending' = [k \in 1 .. Len(pending) |-> older(pending[k])]
  BY <1>2 DEF Tick
<1> HIDE DEF older
<1>6. pending' \in Seq(Entries)
  BY <1>2, <1>3, <1>4, <1>5, IsASeq
<1>7. DOMAIN pending' = DOMAIN pending /\ Len(pending') = Len(pending)
  BY <1>2, <1>5, <1>6, LenProperties
<1>8. \A k \in DOMAIN pending : /\ pending'[k].task = pending[k].task
                                /\ pending'[k].due = IF pending[k].due = 0 THEN 0 ELSE pending[k].due - 1
  BY <1>2, <1>3, <1>4, <1>5
<1>9. UNCHANGED <<adapter, store, submit, references, poll, message, userCache, run>>
  BY DEF Tick
<1>10. TypeOK'
  BY <1>1, <1>6, <1>9 DEF TypeOK, store, Entries
<1>11. Placed' /\ Referenced'
  BY <1>7, <1>8, <1>9 DEF IndInv, QueueInv, Placed, Polling, Queued, Referenced, store
<1>12. QueueTidy'
  <2>1. Unique' /\ (run.on' => \A k \in DOMAIN pending' : references'[pending'[k].task] # None)
    BY <1>7, <1>8, <1>9 DEF IndInv, QueueInv, QueueTidy, Unique
  <2>2. Sorted'
    <3> SUFFICES ASSUME NEW k \in 1 .. Len(pending') - 1 PROVE pending'[k].due <= pending'[k + 1].due
      BY DEF Sorted
    <3>1. k \in DOMAIN pending /\ k + 1 \in DOMAIN pending /\ pending[k].due <= pending[k + 1].due
      BY <1>2, <1>7 DEF IndInv, QueueInv, QueueTidy
    <3> QED BY <1>3, <1>8, <3>1
  <2> QED BY <2>1, <2>2 DEF QueueTidy, Unique, Sorted
<1>13. Held' = Held /\ InSubmit' = InSubmit /\ peak' = peak
  BY <1>9 DEF Held, InSubmit, store
<1>14. LimitInv' /\ CacheInv' /\ MessageInv' /\ DecisionInv'
  BY <1>1, <1>9, <1>10, <1>13, LimitFrame, CacheFrame, MessageFrame, DecisionFrame DEF IndInv, store
<1> QED BY <1>10, <1>11, <1>12, <1>14 DEF IndInv, QueueInv

-----------------------------------------------------------------------------
(* Theorems *)

\* Every step of the scheduler, of a submission, of a reviewer and of time keeps
\* the invariant.
THEOREM Inductive == Spec => []IndInv
<1>1. IndInv /\ [Next]_vars => IndInv'
  <2> SUFFICES ASSUME IndInv, [Next]_vars PROVE IndInv'
    OBVIOUS
  <2>1. CASE UNCHANGED vars
    <3>1. TypeOK' /\ QueueInv'
      BY <2>1 DEF vars, IndInv, TypeOK, QueueInv, Placed, Polling, Queued, Referenced, QueueTidy
    <3>2. Held' = Held /\ InSubmit' = InSubmit
      BY <2>1 DEF vars, Held, InSubmit
    <3>3. LimitInv' /\ CacheInv' /\ MessageInv' /\ DecisionInv'
      BY <2>1, <3>1, <3>2, LimitFrame, CacheFrame, MessageFrame, DecisionFrame DEF vars, IndInv
    <3> QED BY <3>1, <3>3 DEF IndInv
  <2>2. CASE PollStep
    BY <2>2, TakeKeeps, ReadyKeeps, RescheduleKeeps, AnswerKeeps, NamedKeeps, FailureKeeps DEF PollStep
  <2>3. ASSUME NEW t \in Tasks, SubmitStep(t) PROVE IndInv'
    BY <2>3, ReadyKeeps, PostKeeps, EnqueueKeeps DEF SubmitStep
  <2> QED BY <2>1, <2>2, <2>3, SubmitKeeps, SweepKeeps, DrainKeeps, ReviewKeeps, CancelKeeps, TickKeeps DEF Next
<1> QED BY <1>1, InitInd, PTL DEF Spec

\* Type correctness: intervals and waits stay within what is configured, the
\* queue holds entries of tasks, a poll in progress is of a task.
THEOREM TypeCorrect == Spec => []TypeOK
<1>1. IndInv => TypeOK
  BY DEF IndInv
<1> QED BY <1>1, Inductive, PTL

\* A recorded decision names somebody who gave the reaction it rests on, on the
\* message of that very task, however polls, reactions, names that are fetched,
\* sweeps and cancellations interleave; and nothing but expiry follows it.
THEOREM DecisionsHaveReviewers == Spec => []DecisionHasReviewer
<1>1. IndInv => DecisionHasReviewer
  BY DEF IndInv, DecisionInv
<1> QED BY <1>1, Inductive, PTL

\* What the tasks share: no task is queued twice or, while the scheduler runs,
\* without its reference; the queue is in order; the soft limit is exceeded by
\* less than the number of submissions that were under way together; the cache
\* of names stays within its limit.
THEOREM SharedStateIsSound == Spec => []SharedStateSound
<1>1. ASSUME IndInv PROVE SharedStateSound
  <2>1. QueueTidy /\ CacheBounded
    BY <1>1 DEF IndInv, QueueInv, CacheInv
  <2>2. OvershootBounded
    <3>1. References \subseteq Held
      BY DEF References, Held
    <3>2. Cardinality(References) <= Cardinality(Held)
      BY <3>1, HeldFinite, FS_Subset
    <3> QED BY <1>1, <3>2, HeldFinite, SlackAssumption DEF IndInv, LimitInv, OvershootBounded, TypeOK
  <2> QED BY <2>1, <2>2 DEF SharedStateSound
<1> QED BY <1>1, Inductive, PTL

\* No message shows what is at or under a configured field, and every message
\* that was not crossed out shows all the rest.
THEOREM ArgumentsAreRedacted == Spec => []ArgumentsRedacted
<1>1. ASSUME IndInv PROVE ArgumentsRedacted
  <2> DEFINE N == Len(RedactFields)
  <2>1. DOMAIN RedactFields = 1 .. N
    BY FieldsAssumption, LenProperties
  <2>2. \A p : Secret(N, p) <=> \E k \in DOMAIN RedactFields : IsPrefix(RedactFields[k], p)
    BY <2>1 DEF Secret
  <2>3. RedactedTo(N)
    BY RedactAll
  <2>4. \A t \in Tasks : message[t] # None /\ ~message[t].cancelled => message[t].shows = Redact[N]
    BY <1>1 DEF IndInv, MessageInv
  <2> QED BY <2>2, <2>3, <2>4 DEF ArgumentsRedacted, RedactedTo
<1> QED BY <1>1, Inductive, PTL
=============================================================================
