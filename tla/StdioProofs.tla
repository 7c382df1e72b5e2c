----------------------------- MODULE StdioProofs -----------------------------
(***************************************************************************)
(* Theorems about the command-line tool.                                   *)
(*                                                                         *)
(* Shim, for any lines, configurations and policies and any bounds: what   *)
(* reaches the server was let through and not refused, it is at most one   *)
(* line after the shutdown signal, and no line is both answered and        *)
(* delivered.                                                              *)
(*                                                                         *)
(* Wrap, for any number of processes, layouts and failures:                *)
(* the user's configuration can always be recovered, an agent stays behind *)
(* the shims of its process, and an undisturbed run leaves no trace.       *)
(***************************************************************************)
EXTENDS Shim, Wrap, TLAPS, WellFoundedInduction

\* A request the gates have a say in, outside development.
Gated(p) ==
    /\ ~Dev /\ ~stub
    /\ Kind(sent[p]) = "request" /\ MethodRequiresGates(sent[p].method) /\ sent[p].name # None

\* What lets a line through.
LetThrough(p) ==
    tasks[p] = "approved" \/ EvaluateWithPrincipal(config, permitted, sent[p].method, sent[p].name) = "forward"

\* The pump holds a line it has neither written nor refused.
InHand == {"pass", "ask", "forward", "poll", "progress", "revalidate"}

\* The pump works through the stream: what it delivered or refused it has
\* read, only what it refused it has answered, the line in its hand is neither
\* yet, and a line being answered has no answer.
Progress ==
    /\ delivered \subseteq 1 .. read /\ refused \subseteq 1 .. read
    /\ \A a \in answers : a.place \in refused
    /\ pump \in InHand => read >= 1 /\ read \notin delivered /\ read \notin refused
    /\ pump = "respond" => read \in refused /\ \A a \in answers : a.place # read

\* A line about to be written was let through or is not for the gates, a line in
\* revalidation approved.
HandChecked ==
    /\ pump = "forward" /\ Gated(read) => LetThrough(read)
    /\ pump = "pass" => ~Gated(read)
    /\ pump = "revalidate" => tasks[read] = "approved"

\* Before the flag, and while the line taken before it is still in hand,
\* nothing was written late.
NotLate == (~flag \/ pump \in InHand) => late = 0

\* What may stand on the server's stdout.
Spoken == [kind : {"response", "other"}, id : Ids \cup {None}, names : {Names, None}]

\* What the other parts of the state have to be for TypeOK to last.
Shapes ==
    /\ config \in Configs /\ sent \in Seq(Lines) /\ late \in Nat /\ flag \in BOOLEAN
    /\ toServer \in Seq(Lines) /\ fromServer \in Seq(Spoken)

SafetyInv ==
    /\ Progress
    /\ HandChecked
    /\ NotLate
    /\ DeliveriesSound
    /\ AnsweredOnce

IndInv == TypeOK /\ Shapes /\ SafetyInv

-----------------------------------------------------------------------------
(* The gates *)

\* The rule that decides is one of the rules, and has one of the four actions.
LEMMA EvaluateTyped ==
    ASSUME NEW c, WellTyped(c), NEW n
    PROVE  Evaluate(c, n) \in Actions
<1> DEFINE hits == {k \in DOMAIN c.rules : RuleMatches(c.rules[k], n)}
<1>1. CASE hits = {}
  BY <1>1 DEF Evaluate, WellTyped
<1>2. CASE hits # {}
  <2>1. hits \subseteq Nat
    BY DEF WellTyped
  <2>2. \E k \in hits : \A j \in hits : ~(<<j, k>> \in OpToRel(<, Nat))
    BY <1>2, <2>1, NatLessThanWellFounded, WFMin
  <2>3. \E k \in hits : \A j \in hits : k <= j
    <3>1. PICK k \in hits : \A j \in hits : ~(<<j, k>> \in OpToRel(<, Nat))
      BY <2>2
    <3>2. ASSUME NEW j \in hits PROVE ~(j < k)
      <4>1. <<j, k>> \in Nat \X Nat /\ <<j, k>> \notin OpToRel(<, Nat)
        BY <2>1, <3>1
      <4> QED BY <4>1 DEF OpToRel
    <3> QED BY <2>1, <3>2
  <2> DEFINE first == CHOOSE k \in hits : \A j \in hits : k <= j
  <2>4. first \in hits
    BY <2>3
  <2>5. Evaluate(c, n) = c.rules[first].action
    BY <1>2 DEF Evaluate
  <2> QED BY <2>4, <2>5 DEF WellTyped
<1> QED BY <1>1, <1>2

\* Outside development the gates forward a name by rule and exposure alone:
\* Cedar's answer only decides between an approval and a denial.
LEMMA ForwardIsByRule ==
    ASSUME NEW c \in Configs, NEW l \in Lines, l.name # None, ~c.dev,
           NEW P, NEW Q, EvaluateWithPrincipal(c, P, l.method, l.name) = "forward"
    PROVE  EvaluateWithPrincipal(c, Q, l.method, l.name) = "forward"
<1> DEFINE action == Evaluate(c, l.name)
<1>1. action \in {"forward", "deny", "policy", "approve"}
  BY ConfigsAssumption, EvaluateTyped DEF Actions
<1> HIDE DEF action
<1>2. Exposed(c, l.name) /\ action = "forward"
  <2>1. CASE ~Exposed(c, l.name)
    BY <2>1 DEF EvaluateWithPrincipal
  <2>2. CASE Exposed(c, l.name) /\ action = "policy"
    BY <2>2 DEF EvaluateWithPrincipal, EvaluateCedar, StartApproval, action
  <2>3. CASE Exposed(c, l.name) /\ action \in {"deny", "approve"}
    BY <2>3 DEF EvaluateWithPrincipal, StartApproval, action
  <2> QED BY <1>1, <2>1, <2>2, <2>3
<1> QED BY <1>2 DEF EvaluateWithPrincipal, action

\* What let a line through keeps letting it through: the agent's stream only
\* grows, an approval is final, and the policy has no say.
LEMMA LetThroughLasts ==
    ASSUME IndInv, NEW p \in 1 .. Len(sent), UNCHANGED <<config, stub>>,
           sent' = sent \/ \E l \in Lines : sent' = Append(sent, l),
           tasks[p] = "approved" => tasks'[p] = "approved"
    PROVE  /\ Gated(p)' <=> Gated(p)
           /\ Gated(p) /\ LetThrough(p) => LetThrough(p)'
<1>1. sent'[p] = sent[p] /\ sent[p] \in Lines
  <2>1. sent \in Seq(Lines) /\ p \in 1 .. Len(sent)
    BY DEF IndInv, Shapes
  <2>2. sent[p] \in Lines
    BY <2>1
  <2>3. CASE sent' = sent
    BY <2>2, <2>3
  <2>4. ASSUME NEW l \in Lines, sent' = Append(sent, l) PROVE sent'[p] = sent[p]
    BY <2>1, <2>4
  <2> QED BY <2>2, <2>3, <2>4
<1>2. Gated(p)' <=> Gated(p)
  BY <1>1 DEF Gated, Dev
<1>3. ASSUME Gated(p), LetThrough(p) PROVE LetThrough(p)'
  BY <1>1, <1>3, ForwardIsByRule DEF Gated, Dev, LetThrough, IndInv, Shapes
<1> QED BY <1>2, <1>3

-----------------------------------------------------------------------------
(* Steps that share a shape *)

\* The lines the pump has taken are lines of the stream.
LEMMA Taken ==
    ASSUME IndInv
    PROVE  /\ read \in Nat /\ Len(sent) \in Nat /\ read <= Len(sent) /\ MaxLines \in Nat
           /\ \A p \in 1 .. read : p \in 1 .. Len(sent) /\ p \in Places
<1>1. read \in Nat /\ read <= Len(sent) /\ Len(sent) <= MaxLines /\ Len(sent) \in Nat
  BY DEF IndInv, TypeOK, Shapes
<1> QED BY <1>1, LinesAssumption DEF Places

\* What was delivered stays justified while nothing more is.
LEMMA DeliveriesStand ==
    ASSUME IndInv, UNCHANGED <<config, stub>>,
           sent' = sent \/ \E l \in Lines : sent' = Append(sent, l),
           \A p \in delivered : tasks[p] = "approved" => tasks'[p] = "approved"
    PROVE  \A p \in delivered : Gated(p)' => LetThrough(p)'
<1>1. \A p \in delivered : p \in 1 .. Len(sent)
  BY Taken DEF IndInv, SafetyInv, Progress
<1>2. \A p \in delivered : Gated(p) => LetThrough(p)
  BY DEF IndInv, SafetyInv, DeliveriesSound, GovernedDelivery, Gated, LetThrough
<1> QED BY <1>1, <1>2, LetThroughLasts

\* Nothing is read, written or answered: the environment, the main task, the
\* relay and the heartbeat, and the pump when it moves on.
LEMMA Aside ==
    ASSUME IndInv, UNCHANGED <<config, stub, read, delivered, refused, answers, late>>,
           pump' = pump \/ pump' \in {"read", "ended"},
           flag => flag', flag' \in BOOLEAN,
           sent' = sent \/ \E l \in Lines : sent' = Append(sent, l),
           \A p \in Places : tasks[p] = "approved" => tasks'[p] = "approved"
    PROVE  SafetyInv'
<1> USE DEF IndInv, SafetyInv, InHand
<1>1. Progress'
  BY DEF Progress
<1>2. HandChecked'
  <2>1. pump' \in InHand => read \in 1 .. read
    BY Taken DEF Progress
  <2>2. read \in 1 .. read => /\ read \in Places
                              /\ Gated(read)' <=> Gated(read)
                              /\ Gated(read) /\ LetThrough(read) => LetThrough(read)'
    BY Taken, LetThroughLasts
  <2> QED BY <2>1, <2>2 DEF HandChecked
<1>3. NotLate'
  BY DEF NotLate, Shapes
<1>4. GovernedDelivery'
  <2>1. \A p \in delivered : p \in Places
    BY DEF TypeOK
  <2> QED BY <2>1, DeliveriesStand DEF GovernedDelivery, Gated, LetThrough
<1>5. RefusalsStand' /\ LateDeliveriesBounded' /\ AnsweredOnce'
  BY DEF DeliveriesSound, RefusalsStand, LateDeliveriesBounded, AnsweredOnce
<1> QED BY <1>1, <1>2, <1>3, <1>4, <1>5 DEF DeliveriesSound

\* The pump keeps the line in its hand, or refuses it.
LEMMA Handles ==
    ASSUME IndInv, pump \in InHand,
           UNCHANGED <<config, stub, sent, read, delivered, late>>,
           flag => flag', flag' \in BOOLEAN,
           \/ pump' \in InHand /\ UNCHANGED <<refused, answers>>
           \/ \E what : Respond(what),
           HandChecked',
           \A p \in delivered : tasks[p] = "approved" => tasks'[p] = "approved"
    PROVE  SafetyInv'
<1> USE DEF IndInv, SafetyInv, InHand
<1>1. read \in 1 .. read /\ read \notin delivered /\ \A a \in answers : a.place # read
  BY Taken DEF Progress
<1>2. /\ answers' = answers
      /\ \/ refused' = refused /\ pump' \in InHand
         \/ refused' = refused \cup {read} /\ pump' \in {"respond", "read"}
  BY DEF Respond
<1>3. Progress'
  BY <1>1, <1>2 DEF Progress
<1>4. NotLate'
  BY <1>2 DEF NotLate, Shapes
<1>5. GovernedDelivery'
  BY DeliveriesStand DEF GovernedDelivery, Gated, LetThrough
<1>6. RefusalsStand' /\ LateDeliveriesBounded' /\ AnsweredOnce'
  BY <1>1, <1>2 DEF DeliveriesSound, RefusalsStand, LateDeliveriesBounded, AnsweredOnce
<1> QED BY <1>3, <1>4, <1>5, <1>6 DEF DeliveriesSound

\* A refused line gets its one answer.
LEMMA Answers == IndInv /\ WriteStdout => SafetyInv'
<1> SUFFICES ASSUME IndInv, WriteStdout PROVE SafetyInv'
  OBVIOUS
<1> USE DEF IndInv, SafetyInv, InHand
<1>1. /\ UNCHANGED <<config, stub, sent, read, permitted, tasks, refused, delivered, late, flag>>
      /\ pump = "respond" /\ pump' \in {"read", "ended"}
      /\ answers' = answers \/ answers' = answers \cup {[place |-> read, what |-> reply]}
  BY DEF WriteStdout, NextLine, PumpRest, NoWrite, agentVars
<1>2. Progress'
  BY <1>1 DEF Progress
<1>3. HandChecked' /\ NotLate'
  BY <1>1 DEF HandChecked, NotLate
<1>4. GovernedDelivery'
  BY <1>1, DeliveriesStand DEF GovernedDelivery, Gated, LetThrough
<1>5. RefusalsStand' /\ LateDeliveriesBounded'
  BY <1>1 DEF DeliveriesSound, RefusalsStand, LateDeliveriesBounded
<1>6. AnsweredOnce'
  <2>1. read \in refused /\ \A a \in answers : a.place # read
    BY <1>1 DEF Progress
  <2>2. read \notin delivered
    BY <2>1 DEF DeliveriesSound, RefusalsStand
  <2> QED BY <1>1, <2>1, <2>2 DEF AnsweredOnce
<1> QED BY <1>2, <1>3, <1>4, <1>5, <1>6 DEF DeliveriesSound

\* A line that may pass is written to the server.
LEMMA Writes ==
    ASSUME IndInv, pump \in InHand,
           UNCHANGED <<config, stub, sent, read, tasks, permitted, refused, answers, flag>>,
           NEW next \in {"read", "track"}, Write(next),
           Gated(read) => LetThrough(read)
    PROVE  SafetyInv'
<1> USE DEF IndInv, SafetyInv, InHand
<1>1. /\ read \in 1 .. read /\ late = 0
      /\ read \notin delivered /\ read \notin refused /\ \A a \in answers : a.place # read
  BY Taken DEF Progress, NotLate
<1>2. delivered \subseteq 1 .. read /\ refused \subseteq 1 .. read
  BY DEF Progress
<1>3. \/ pump' = next /\ delivered' = delivered \cup {read} /\ late' \in {0, 1} /\ (~flag => late' = 0)
      \/ pump' = "ended" /\ delivered' = delivered /\ late' = 0
  BY <1>1 DEF Write, NoWrite
<1>4. Progress'
  BY <1>1, <1>2, <1>3 DEF Progress
<1>5. HandChecked' /\ NotLate'
  BY <1>3 DEF HandChecked, NotLate, Shapes
<1>6. GovernedDelivery'
  <2>1. Gated(read)' <=> Gated(read)
    BY DEF Gated, Dev
  <2>2. LetThrough(read)' <=> LetThrough(read)
    BY DEF LetThrough
  <2>3. \A p \in delivered' : Gated(p)' => LetThrough(p)'
    BY <1>3, <2>1, <2>2, DeliveriesStand
  <2> QED BY <2>3 DEF GovernedDelivery, Gated, LetThrough
<1>7. RefusalsStand' /\ LateDeliveriesBounded' /\ AnsweredOnce'
  BY <1>1, <1>3 DEF DeliveriesSound, RefusalsStand, LateDeliveriesBounded, AnsweredOnce
<1> QED BY <1>4, <1>5, <1>6, <1>7 DEF DeliveriesSound

-----------------------------------------------------------------------------
(* The steps *)

\* Every part of the state keeps its type.
LEMMA InitInd == Init => IndInv
<1> SUFFICES ASSUME Init PROVE IndInv
  OBVIOUS
<1>1. Len(sent) = 0 /\ delivered = {} /\ refused = {} /\ answers = {} /\ read = 0
  BY DEF Init
<1>2. TypeOK
  <2>1. /\ read \in 0 .. Len(sent) /\ Len(sent) <= MaxLines
        /\ delivered \subseteq Places /\ refused \subseteq Places
    BY <1>1, LinesAssumption DEF Init
  <2> QED BY <2>1 DEF Init, TypeOK
<1>3. Shapes
  <2>1. /\ sent = <<>> /\ toServer = <<>> /\ fromServer = <<>>
        /\ config \in Configs /\ late = 0 /\ flag = FALSE
    BY DEF Init
  <2>2. sent \in Seq(Lines) /\ toServer \in Seq(Lines) /\ fromServer \in Seq(Spoken)
    BY <2>1
  <2> QED BY <2>1, <2>2 DEF Shapes
<1>4. SafetyInv
  BY <1>1 DEF Init, SafetyInv, Progress, HandChecked, NotLate, DeliveriesSound,
     GovernedDelivery, RefusalsStand, LateDeliveriesBounded, AnsweredOnce, InHand
<1> QED BY <1>2, <1>3, <1>4 DEF IndInv

\* A step of a pump keeps the types and the shapes.
LEMMA PumpTypes == IndInv /\ PumpStep => TypeOK' /\ Shapes'
<1> SUFFICES ASSUME IndInv, PumpStep PROVE TypeOK' /\ Shapes'
  OBVIOUS
<1> USE DEF IndInv, TypeOK, Shapes
<1>1. /\ UNCHANGED <<sent, config, fromServer, main, child, stalled>> /\ flag' \in BOOLEAN
      /\ pump' \in {"read", "pass", "ask", "forward", "track", "poll", "progress", "revalidate",
                    "respond", "ended"}
  BY DEF PumpStep, StopReading, ReadLine, Pass, ServiceEvaluates, EvaluateFails, Forward, Track,
     WriteStdout, NextLine, PollAnswered, PollGivesUp, PollStops, PollProgress, Revalidate,
     PumpRest, Respond, Write, agentVars, procVars, DriftDenies
<1>2. read' \in 0 .. Len(sent)
  BY Taken DEF PumpStep, StopReading, ReadLine, Pass, ServiceEvaluates, EvaluateFails, Forward,
     Track, WriteStdout, PollAnswered, PollGivesUp, PollStops, PollProgress, Revalidate
<1>3. \/ tasks' = tasks
      \/ NewTask
  BY DEF PumpStep, StopReading, ReadLine, Pass, ServiceEvaluates, EvaluateFails, Forward,
     Track, WriteStdout, PollAnswered, PollGivesUp, PollStops, PollProgress, Revalidate
<1>4. tasks' \in [Places -> {"none", "pending", "approved", "rejected", "expired"}]
  BY <1>3 DEF NewTask
<1>5. \/ NoWrite
      \/ pump \in InHand /\ \E next \in {"read", "track"} : Write(next)
  BY DEF PumpStep, StopReading, ReadLine, Pass, ServiceEvaluates, EvaluateFails, Forward, Track,
     WriteStdout, PollAnswered, PollGivesUp, PollStops, PollProgress, Revalidate, InHand
<1>6. delivered' \subseteq Places /\ late' \in Nat /\ toServer' \in Seq(Lines)
  <2>1. CASE NoWrite
    BY <2>1 DEF NoWrite
  <2>2. ASSUME pump \in InHand, NEW next, Write(next)
        PROVE  delivered' \subseteq Places /\ late' \in Nat /\ toServer' \in Seq(Lines)
    <3>1. Line \in Lines /\ read \in Places
      BY <2>2, Taken DEF Line, SafetyInv, Progress
    <3>2. \/ toServer' = Append(toServer, Line)
          \/ toServer' = toServer
      BY <2>2 DEF Write, NoWrite
    <3>3. toServer' \in Seq(Lines)
      <4>1. toServer \in Seq(Lines)
        OBVIOUS
      <4> HIDE DEF IndInv, TypeOK, Shapes
      <4> QED BY <3>1, <3>2, <4>1
    <3>4. delivered' \subseteq Places
      BY <2>2, <3>1 DEF Write, NoWrite
    <3>5. late' \in Nat
      BY <2>2 DEF Write, NoWrite
    <3> QED BY <3>3, <3>4, <3>5
  <2> QED BY <1>5, <2>1, <2>2
<1>7. refused' \subseteq Places
  <2>1. \/ refused' = refused
        \/ pump \in InHand /\ refused' = refused \cup {read}
    BY DEF PumpStep, StopReading, ReadLine, Pass, ServiceEvaluates, EvaluateFails, Forward, Track,
       WriteStdout, PollAnswered, PollGivesUp, PollStops, PollProgress, Revalidate, DriftDenies,
       Respond, replyVars, InHand
  <2>2. pump \in InHand => read \in Places
    BY Taken DEF SafetyInv, Progress
  <2> QED BY <2>1, <2>2
<1> QED BY <1>1, <1>2, <1>4, <1>6, <1>7

\* And it keeps what is safe.
LEMMA PumpSafe == IndInv /\ PumpStep => SafetyInv'
<1> SUFFICES ASSUME IndInv, PumpStep PROVE SafetyInv'
  OBVIOUS
<1> USE DEF PumpRest, agentVars, procVars, replyVars, NoWrite
<1>1. flag \in BOOLEAN /\ config \in Configs
  BY DEF IndInv, Shapes
<1>2. CASE StopReading \/ PollStops
  BY <1>1, <1>2, Aside DEF StopReading, PollStops
<1>3. CASE Track
  BY <1>1, <1>3, Aside DEF Track
<1>4. CASE ReadLine
  <2> DEFINE l == sent[read + 1]
  <2>1. /\ pump = "read" /\ ~flag /\ read < Len(sent) /\ read' = read + 1
        /\ pump' \in {"read", "pass", "ask"} /\ (pump' = "pass" => Method(l) \in Passthrough)
        /\ UNCHANGED <<config, stub, sent, tasks, permitted, refused, answers, flag, delivered, late>>
    BY <1>4 DEF ReadLine, MayRead
  <2> USE <2>1 DEF IndInv, SafetyInv, InHand
  <2>2. Progress'
    BY Taken DEF Progress
  <2>3. Method(l) \in Passthrough => ~Gated(read)'
    BY DEF Gated, Method, Passthrough, MethodRequiresGates, Governed
  <2>4. HandChecked' /\ NotLate'
    BY <2>3 DEF HandChecked, NotLate, Gated
  <2>5. GovernedDelivery'
    BY DeliveriesStand DEF GovernedDelivery, Gated, LetThrough
  <2>6. RefusalsStand' /\ LateDeliveriesBounded' /\ AnsweredOnce'
    BY DEF DeliveriesSound, RefusalsStand, LateDeliveriesBounded, AnsweredOnce
  <2> QED BY <2>2, <2>4, <2>5, <2>6 DEF DeliveriesSound
<1>5. CASE ServiceEvaluates
  <2>1. /\ pump = "ask" /\ UNCHANGED <<config, stub, sent, read, delivered, late, permitted>>
        /\ flag => flag'
    BY <1>5 DEF ServiceEvaluates
  <2>2. flag' \in BOOLEAN
    BY <1>5, <1>1 DEF ServiceEvaluates
  <2>3. CASE pump' = "forward" /\ Decision(Line) = "forward" /\ UNCHANGED <<tasks, refused, answers>>
    <3>1. HandChecked'
      BY <2>1, <2>3 DEF HandChecked, Gated, LetThrough, Decision, Line, Dev
    <3> QED BY <2>1, <2>2, <2>3, <3>1, Handles DEF InHand
  <2>4. CASE pump' = "poll" /\ NewTask /\ UNCHANGED <<refused, answers>>
    <3>1. HandChecked'
      BY <2>4 DEF HandChecked
    <3>2. \A p \in delivered : tasks'[p] = tasks[p]
      BY <2>1, <2>4 DEF NewTask, IndInv, SafetyInv, Progress, InHand, TypeOK
    <3> QED BY <2>1, <2>2, <2>4, <3>1, <3>2, Handles DEF InHand
  <2>5. CASE Respond("denied") /\ UNCHANGED tasks
    <3>1. HandChecked'
      BY <2>5 DEF HandChecked, Respond
    <3> QED BY <2>1, <2>2, <2>5, <3>1, Handles DEF InHand
  <2> QED BY <1>5, <2>3, <2>4, <2>5 DEF ServiceEvaluates
<1>6. CASE EvaluateFails
  <2>1. pump = "ask" /\ UNCHANGED <<config, stub, sent, read, delivered, late, permitted, flag>>
    BY <1>6 DEF EvaluateFails
  <2>2. \A p \in delivered : tasks'[p] = tasks[p]
    BY <1>6, <2>1 DEF EvaluateFails, NewTask, IndInv, SafetyInv, Progress, InHand, TypeOK
  <2>3. \/ Dev /\ pump' = "forward" /\ UNCHANGED <<refused, answers>>
        \/ Respond("denied")
    BY <1>6 DEF EvaluateFails
  <2>4. HandChecked'
    BY <2>1, <2>3 DEF HandChecked, Gated, Dev, Respond
  <2> QED BY <1>1, <2>1, <2>2, <2>3, <2>4, Handles DEF InHand
<1>7. CASE Forward \/ Pass
  <2>1. Gated(read) => LetThrough(read)
    BY <1>7 DEF Forward, Pass, IndInv, SafetyInv, HandChecked
  <2> QED BY <1>7, <2>1, Writes DEF Forward, Pass, InHand
<1>10. CASE PollProgress
  <2>1. /\ pump \in InHand /\ pump' \in {"poll", "progress"}
        /\ UNCHANGED <<config, stub, sent, read, delivered, late, tasks, refused, answers, flag>>
    BY <1>10 DEF PollProgress, InHand
  <2>2. HandChecked'
    BY <2>1 DEF HandChecked
  <2> QED BY <1>1, <2>1, <2>2, Handles DEF InHand
<1>8. CASE PollAnswered \/ PollGivesUp
  <2>1. /\ pump = "poll" /\ UNCHANGED <<config, stub, sent, read, delivered, late, tasks, flag>>
        /\ \/ /\ pump' = "revalidate" /\ TaskStatusHandler(read) = "approved"
              /\ UNCHANGED <<refused, answers>>
           \/ \E what : Respond(what)
    BY <1>8 DEF PollAnswered, PollGivesUp
  <2>2. HandChecked'
    BY <2>1, LinesAssumption DEF HandChecked, Respond, TaskStatusHandler
  <2> QED BY <1>1, <2>1, <2>2, Handles DEF InHand
<1>9. CASE Revalidate
  <2>1. /\ pump = "revalidate"
        /\ UNCHANGED <<config, stub, sent, read, delivered, late, tasks, flag>>
        /\ \/ pump' = "forward" /\ UNCHANGED <<refused, answers>>
           \/ \E what : Respond(what)
    BY <1>9 DEF Revalidate, DriftDenies
  <2>2. HandChecked'
    BY <2>1 DEF HandChecked, LetThrough, Respond, IndInv, SafetyInv
  <2> QED BY <1>1, <2>1, <2>2, Handles DEF InHand
<1> QED BY <1>2, <1>3, <1>4, <1>5, <1>6, <1>7, <1>8, <1>9, <1>10, Answers DEF PumpStep

\* The other steps keep the types and the shapes.
LEMMA OtherTypes == IndInv /\ (MainStep \/ RelayLine \/ Beat \/ EnvStep) => TypeOK' /\ Shapes'
<1> SUFFICES ASSUME IndInv, MainStep \/ RelayLine \/ Beat \/ EnvStep
             PROVE  TypeOK' /\ Shapes'
  OBVIOUS
<1> USE DEF IndInv, TypeOK, Shapes
<1>1. CASE MainStep
  <2>1. /\ UNCHANGED <<config, sent, read, tasks, toServer, fromServer, delivered, refused, flag,
                      late, stalled>>
        /\ pump' \in {pump, "read"}
    BY <1>1 DEF MainStep, SpawnServer, PollHealthz, SelectEnds, ShutdownServer, MainRest,
       serviceVars, agentVars, serverVars, replyVars
  <2>2. /\ main' \in {"healthz", "exited", "select", "grace", "term", "kill"}
        /\ child' \in {child, "running", "exited"}
    BY <1>1 DEF MainStep, SpawnServer, PollHealthz, SelectEnds, ShutdownServer, Stage
  <2>3. TypeOK'
    BY <2>1, <2>2
  <2>4. Shapes'
    BY <2>1
  <2> QED BY <2>3, <2>4
<1>2. CASE RelayLine
  <2>1. Tail(fromServer) \in Seq(Spoken)
    BY <1>2 DEF RelayLine
  <2> QED BY <1>2, <2>1 DEF RelayLine, serviceVars, agentVars, replyVars, procVars
<1>3. CASE Beat
  BY <1>3 DEF Beat, serviceVars, agentVars, serverVars, replyVars, procVars
<1>4. CASE EnvStep
  <2> USE DEF EnvRest, Fault, agentVars, serverVars, replyVars
  <2>1. CASE \E l \in Lines : AgentWrites(l)
    <3>1. PICK l \in Lines : AgentWrites(l)
      BY <2>1
    <3>2. sent' \in Seq(Lines) /\ Len(sent') = Len(sent) + 1
      BY <3>1 DEF AgentWrites
    <3>3. read' \in 0 .. Len(sent') /\ Len(sent') <= MaxLines
      BY <3>1, <3>2, LinesAssumption DEF AgentWrites
    <3> QED BY <3>1, <3>2, <3>3 DEF AgentWrites
  <2>2. CASE ServerReads
    <3> DEFINE l == Head(toServer)
               answer == [kind |-> "response", id |-> l.id,
                          names |-> IF l.method \in ListMethods THEN Names ELSE None]
    <3>1. l \in Lines /\ Tail(toServer) \in Seq(Lines)
      BY <2>2 DEF ServerReads
    <3>2. answer \in Spoken
      BY <3>1, LinesAssumption DEF Spoken
    <3>3. fromServer' = fromServer \/ fromServer' = Append(fromServer, answer)
      BY <2>2 DEF ServerReads
    <3>4. fromServer \in Seq(Spoken)
      OBVIOUS
    <3> HIDE DEF answer
    <3>5. fromServer' \in Seq(Spoken)
      <4> HIDE DEF IndInv, TypeOK, Shapes
      <4> QED BY <3>2, <3>3, <3>4
    <3> QED BY <2>2, <3>1, <3>5 DEF ServerReads
  <2>3. CASE ServerSpeaks
    <3> DEFINE msg == [kind |-> "other", id |-> None, names |-> None]
    <3>1. msg \in Spoken
      BY DEF Spoken
    <3>2. fromServer \in Seq(Spoken) /\ fromServer' = Append(fromServer, msg)
      BY <2>3 DEF ServerSpeaks
    <3> HIDE DEF msg
    <3>3. fromServer' \in Seq(Spoken)
      <4> HIDE DEF IndInv, TypeOK, Shapes
      <4> QED BY <3>1, <3>2
    <3> QED BY <2>3, <3>3 DEF ServerSpeaks
  <2>4. CASE \E p \in Places, o \in {"approved", "rejected", "expired"} : Decides(p, o)
    BY <2>4 DEF Decides
  <2>5. CASE AgentCloses \/ ServerEnds \/ TriggerShutdown \/ ServiceDies
    <3>1. /\ UNCHANGED <<config, sent, read, pump, tasks, toServer, fromServer, delivered, refused,
                        flag, late, main, stalled>>
          /\ child' \in {child, "exited", "mute"}
      BY <2>5 DEF AgentCloses, ServerEnds, TriggerShutdown, ServiceDies
    <3> QED BY <3>1
  <2>6. CASE \E s \in Policies : PolicyChanges(s)
    BY <2>6 DEF PolicyChanges
  <2>7. CASE \E end \in {"agent", "server"} : Stalls(end) \/ Resumes(end)
    <3>1. /\ UNCHANGED <<config, sent, read, pump, tasks, toServer, fromServer, delivered, refused,
                        flag, late, main, child>>
          /\ stalled' \subseteq {"agent", "server"}
      BY <2>7 DEF Stalls, Resumes
    <3> QED BY <3>1
  <2> QED BY <1>4, <2>1, <2>2, <2>3, <2>4, <2>5, <2>6, <2>7 DEF EnvStep
<1> QED BY <1>1, <1>2, <1>3, <1>4

\* And they keep what is safe.
LEMMA OtherSafe == IndInv /\ (MainStep \/ RelayLine \/ Beat \/ EnvStep) => SafetyInv'
<1> SUFFICES ASSUME IndInv, MainStep \/ RelayLine \/ Beat \/ EnvStep
             PROVE  SafetyInv'
  OBVIOUS
<1> USE DEF serviceVars, agentVars, serverVars, replyVars, procVars
<1>1. UNCHANGED <<config, stub, read, delivered, refused, answers, late>>
  BY DEF MainStep, SpawnServer, PollHealthz, SelectEnds, ShutdownServer, MainRest, RelayLine,
     Beat, EnvStep, AgentWrites, AgentCloses, ServerReads, ServerEnds, TriggerShutdown,
     ServiceDies, ServerSpeaks, Decides, PolicyChanges, Stalls, Resumes, EnvRest
<1>2. pump' = pump \/ pump' = "read"
  BY DEF MainStep, SpawnServer, PollHealthz, SelectEnds, ShutdownServer, MainRest, RelayLine,
     Beat, EnvStep, AgentWrites, AgentCloses, ServerReads, ServerEnds, TriggerShutdown,
     ServiceDies, ServerSpeaks, Decides, PolicyChanges, Stalls, Resumes, EnvRest
<1>3. flag' = flag \/ flag' = TRUE
  BY DEF MainStep, SpawnServer, PollHealthz, SelectEnds, ShutdownServer, MainRest, RelayLine,
     Beat, EnvStep, AgentWrites, AgentCloses, ServerReads, ServerEnds, TriggerShutdown,
     ServiceDies, ServerSpeaks, Decides, PolicyChanges, Stalls, Resumes, EnvRest
<1>4. sent' = sent \/ \E l \in Lines : sent' = Append(sent, l)
  BY DEF MainStep, SpawnServer, PollHealthz, SelectEnds, ShutdownServer, MainRest, RelayLine,
     Beat, EnvStep, AgentWrites, AgentCloses, ServerReads, ServerEnds, TriggerShutdown,
     ServiceDies, ServerSpeaks, Decides, PolicyChanges, Stalls, Resumes, EnvRest
<1>5. \A p \in Places : tasks[p] = "approved" => tasks'[p] = "approved"
  <2>1. tasks' = tasks \/ \E p \in Places, o \in {"approved", "rejected", "expired"} : Decides(p, o)
    BY DEF MainStep, SpawnServer, PollHealthz, SelectEnds, ShutdownServer, MainRest, RelayLine,
       Beat, EnvStep, AgentWrites, AgentCloses, ServerReads, ServerEnds, TriggerShutdown,
       ServiceDies, ServerSpeaks, PolicyChanges, Stalls, Resumes
  <2> QED BY <2>1 DEF Decides, IndInv, TypeOK
<1>6. (flag => flag') /\ flag' \in BOOLEAN
  BY <1>3, Zenon DEF IndInv, Shapes
<1> QED BY <1>1, <1>2, <1>4, <1>5, <1>6, Aside

\* So does a step that changes nothing.
LEMMA Unmoved == IndInv /\ UNCHANGED vars => IndInv'
<1> SUFFICES ASSUME IndInv, UNCHANGED vars PROVE IndInv'
  OBVIOUS
<1> USE DEF IndInv, vars, serviceVars, agentVars, serverVars, replyVars, procVars
<1>1. TypeOK' /\ Shapes'
  BY DEF TypeOK, Shapes
<1>2. SafetyInv'
  BY Aside DEF Shapes
<1> QED BY <1>1, <1>2

-----------------------------------------------------------------------------
(* Theorems *)

\* The invariant holds in every state of every behaviour.
THEOREM Inductive == Spec => []IndInv
<1>1. IndInv /\ [Next]_vars => IndInv'
  BY PumpTypes, PumpSafe, OtherTypes, OtherSafe, Unmoved DEF Next, IndInv
<1> QED BY InitInd, <1>1, PTL DEF Spec

\* The variables keep the types Shim declares.
THEOREM TypeCorrect == Spec => []TypeOK
<1>1. IndInv => TypeOK
  BY DEF IndInv
<1> QED BY Inductive, <1>1, PTL

\* In production, whatever fails on the way, a governed request with a name
\* reaches the server only when the gates forward that name outright or a
\* reviewer approved this very line; no line the pump refused reaches it, the
\* ones refused after their approval included; and once the service has signalled
\* shutdown at most one line, the one in hand, is still written.
THEOREM DeliveriesAreSound == Spec => []DeliveriesSound
<1>1. IndInv => DeliveriesSound
  BY DEF IndInv, SafetyInv
<1> QED BY Inductive, <1>1, PTL

\* A line the shim answered itself is never written to the server, and is
\* answered once.
THEOREM AnsweredAtMostOnce == Spec => []AnsweredOnce
<1>1. IndInv => AnsweredOnce
  BY DEF IndInv, SafetyInv
<1> QED BY Inductive, <1>1, PTL

-----------------------------------------------------------------------------
(* Wrap: the invariant *)

O == Original("config")

\* From the lock to its release.
BesideSteps == {"beside", "besideRead", "besideBacked", "besideDone"}
ArmedSteps == {"armed", "running", "waiting", "cleanup", "restore", "copy", "remove", "drop"}
Holding(i) ==
    \/ pc[i] \in {"locked", "read", "backed", "written"} \cup ArmedSteps
    \/ pc[i] \in BesideSteps /\ ~dryRun[i]

\* The process has rewritten the configuration and not begun to restore it.
Rewritten(i) ==
    \/ pc[i] \in {"written", "armed", "running", "waiting", "cleanup", "restore"}
    \/ pc[i] \in BesideSteps /\ ~dryRun[i]

\* Between the rewrite and its end, when a panic hook may still copy.
HookSteps == {"armed", "running", "waiting", "cleanup", "restore"}

\* Every process sees the same entries, and no panic hook was at work while its
\* own process restored.
Calm == SingleScope /\ ~raced

\* What the variables without a type of their own have to be.
WrapShapes ==
    /\ layout \in Layouts /\ mishaps \in Nat
    /\ DOMAIN disk = Files /\ DOMAIN backup = Files /\ DOMAIN pc = Instances
    /\ DOMAIN servers = Instances /\ DOMAIN image = Instances /\ DOMAIN armed = Instances
    /\ DOMAIN restored = Instances /\ DOMAIN loaded = Instances
    /\ DOMAIN hook = Instances /\ disk["project"] \in Contents("project")
    /\ panicked => mishaps # 0
    /\ raced \/ (\E i \in Instances : hook[i] # Absent) => panicked
    /\ \A i \in Instances :
        /\ \A id \in DOMAIN servers[i] : servers[i][id] \in Seq(Instances)
        /\ layout.adapter.beside = "ignored" => DOMAIN servers[i] \subseteq OwnIds(i, "config")
        /\ pc[i] \in {"read", "backed"} => image[i] \in Contents("config")
        /\ pc[i] \in {"besideRead", "besideBacked"} => image[i] \in Contents("project")

\* The holder of the lock is the only process past it, and only such a process
\* or one that has just let go of it has the panic hook set.
LockExclusive ==
    \A i \in Instances :
        /\ Holding(i) => lock = i
        /\ pc[i] = "dry" => dryRun[i]
        /\ pc[i] \in {"parsed", "locked", "read", "backed", "written"} => ~dryRun[i]
        /\ armed[i] /\ pc[i] \notin Ended => pc[i] \in ArmedSteps \cup {"clear"}

\* What was read is still on disk when it is written over, and a backup exists
\* from then until the process removes it.
ImageFresh ==
    \A i \in Instances :
        /\ ~raced /\ pc[i] \in {"read", "backed"} =>
            /\ disk["config"] = image[i]
            /\ \A e \in Entries("config") : InScope(i, e) => image[i][e.id] = <<>>
        /\ pc[i] = "backed" \/ Rewritten(i) \/ pc[i] \in {"copy", "remove"} =>
            backup["config"] \in Contents("config") \cup {Torn}

\* A panic hook copies the backup of its own process.
HookFresh ==
    ~raced => \A i \in Instances :
        hook[i] # Absent /\ pc[i] \notin Ended => pc[i] \in HookSteps /\ hook[i] = backup["config"]

\* No failure so far, and no process that was told not to restore.
Undisturbed == mishaps = 0 /\ \A i \in Instances : ~noRestore[i]

\* The only backups there are hold the original, whenever it is needed.
BackupsGenuine ==
    (Calm \/ Undisturbed) =>
        /\ backup["config"] \in {Absent, O} /\ (disk["config"] = O \/ backup["config"] = O)
        /\ \A i \in Instances :
            /\ pc[i] = "backed" \/ Rewritten(i) \/ pc[i] = "copy" => backup["config"] = O
            /\ pc[i] \in {"read", "backed", "remove"} => disk["config"] = O

\* With one scope, nothing outside it is ever rewritten.
OutsideUntouched ==
    (Calm /\ disk["config"] # Torn) =>
        \A i \in Instances, e \in Entries("config") : ~InScope(i, e) => disk["config"][e.id] = <<>>

\* Undisturbed, the file differs from the original only while a process that
\* will restore it is at work.
ChangesOwned ==
    Undisturbed =>
        /\ disk["config"] = O \/ \E i \in Instances : Rewritten(i) \/ pc[i] = "copy"
        /\ \A i \in Instances : pc[i] \in ArmedSteps \ {"copy", "remove", "drop"} => ~restored[i]

\* A process's rewrite stays until it begins to restore, but for a panic.
Stands ==
    ~panicked => \A i \in Instances : Rewritten(i) =>
        \A id \in DOMAIN servers[i] \cap OwnIds(i, "config") :
            disk["config"][id] = Append(servers[i][id], i)

WrapInd ==
    /\ WrapTypeOK /\ WrapShapes
    /\ LockExclusive /\ ImageFresh /\ HookFresh
    /\ BackupsGenuine /\ OutsideUntouched /\ ChangesOwned
    /\ Stands /\ AgentGoverned

-----------------------------------------------------------------------------
(* Facts about one state *)

\* The lock keeps every other process out.
LEMMA Alone ==
    ASSUME LockExclusive, NEW i \in Instances, NEW j \in Instances, Holding(i), j # i
    PROVE  /\ ~Holding(j) /\ ~Rewritten(j)
           /\ pc[j] \notin {"read", "backed", "copy", "remove"} \cup ArmedSteps
BY DEF LockExclusive, Holding, Rewritten, ArmedSteps, BesideSteps

\* A configuration with no shim in it is the original.
LEMMA Untouched ==
    ASSUME NEW c \in Contents("config"), \A e \in Entries("config") : c[e.id] = <<>>
    PROVE  c = O
BY DEF Contents, O, Original, ServerIds

\* Processes that share their scope see the same entries.
LEMMA OneScope ==
    ASSUME SingleScope, NEW i \in Instances, NEW j \in Instances, NEW e
    PROVE  InScope(i, e) <=> InScope(j, e)
BY DEF SingleScope, InScope

\* A file that passes the check for an earlier wrap is the original, when
\* there is one scope or nothing has gone wrong.
LEMMA WrappableIsOriginal ==
    ASSUME WrapInd, NEW i \in Instances, Holding(i), ~Rewritten(i), pc[i] # "copy",
           Wrappable(i, "config"), Calm \/ Undisturbed
    PROVE  disk["config"] = O
<1>1. CASE Calm
  <2>1. disk["config"] \in Contents("config") /\ disk["config"] # Torn
    BY DEF Wrappable, WrapInd, WrapTypeOK, Files
  <2>2. \A e \in Entries("config") : disk["config"][e.id] = <<>>
    BY <1>1, <2>1 DEF Wrappable, DoubleWrap, WrapInd, OutsideUntouched
  <2> QED BY <2>1, <2>2, Untouched
<1>2. CASE Undisturbed
  BY <1>2, Alone DEF WrapInd, ChangesOwned
<1> QED BY <1>1, <1>2

-----------------------------------------------------------------------------
(* Steps that leave the main configuration alone *)

\* What such a step of process i may do to the state.
Quiet(i) ==
    /\ UNCHANGED <<fixed, disk["config"], backup["config"]>>
    /\ \A j \in Instances \ {i} :
        /\ pc'[j] = pc[j] /\ servers'[j] = servers[j] /\ image'[j] = image[j]
        /\ armed'[j] = armed[j] /\ restored'[j] = restored[j]
    /\ \A j \in Instances \ {i} : lock = j => lock' = j
    /\ panicked' = panicked /\ (raced => raced') /\ (mishaps' = 0 => mishaps = 0)
    /\ hook' = hook /\ pc[i] \notin Ended
    /\ ~raced' /\ hook[i] # Absent /\ pc[i] \in HookSteps => pc'[i] \in HookSteps \cup Ended
    /\ Holding(i)' => lock' = i
    /\ pc'[i] = "dry" => dryRun[i]
    /\ pc'[i] \in {"parsed", "locked", "read", "backed", "written"} => ~dryRun[i]
    /\ armed'[i] /\ pc'[i] \notin Ended => pc'[i] \in ArmedSteps \cup {"clear"}
    /\ Rewritten(i)' => Rewritten(i) /\ servers'[i] = servers[i]
    /\ pc'[i] \in {"backed", "copy", "remove"} => pc'[i] = pc[i] /\ image'[i] = image[i]
    /\ pc'[i] = "read" =>
        \/ pc[i] = "read" /\ image'[i] = image[i]
        \/ pc[i] = "locked" /\ Wrappable(i, "config") /\ image'[i] = disk["config"]
    /\ Undisturbed' =>
        /\ Rewritten(i) \/ pc[i] = "copy" => Rewritten(i)' \/ pc'[i] = "copy"
        /\ pc'[i] \in ArmedSteps \ {"copy", "remove", "drop"} => ~restored'[i]

\* A step that writes no shared file keeps what is safe.
LEMMA QuietSafe ==
    ASSUME WrapInd, NEW i \in Instances, Quiet(i)
    PROVE  /\ LockExclusive' /\ ImageFresh' /\ BackupsGenuine' /\ OutsideUntouched'
           /\ ChangesOwned' /\ Stands' /\ HookFresh'
<1> USE DEF WrapInd, fixed
<1>1. \A j \in Instances \ {i} : (Holding(j)' <=> Holding(j)) /\ (Rewritten(j)' <=> Rewritten(j))
  BY DEF Quiet, Holding, Rewritten
<1>2. LockExclusive'
  BY <1>1 DEF Quiet, LockExclusive
<1>3. ASSUME pc'[i] = "read", pc[i] = "locked"
      PROVE  /\ Holding(i) /\ ~Rewritten(i) /\ pc[i] # "copy" /\ Wrappable(i, "config")
             /\ image'[i] = disk["config"]
  BY <1>3 DEF Quiet, Holding, Rewritten, BesideSteps
<1>4. ImageFresh'
  <2>1. ASSUME NEW j \in Instances, ~raced', pc'[j] \in {"read", "backed"}
        PROVE  /\ disk["config"] = image'[j]
               /\ \A e \in Entries("config") : InScope(j, e) => image'[j][e.id] = <<>>
    <3>1. CASE j = i /\ pc[i] = "locked"
      BY <1>3, <2>1, <3>1 DEF Quiet, Wrappable, DoubleWrap
    <3>2. CASE ~(j = i /\ pc[i] = "locked")
      BY <2>1, <3>2 DEF Quiet, ImageFresh
    <3> QED BY <3>1, <3>2
  <2>2. \A j \in Instances : \A e : InScope(j, e)' <=> InScope(j, e)
    BY DEF Quiet, InScope
  <2>3. Entries("config")' = Entries("config") /\ Contents("config")' = Contents("config")
    BY DEF Quiet, Entries, Contents, ServerIds
  <2>4. ASSUME NEW j \in Instances,
               pc'[j] = "backed" \/ Rewritten(j)' \/ pc'[j] \in {"copy", "remove"}
        PROVE  backup["config"] \in Contents("config") \cup {Torn}
    BY <1>1, <2>4 DEF Quiet, ImageFresh
  <2> QED BY <2>1, <2>2, <2>3, <2>4 DEF Quiet, ImageFresh
<1>5. BackupsGenuine'
  <2>1. Calm' => Calm
    BY DEF Quiet, Calm, SingleScope
  <2>2. Undisturbed' => Undisturbed
    BY DEF Quiet, Undisturbed
  <2>3. O' = O
    BY DEF Quiet, O, Original, ServerIds, Entries
  <2>4. ASSUME Calm \/ Undisturbed, pc'[i] = "read", pc[i] = "locked"
        PROVE  disk["config"] = O
    BY <1>3, <2>4, WrappableIsOriginal
  <2> QED BY <1>1, <2>1, <2>2, <2>3, <2>4 DEF Quiet, BackupsGenuine
<1>6. OutsideUntouched'
  BY DEF Quiet, OutsideUntouched, Calm, SingleScope, InScope, Entries
<1>7. ChangesOwned'
  <2>1. Undisturbed' => Undisturbed
    BY DEF Quiet, Undisturbed
  <2>2. O' = O
    BY DEF Quiet, O, Original, ServerIds, Entries
  <2> QED BY <1>1, <2>1, <2>2 DEF Quiet, ChangesOwned
<1>8. Stands'
  <2>1. \A j \in Instances : OwnIds(j, "config")' = OwnIds(j, "config")
    BY DEF Quiet, OwnIds, Entries, InScope
  <2> QED BY <1>1, <2>1 DEF Quiet, Stands
<1>9. HookFresh'
  BY DEF Quiet, HookFresh
<1> QED BY <1>2, <1>4, <1>5, <1>6, <1>7, <1>8, <1>9

\* When a restore and a panic hook of one process meet.
LEMMA RestoreRaces ==
    ASSUME NEW i \in Instances, Restore(i) PROVE raced' <=> raced \/ hook[i] # Absent
BY Zenon DEF Restore

LEMMA PanicRaces ==
    ASSUME NEW i \in Instances, TaskPanics(i) PROVE panicked' /\ (raced' <=> raced \/ pc[i] \in Restoring)
BY Zenon DEF TaskPanics

\* These steps write none.
LEMMA QuietSteps ==
    ASSUME WrapInd, NEW i \in Instances,
           \/ ParseServers(i) \/ SetupFails(i) \/ Lock(i) \/ ReadConfig(i) \/ BesideNext(i)
           \/ Arm(i) \/ SpawnAgent(i) \/ AgentExits(i) \/ Signal(i) \/ HandleSignalShutdown(i)
           \/ KillAgent(i) \/ WrapCleanup(i) \/ DropGuard(i) \/ ClearPanicRestore(i) \/ Crash(i)
           \/ CopyBackup(i) /\ pc'[i] # "remove"
           \/ BackupConfig(i) /\ pc'[i] # "backed"
           \/ WriteConfig(i) /\ pc'[i] # "written"
           \/ Restore(i) /\ pc'[i] # "copy"
    PROVE  Quiet(i)
<1> USE WrapAssumption
    DEF WrapInd, WrapShapes, LockExclusive, Quiet, fixed, instanceVars, Goto, Holding, Rewritten, ArmedSteps,
        BesideSteps, HookSteps, Undisturbed, Ended, panicVars
<1>1. CASE ParseServers(i)
  BY <1>1 DEF ParseServers
<1>2. CASE SetupFails(i)
  BY <1>2 DEF SetupFails, Mishap
<1>3. CASE Lock(i)
  BY <1>3 DEF Lock, LockFree
<1>4. CASE ReadConfig(i)
  BY <1>4 DEF ReadConfig, RewriteFails, Unlock, FileAt, RunDryRun, After
<1>5. CASE BesideNext(i)
  BY <1>5 DEF BesideNext
<1>6. CASE Arm(i)
  BY <1>6 DEF Arm, SkipRestore
<1>7. CASE SpawnAgent(i)
  BY <1>7 DEF SpawnAgent, Mishap, NoMishap, ChangesOwned
<1>8. CASE AgentExits(i) \/ Signal(i) \/ HandleSignalShutdown(i) \/ KillAgent(i) \/ WrapCleanup(i)
  BY <1>8 DEF AgentExits, Signal, HandleSignalShutdown, KillAgent, Kills, WrapCleanup, ChangesOwned
<1>9. CASE DropGuard(i) \/ ClearPanicRestore(i)
  BY <1>9 DEF DropGuard, ClearPanicRestore, Unlock
<1>10. CASE Crash(i)
  BY <1>10 DEF Crash, Unlock, Mishap
<1>11. CASE BackupConfig(i) /\ pc'[i] # "backed"
  BY <1>11 DEF BackupConfig, RewriteFails, Unlock, FileAt, After, Mishap, NoMishap, Files
<1>12. CASE WriteConfig(i) /\ pc'[i] # "written"
  BY <1>12 DEF WriteConfig, RewriteFails, Unlock, FileAt, After, Mishap, NoMishap, Files
<1>13. CASE Restore(i) /\ pc'[i] # "copy"
  <2>1. /\ raced => raced'
        /\ ~raced' /\ hook[i] # Absent /\ pc[i] \in HookSteps => pc'[i] \in HookSteps \cup Ended
    BY <1>13, RestoreRaces
  <2> QED BY <1>13, <2>1 DEF Restore, Mishap, NoMishap, ChangesOwned
<1>14. CASE CopyBackup(i) /\ pc'[i] # "remove"
  BY <1>14 DEF CopyBackup, Mishap, NoMishap
<1> QED BY <1>1, <1>2, <1>3, <1>4, <1>5, <1>6, <1>7, <1>8, <1>9, <1>10, <1>11, <1>12, <1>13, <1>14

-----------------------------------------------------------------------------
(* Steps that change the main configuration or its backup *)

\* Such a step is taken under the lock, so that its own process is the only one
\* the invariant has to be shown for.
Loud(i) ==
    /\ Holding(i) /\ Holding(i)' /\ UNCHANGED <<fixed, lock>>
    /\ \A j \in Instances \ {i} :
        /\ pc'[j] = pc[j] /\ servers'[j] = servers[j] /\ image'[j] = image[j]
        /\ armed'[j] = armed[j] /\ restored'[j] = restored[j] /\ hook'[j] = hook[j]
    /\ (panicked => panicked') /\ (raced => raced') /\ (mishaps' = 0 => mishaps = 0)
    /\ pc'[i] \notin {"dry", "parsed", "locked"}
    /\ pc'[i] \in {"read", "backed", "written"} => ~dryRun[i]
    /\ armed'[i] /\ pc'[i] \notin Ended => pc'[i] \in ArmedSteps \cup {"clear"}

\* What has to be shown.
HolderInv(i) ==
    /\ ~raced /\ pc[i] \in {"read", "backed"} =>
        /\ disk["config"] = image[i]
        /\ \A e \in Entries("config") : InScope(i, e) => image[i][e.id] = <<>>
    /\ ~raced /\ hook[i] # Absent /\ pc[i] \notin Ended =>
        pc[i] \in HookSteps /\ hook[i] = backup["config"]
    /\ pc[i] = "backed" \/ Rewritten(i) \/ pc[i] \in {"copy", "remove"} =>
        backup["config"] \in Contents("config") \cup {Torn}
    /\ (Calm \/ Undisturbed) =>
        /\ backup["config"] \in {Absent, O} /\ (disk["config"] = O \/ backup["config"] = O)
        /\ pc[i] = "backed" \/ Rewritten(i) \/ pc[i] = "copy" => backup["config"] = O
        /\ pc[i] \in {"read", "backed", "remove"} => disk["config"] = O
    /\ Undisturbed =>
        /\ disk["config"] = O \/ Rewritten(i) \/ pc[i] = "copy"
        /\ pc[i] \in ArmedSteps \ {"copy", "remove", "drop"} => ~restored[i]
    /\ ~panicked /\ Rewritten(i) =>
        \A id \in DOMAIN servers[i] \cap OwnIds(i, "config") :
            disk["config"][id] = Append(servers[i][id], i)

\* A step of the holder that keeps its own part keeps all that is safe.
LEMMA LoudSafe ==
    ASSUME WrapInd, NEW i \in Instances, Loud(i), HolderInv(i)', OutsideUntouched'
    PROVE  /\ LockExclusive' /\ ImageFresh' /\ BackupsGenuine' /\ OutsideUntouched'
           /\ ChangesOwned' /\ Stands' /\ HookFresh'
<1>1. LockExclusive'
  <2>1. \A j \in Instances \ {i} : Holding(j)' <=> Holding(j)
    BY DEF Loud, Holding, fixed
  <2> QED BY <2>1 DEF WrapInd, Loud, LockExclusive, fixed
<1>2. \A j \in Instances \ {i} :
        /\ ~Rewritten(j)'
        /\ pc'[j] \notin {"read", "backed", "copy", "remove"} \cup ArmedSteps
  BY Alone DEF WrapInd, Loud, fixed, Rewritten
<1>3. ImageFresh' /\ BackupsGenuine' /\ ChangesOwned' /\ Stands'
  BY <1>2 DEF HolderInv, ImageFresh, BackupsGenuine, ChangesOwned, Stands
<1>4. HookFresh'
  <2>1. ASSUME ~raced', NEW j \in Instances \ {i}, hook'[j] # Absent PROVE pc'[j] \in Ended
    BY <1>2, <2>1 DEF WrapInd, Loud, HookFresh, HookSteps, ArmedSteps
  <2> QED BY <2>1 DEF HolderInv, HookFresh
<1> QED BY <1>1, <1>3, <1>4

\* The definitions that read only what no step changes.
LEMMA Fixed ==
    ASSUME UNCHANGED fixed
    PROVE  /\ O' = O /\ (SingleScope' <=> SingleScope)
           /\ (raced => raced') => (Calm' => Calm)
           /\ \A f : Entries(f)' = Entries(f) /\ Contents(f)' = Contents(f)
           /\ \A i, e : InScope(i, e)' <=> InScope(i, e)
           /\ \A i, f : OwnIds(i, f)' = OwnIds(i, f)
           /\ (mishaps' = 0 => mishaps = 0) => (Undisturbed' => Undisturbed)
BY DEF fixed, O, Original, ServerIds, Entries, SingleScope, Calm, Contents, InScope, OwnIds, Undisturbed

\* The steps that write are the holder's, and keep its part.
LEMMA LoudSteps ==
    ASSUME WrapInd, NEW i \in Instances,
           \/ BackupConfig(i) /\ pc'[i] = "backed"
           \/ WriteConfig(i) /\ pc'[i] = "written"
           \/ Restore(i) /\ pc'[i] = "copy"
           \/ CopyBackup(i) /\ pc'[i] = "remove"
           \/ RemoveBackup(i)
           \/ (TaskPanics(i) \/ HookCopies(i)) /\ ~raced'
    PROVE  Loud(i) /\ HolderInv(i)' /\ OutsideUntouched'
<1> USE DEF WrapInd, WrapShapes, panicVars
<1>0. ASSUME ~raced, pc[i] \notin HookSteps \cup Ended PROVE hook[i] = Absent
  BY <1>0 DEF HookFresh
<1>1. CASE BackupConfig(i) /\ pc'[i] = "backed"
  <2>1. /\ pc[i] = "read" /\ backup'["config"] = disk["config"]
        /\ UNCHANGED <<disk, image, servers, fixed, panicVars, mishaps>>
    BY <1>1 DEF BackupConfig, Goto, FileAt, After, RewriteFails, Files, NoMishap
  <2>2. Loud(i)
    BY <1>1, <2>1 DEF Loud, BackupConfig, Goto, RewriteFails, FileAt, Holding, NoMishap, Mishap,
       ArmedSteps, BesideSteps, LockExclusive, Ended, fixed
  <2>3. HolderInv(i)'
    <3>1. /\ disk["config"] \in Contents("config") \cup {Torn}
          /\ ~raced =>
                /\ disk["config"] = image[i]
                /\ \A e \in Entries("config") : InScope(i, e) => image[i][e.id] = <<>>
          /\ (Calm \/ Undisturbed) => disk["config"] = O
      BY <2>1 DEF ImageFresh, BackupsGenuine, WrapTypeOK, Files
    <3>2. ~Rewritten(i)' /\ pc'[i] \notin ArmedSteps
      BY <1>1 DEF Rewritten, BesideSteps, ArmedSteps
    <3>3. ~raced => hook[i] = Absent
      BY <1>0, <2>1 DEF HookSteps, Ended
    <3> QED BY <1>1, <2>1, <3>1, <3>2, <3>3, Fixed DEF HolderInv
  <2>4. OutsideUntouched'
    BY <2>1, Fixed DEF OutsideUntouched
  <2> QED BY <2>2, <2>3, <2>4
<1>2. CASE WriteConfig(i) /\ pc'[i] = "written"
  <2>1. /\ pc[i] = "backed" /\ disk'["config"] = Rewrite(i)
        /\ UNCHANGED <<backup, image, servers, fixed, panicVars, mishaps>>
    BY <1>2 DEF WriteConfig, Goto, FileAt, After, RewriteFails, Files, NoMishap
  <2>2. Loud(i)
    BY <1>2, <2>1 DEF Loud, WriteConfig, Goto, RewriteFails, FileAt, Holding, NoMishap, Mishap,
       ArmedSteps, BesideSteps, LockExclusive, Ended, fixed
  <2>3. /\ image[i] \in Contents("config") /\ (~raced => hook[i] = Absent /\ disk["config"] = image[i])
        /\ backup["config"] \in Contents("config") \cup {Torn}
        /\ (Calm \/ Undisturbed) => disk["config"] = O /\ backup["config"] = O
    BY <1>0, <2>1 DEF ImageFresh, BackupsGenuine, HookSteps, Ended
  <2>4. \A id \in DOMAIN servers[i] \cap OwnIds(i, "config") :
            Rewrite(i)[id] = Append(servers[i][id], i)
    BY <2>1, <2>3 DEF Rewrite, ShimInFront, FileAt, Contents, ServerIds, OwnIds
  <2>5. HolderInv(i)'
    <3>1. Rewritten(i)' /\ pc'[i] \notin ArmedSteps
      BY <1>2 DEF Rewritten, ArmedSteps
    <3> QED BY <1>2, <2>1, <2>3, <2>4, <3>1, Fixed DEF HolderInv
  <2>6. OutsideUntouched'
    <3>1. ASSUME Calm, NEW j \in Instances, NEW e \in Entries("config"), ~InScope(j, e)
          PROVE  Rewrite(i)[e.id] = <<>>
      <4>1. ~InScope(i, e)
        BY <3>1, OneScope DEF Calm
      <4>2. e.id \notin OwnIds(i, "config")
        BY <4>1, WrapAssumption DEF OwnIds, Entries, Files
      <4>3. e.id \in DOMAIN image[i] /\ image[i][e.id] = <<>>
        BY <2>3, <3>1 DEF O, Original, ServerIds, Calm
      <4> QED BY <2>1, <4>2, <4>3 DEF Rewrite, FileAt
    <3> QED BY <2>1, <3>1, Fixed DEF OutsideUntouched
  <2> QED BY <2>2, <2>5, <2>6
<1>3. CASE Restore(i) /\ pc'[i] = "copy"
  <2>1. /\ pc[i] = "restore" /\ disk'["config"] = Torn
        /\ raced' <=> raced \/ hook[i] # Absent
        /\ UNCHANGED <<backup, image, servers, fixed, hook, panicked, mishaps>>
    BY <1>3, RestoreRaces DEF Restore, Goto, Files, NoMishap
  <2>2. Loud(i)
    BY <1>3, <2>1 DEF Loud, Restore, Goto, Holding, NoMishap, Mishap, ArmedSteps, LockExclusive,
       Ended, fixed
  <2>3. /\ backup["config"] \in Contents("config") \cup {Torn}
        /\ (Calm \/ Undisturbed) => backup["config"] = O
    BY <2>1 DEF ImageFresh, BackupsGenuine, Rewritten
  <2>4. HolderInv(i)'
    <3>1. ~Rewritten(i)'
      BY <1>3 DEF Rewritten, BesideSteps
    <3> QED BY <1>3, <2>1, <2>3, <3>1, Fixed DEF HolderInv
  <2>5. OutsideUntouched'
    BY <2>1 DEF OutsideUntouched
  <2> QED BY <2>2, <2>4, <2>5
<1>4. CASE CopyBackup(i) /\ pc'[i] = "remove"
  <2>1. /\ pc[i] = "copy" /\ disk'["config"] = backup["config"]
        /\ UNCHANGED <<backup, image, servers, fixed, panicVars, mishaps>>
    BY <1>4 DEF CopyBackup, Goto, Files, NoMishap
  <2>2. Loud(i)
    BY <1>4, <2>1 DEF Loud, CopyBackup, Goto, Holding, ArmedSteps, LockExclusive, Ended, fixed
  <2>3. /\ backup["config"] \in Contents("config") \cup {Torn}
        /\ (Calm \/ Undisturbed) => backup["config"] = O
        /\ ~raced => hook[i] = Absent
    BY <1>0, <2>1 DEF ImageFresh, BackupsGenuine, HookSteps, Ended
  <2>4. HolderInv(i)'
    <3>1. ~Rewritten(i)'
      BY <1>4 DEF Rewritten, BesideSteps
    <3> QED BY <1>4, <2>1, <2>3, <3>1, Fixed DEF HolderInv
  <2>5. OutsideUntouched'
    <3>1. ASSUME Calm, NEW e \in Entries("config") PROVE disk'["config"][e.id] = <<>>
      BY <2>1, <2>3, <3>1 DEF O, Original, ServerIds
    <3> QED BY <2>1, <3>1, Fixed DEF OutsideUntouched
  <2> QED BY <2>2, <2>4, <2>5
<1>5. CASE RemoveBackup(i)
  <2>1. /\ pc[i] = "remove" /\ pc'[i] = "drop" /\ backup'["config"] = Absent
        /\ UNCHANGED <<disk, image, servers, fixed, panicVars, mishaps>>
    BY <1>5 DEF RemoveBackup, Goto, Files
  <2>2. Loud(i)
    BY <1>5, <2>1 DEF Loud, RemoveBackup, Goto, Holding, ArmedSteps, LockExclusive, Ended, fixed
  <2>3. ((Calm \/ Undisturbed) => disk["config"] = O) /\ (~raced => hook[i] = Absent)
    BY <1>0, <2>1 DEF BackupsGenuine, HookSteps, Ended
  <2>4. HolderInv(i)'
    <3>1. ~Rewritten(i)'
      BY <2>1 DEF Rewritten, BesideSteps
    <3> QED BY <2>1, <2>3, <3>1, Fixed DEF HolderInv
  <2>5. OutsideUntouched'
    BY <2>1, Fixed DEF OutsideUntouched
  <2> QED BY <2>2, <2>4, <2>5
<1>6. CASE (TaskPanics(i) \/ HookCopies(i)) /\ ~raced'
  <2>1. /\ pc[i] \in HookSteps /\ hook'[i] \in {Absent, backup["config"]}
        /\ disk'["config"] \in {Torn, backup["config"], disk["config"]}
        /\ UNCHANGED <<backup, instanceVars, fixed, lock>> /\ ~raced
        /\ \A j \in Instances \ {i} : hook'[j] = hook[j]
        /\ panicked' /\ mishaps' # 0
    <3>1. CASE TaskPanics(i)
      <4>1. pc[i] \in HookSteps /\ ~raced /\ panicked'
        BY <1>6, <3>1, PanicRaces DEF TaskPanics, LockExclusive, HookSteps, ArmedSteps, Restoring
      <4>2. mishaps' # 0
        BY <3>1 DEF TaskPanics, Mishap
      <4> QED BY <3>1, <4>1, <4>2 DEF TaskPanics, Files
    <3>2. CASE HookCopies(i)
      BY <1>6, <3>2 DEF HookCopies, HookFresh, Files
    <3> QED BY <1>6, <3>1, <3>2
  <2>2. Loud(i)
    BY <2>1 DEF Loud, Holding, HookSteps, ArmedSteps, LockExclusive, fixed, instanceVars, Ended
  <2>3. ~Undisturbed'
    BY <2>1 DEF Undisturbed
  <2>4. /\ backup["config"] \in Contents("config") \cup {Torn}
        /\ Calm => backup["config"] = O
    BY <2>1 DEF ImageFresh, BackupsGenuine, Rewritten, HookSteps
  <2>5. HolderInv(i)'
    <3>1. pc'[i] \notin {"read", "backed", "copy", "remove"} /\ pc'[i] \in HookSteps
      BY <2>1 DEF instanceVars, HookSteps
    <3> QED BY <1>6, <2>1, <2>3, <2>4, <3>1, Fixed DEF HolderInv
  <2>6. OutsideUntouched'
    <3>1. ASSUME Calm, NEW e \in Entries("config"), disk'["config"] = backup["config"]
          PROVE  disk'["config"][e.id] = <<>>
      BY <2>4, <3>1 DEF O, Original, ServerIds
    <3> QED BY <2>1, <3>1, Fixed DEF OutsideUntouched
  <2> QED BY <2>2, <2>5, <2>6
<1> QED BY <1>1, <1>2, <1>3, <1>4, <1>5, <1>6

\* A panic hook that is at work while its own process restores spoils the files,
\* of which nothing is claimed then, but neither the lock nor the backup.
LEMMA RacingHook ==
    ASSUME WrapInd, NEW i \in Instances, TaskPanics(i) \/ HookCopies(i), raced'
    PROVE  /\ LockExclusive' /\ ImageFresh' /\ BackupsGenuine' /\ OutsideUntouched'
           /\ ChangesOwned' /\ Stands' /\ HookFresh'
<1>1. UNCHANGED <<fixed, backup, lock, instanceVars>> /\ panicked' /\ mishaps' # 0
  <2>1. CASE TaskPanics(i)
    BY <2>1 DEF TaskPanics, Mishap, WrapInd, WrapShapes
  <2>2. CASE HookCopies(i)
    BY <2>2 DEF HookCopies, WrapInd, WrapShapes
  <2> QED BY <2>1, <2>2
<1>2. \A j \in Instances : (Holding(j)' <=> Holding(j)) /\ (Rewritten(j)' <=> Rewritten(j))
  BY <1>1 DEF Holding, Rewritten, fixed, instanceVars
<1>3. LockExclusive' /\ ImageFresh'
  BY <1>1, <1>2, Fixed DEF WrapInd, LockExclusive, ImageFresh, fixed, instanceVars
<1>4. ~Undisturbed' /\ ~Calm'
  BY <1>1 DEF Undisturbed, Calm
<1> QED BY <1>1, <1>3, <1>4 DEF BackupsGenuine, OutsideUntouched, ChangesOwned, Stands, HookFresh

-----------------------------------------------------------------------------
(* Types *)

\* What parse_servers returns: commands it found in one of the files, and from
\* the main file alone when the adapter knows no other.
LEMMA ParsedShape ==
    ASSUME WrapInd, NEW i \in Instances, ParseOk(i)
    PROVE  /\ \A id \in DOMAIN Parsed(i) : Parsed(i)[id] \in Seq(Instances)
           /\ layout.adapter.beside = "ignored" => DOMAIN Parsed(i) \subseteq OwnIds(i, "config")
<1>1. disk["config"] \in Contents("config") /\ disk["project"] \in Contents("project")
  BY DEF ParseOk, WrapInd, WrapTypeOK, WrapShapes, Files
<1>2. DOMAIN Parsed(i) = {e.id : e \in Listed(Merged(i))}
  BY DEF Parsed
<1>3. /\ Listed(Merged(i)) \subseteq Visible(i, "config") \cup Beside(i)
      /\ Beside(i) \subseteq Entries("project")
  BY DEF Listed, Merged, Beside
<1>4. ASSUME NEW id \in DOMAIN Parsed(i) PROVE Parsed(i)[id] \in Seq(Instances)
  <2>1. CASE \E o \in Beside(i) : o.id = id
    <3>1. id \in ServerIds("project")
      BY <1>3, <2>1 DEF ServerIds
    <3> QED BY <1>1, <1>2, <2>1, <3>1 DEF Parsed, Contents
  <2>2. CASE ~ \E o \in Beside(i) : o.id = id
    <3>1. id \in ServerIds("config")
      BY <1>2, <1>3, <2>2 DEF ServerIds, Visible
    <3> QED BY <1>1, <1>2, <2>2, <3>1 DEF Parsed, Contents
  <2> QED BY <2>1, <2>2
<1>5. ASSUME layout.adapter.beside = "ignored" PROVE DOMAIN Parsed(i) \subseteq OwnIds(i, "config")
  BY <1>2, <1>3, <1>5 DEF Beside, HasBeside, Visible, OwnIds
<1> QED BY <1>4, <1>5

\* A rewrite keeps the servers of the file and puts shims in front of some.
LEMMA RewriteShape ==
    ASSUME WrapInd, NEW i \in Instances, NEW f, image[i] \in Contents(f)
    PROVE  Rewrite(i) \in Contents(f)
<1>1. \A id \in DOMAIN servers[i] : Append(servers[i][id], i) \in Seq(Instances)
  BY DEF WrapInd, WrapShapes
<1> QED BY <1>1 DEF Rewrite, ShimInFront, Contents

\* Every step keeps the types and the shapes.
LEMMA TypesStep ==
    ASSUME WrapInd, NEW i \in Instances,
           Step(i) \/ SetupFails(i) \/ AgentExits(i) \/ Signal(i) \/ TaskPanics(i) \/ Crash(i)
    PROVE  WrapTypeOK' /\ WrapShapes'
<1> USE DEF WrapInd, WrapTypeOK, WrapShapes
<1>1. UNCHANGED fixed
  BY DEF Step, ParseServers, Lock, ReadConfig, BackupConfig, WriteConfig, BesideNext, Arm,
     SpawnAgent, HandleSignalShutdown, KillAgent, WrapCleanup, Restore, CopyBackup, RemoveBackup,
     DropGuard, ClearPanicRestore, HookCopies, SetupFails, AgentExits, Signal, TaskPanics, Crash
<1> USE Fixed, <1>1 DEF fixed
<1> USE DEF Goto, Mishap, NoMishap, Files, After, Ended, instanceVars, panicVars, Unlock
<1>2. CASE ParseServers(i)
  BY <1>2, ParsedShape DEF ParseServers
<1>3. CASE Lock(i)
  BY <1>3 DEF Lock
<1>4. CASE ReadConfig(i)
  BY <1>4 DEF ReadConfig, RewriteFails, FileAt, RunDryRun, Wrappable
<1>5. CASE BackupConfig(i)
  BY <1>5 DEF BackupConfig, RewriteFails, FileAt, ImageFresh
<1>6. CASE WriteConfig(i)
  BY <1>6, RewriteShape DEF WriteConfig, RewriteFails, FileAt
<1>7. CASE BesideNext(i) \/ Arm(i) \/ SpawnAgent(i)
  BY <1>7 DEF BesideNext, Arm, SpawnAgent
<1>8. CASE HandleSignalShutdown(i) \/ KillAgent(i) \/ WrapCleanup(i) \/ SetupFails(i)
           \/ AgentExits(i) \/ Signal(i) \/ Crash(i) \/ DropGuard(i) \/ ClearPanicRestore(i)
  BY <1>8 DEF HandleSignalShutdown, KillAgent, Kills, WrapCleanup, SetupFails, AgentExits, Signal,
     Crash, DropGuard, ClearPanicRestore
<1>9. CASE Restore(i) \/ RemoveBackup(i)
  BY <1>9, RestoreRaces DEF Restore, RemoveBackup
<1>10. CASE CopyBackup(i)
  BY <1>10 DEF CopyBackup, ImageFresh
<1>11. CASE TaskPanics(i) \/ HookCopies(i)
  BY <1>11, PanicRaces DEF TaskPanics, HookCopies
<1> QED BY <1>2, <1>3, <1>4, <1>5, <1>6, <1>7, <1>8, <1>9, <1>10, <1>11 DEF Step

-----------------------------------------------------------------------------
(* The invariant *)

\* The invariant holds at first.
LEMMA WrapInitInd == WrapInit => WrapInd
<1> SUFFICES ASSUME WrapInit PROVE WrapInd
  OBVIOUS
<1>1. /\ \A i \in Instances : pc[i] = "start" /\ ~armed[i] /\ servers[i] = <<>> /\ loaded[i] = Absent
      /\ disk["config"] = O /\ backup["config"] = Absent /\ mishaps = 0
      /\ \A i \in Instances : hook[i] = Absent
  BY DEF WrapInit, O, Files
<1>2. Original("config") \in Contents("config") /\ Original("project") \in Contents("project")
  BY DEF Original, Contents
<1>3. WrapTypeOK
  BY <1>2 DEF WrapInit, WrapTypeOK, Files
<1>4. WrapShapes
  <2>1. DOMAIN <<>> = {}
    OBVIOUS
  <2> QED BY <1>2, <2>1 DEF WrapInit, WrapShapes, Files
<1>5. LockExclusive /\ ImageFresh /\ HookFresh /\ ChangesOwned /\ Stands
  BY <1>1 DEF LockExclusive, ImageFresh, HookFresh, ChangesOwned, Stands, Holding, Rewritten, ArmedSteps,
     BesideSteps
<1>6. BackupsGenuine
  BY <1>1 DEF BackupsGenuine, Rewritten, BesideSteps
<1>7. OutsideUntouched
  BY <1>1 DEF OutsideUntouched, O, Original, ServerIds
<1>8. AgentGoverned
  BY <1>1 DEF AgentGoverned
<1> QED BY <1>3, <1>4, <1>5, <1>6, <1>7, <1>8 DEF WrapInd

\* The agent loads what its process wrote, which is still there.
LEMMA AgentStep ==
    ASSUME WrapInd, NEW i \in Instances,
           Step(i) \/ SetupFails(i) \/ AgentExits(i) \/ Signal(i) \/ TaskPanics(i) \/ Crash(i)
    PROVE  AgentGoverned'
<1>1. UNCHANGED fixed /\ (panicked => panicked')
  BY DEF panicVars, Step, ParseServers, Lock, ReadConfig, BackupConfig, WriteConfig, BesideNext, Arm,
     SpawnAgent, HandleSignalShutdown, KillAgent, WrapCleanup, Restore, CopyBackup, RemoveBackup,
     DropGuard, ClearPanicRestore, HookCopies, SetupFails, AgentExits, Signal, TaskPanics, Crash
<1>2. CASE loaded' = loaded
  BY <1>1, <1>2 DEF WrapInd, AgentGoverned, fixed
<1>3. CASE SpawnAgent(i) /\ loaded' # loaded
  <2>1. /\ pc[i] = "armed" /\ panicked' = panicked
        /\ loaded' = [loaded EXCEPT ![i] = [id \in Started(i) |-> Effective(i, id)]]
    BY <1>3 DEF SpawnAgent, panicVars
  <2>2. SUFFICES ASSUME layout.adapter.beside = "ignored", ~panicked, NEW id \in Started(i)
                 PROVE  Effective(i, id) # <<>> /\ Effective(i, id)[Len(Effective(i, id))] = i
    BY <1>1, <2>1 DEF WrapInd, WrapShapes, AgentGoverned, fixed
  <2>3. Effective(i, id) = disk["config"][id]
    BY <2>2 DEF Effective, HasBeside
  <2>4. disk["config"][id] = Append(servers[i][id], i) /\ servers[i][id] \in Seq(Instances)
    BY <2>1, <2>2 DEF WrapInd, WrapShapes, Stands, Rewritten, Started
  <2> QED BY <2>3, <2>4
<1>4. loaded' = loaded \/ SpawnAgent(i)
  BY DEF Step, ParseServers, Lock, ReadConfig, BackupConfig, WriteConfig, BesideNext, Arm,
     HandleSignalShutdown, KillAgent, WrapCleanup, Restore, CopyBackup, RemoveBackup,
     DropGuard, ClearPanicRestore, HookCopies, SetupFails, AgentExits, Signal, TaskPanics, Crash
<1> QED BY <1>2, <1>3, <1>4

\* A step that changes nothing keeps it.
LEMMA WrapUnmoved == WrapInd /\ UNCHANGED wrapVars => WrapInd'
<1> SUFFICES ASSUME WrapInd, UNCHANGED wrapVars PROVE WrapInd'
  OBVIOUS
<1> USE Fixed DEF wrapVars, instanceVars, panicVars, WrapInd
<1>1. WrapTypeOK' /\ WrapShapes'
  BY DEF WrapTypeOK, WrapShapes, fixed
<1>2. \A i \in Instances : (Holding(i)' <=> Holding(i)) /\ (Rewritten(i)' <=> Rewritten(i))
  BY DEF Holding, Rewritten, fixed
<1>3. Undisturbed' <=> Undisturbed
  BY DEF Undisturbed, fixed
<1>4. LockExclusive' /\ ImageFresh' /\ HookFresh' /\ Stands' /\ AgentGoverned'
  BY <1>2 DEF LockExclusive, ImageFresh, HookFresh, Stands, AgentGoverned, fixed
<1>5. BackupsGenuine' /\ OutsideUntouched' /\ ChangesOwned'
  BY <1>2, <1>3 DEF BackupsGenuine, OutsideUntouched, ChangesOwned
<1> QED BY <1>1, <1>4, <1>5

-----------------------------------------------------------------------------
(* Theorems *)

\* The invariant holds in every state of every behaviour.
THEOREM WrapInductive == WrapSpec => []WrapInd
<1>1. ASSUME WrapInd, NEW i \in Instances,
             Step(i) \/ SetupFails(i) \/ AgentExits(i) \/ Signal(i) \/ TaskPanics(i) \/ Crash(i)
      PROVE  WrapInd'
  <2>1. \/ Quiet(i)
        \/ Loud(i) /\ HolderInv(i)' /\ OutsideUntouched'
        \/ (TaskPanics(i) \/ HookCopies(i)) /\ raced'
    BY <1>1, QuietSteps, LoudSteps DEF Step
  <2>2. /\ LockExclusive' /\ ImageFresh' /\ BackupsGenuine' /\ OutsideUntouched' /\ ChangesOwned'
        /\ Stands' /\ HookFresh'
    BY <1>1, <2>1, QuietSafe, LoudSafe, RacingHook
  <2> QED BY <1>1, <2>2, TypesStep, AgentStep DEF WrapInd
<1>2. WrapInd /\ [WrapNext]_wrapVars => WrapInd'
  BY <1>1, WrapUnmoved DEF WrapNext
<1> QED BY WrapInitInd, <1>2, PTL DEF WrapSpec

\* The variables keep the types Wrap declares.
THEOREM WrapTypeCorrect == WrapSpec => []WrapTypeOK
<1>1. WrapInd => WrapTypeOK
  BY DEF WrapInd
<1> QED BY WrapInductive, <1>1, PTL

\* Whichever processes crash, panic or fail at whichever step, the user's
\* configuration is on disk or in its backup, as long as every process sees the
\* same entries and no panic hook copies while its own process restores.
THEOREM OriginalIsKept == WrapSpec => []OriginalKept
<1>1. WrapInd => OriginalKept
  BY DEF WrapInd, BackupsGenuine, OriginalKept, Calm, O
<1> QED BY WrapInductive, <1>1, PTL

\* An agent starts behind the shims of the process that launched it, and no
\* other process takes them away while it runs.
THEOREM AgentStaysGoverned == WrapSpec => []StaysGoverned
<1>1. WrapInd => RewriteStands
  <2> SUFFICES ASSUME WrapInd, NEW i \in Instances, pc[i] \in {"running", "waiting", "cleanup"},
                      ~panicked, NEW id \in DOMAIN servers[i] \cap OwnIds(i, "config")
               PROVE  /\ disk["config"][id] # <<>>
                      /\ disk["config"][id][Len(disk["config"][id])] = i
    BY DEF RewriteStands
  <2>1. disk["config"][id] = Append(servers[i][id], i) /\ servers[i][id] \in Seq(Instances)
    BY DEF WrapInd, WrapShapes, Stands, Rewritten
  <2> QED BY <2>1
<1>2. WrapInd => StaysGoverned
  BY <1>1 DEF WrapInd, StaysGoverned
<1> QED BY WrapInductive, <1>2, PTL

\* Once every process has ended, none of them disturbed or told not to restore,
\* the main configuration is the user's again, also when processes overlapped.
THEOREM ConfigIsRestored == WrapSpec => []ConfigRestored
<1>1. WrapInd => ConfigRestored
  BY DEF WrapInd, ChangesOwned, Undisturbed, ConfigRestored, Restored, Rewritten, BesideSteps,
     Ended, O
<1> QED BY WrapInductive, <1>1, PTL
=============================================================================
