--------------------------- MODULE IngressProofs ---------------------------
(***************************************************************************)
(* Theorems about Ingress, for any number of connections and addresses,    *)
(* paths of any length, any bodies and any timeouts: slots are counted     *)
(* exactly, no MCP request goes past the handler, answers carry the ids    *)
(* that are due, and the limiter that forgets implements the token bucket. *)
(***************************************************************************)
EXTENDS Ingress, TLAPS, FiniteSetTheorems, SequenceTheorems, WellFoundedInduction

\* The connections that have a task.
ServedConns == {c \in Conns : Phase(c) \in Served}

\* What an entry of the limiter owes has been refilled after Burst idle ticks.
Refilled ==
    \A a \in Addrs : limiter[a] # None =>
        limiter[a].debt = 0 \/ limiter[a].debt + limiter[a].idle <= Burst

SlotsInv == IsFiniteSet(ServedConns) /\ SlotsExact
EventInv == GovernedIngress /\ AnswersTrue
IndInv == TypeOK /\ Refilled /\ SlotsInv /\ EventInv

-----------------------------------------------------------------------------
(* Paths *)

\* A set of numbers has a least one.
LEMMA LeastOf ==
    ASSUME NEW S, S \subseteq Nat, S # {}
    PROVE  \E k \in S : \A j \in S : k <= j
<1>1. PICK k \in S : \A j \in S : ~(<<j, k>> \in OpToRel(<, Nat))
  BY NatLessThanWellFounded, WFMin
<1>2. ASSUME NEW j \in S PROVE ~(j < k)
  <2>1. <<j, k>> \in Nat \X Nat /\ <<j, k>> \notin OpToRel(<, Nat)
    BY <1>1
  <2> QED BY <2>1 DEF OpToRel
<1> QED BY <1>2

\* The loop of normalize_path: nothing before the first character, and each
\* character pushed or skipped.
LEMMA PushedIs ==
    ASSUME NEW path, NEW N \in Nat, Len(path) = N
    PROVE  /\ Pushed(path)[0] = <<>>
           /\ \A k \in 1 .. N : Pushed(path)[k] =
                 IF Skips(path, k) THEN Pushed(path)[k - 1] ELSE Append(Pushed(path)[k - 1], path[k])
<1> DEFINE Step(f, k) ==
        IF k = 0 THEN <<>> ELSE IF Skips(path, k) THEN f[k - 1] ELSE Append(f[k - 1], path[k])
           Loop(f, n) == f = [k \in 0 .. n |-> Step(f, k)]
           Bad == {n \in 0 .. N : \A f : ~Loop(f, n)}
<1>1. Bad = {}
  <2>1. SUFFICES ASSUME Bad # {} PROVE FALSE
    OBVIOUS
  <2>a. Bad \subseteq Nat
    OBVIOUS
  <2>b. \A n \in 0 .. N : n \notin Bad => \E f : Loop(f, n)
    OBVIOUS
  <2>c. \A n \in Bad : n \in 0 .. N /\ \A f : ~Loop(f, n)
    OBVIOUS
  <2> HIDE DEF Bad
  <2>2. PICK m \in Bad : \A j \in Bad : m <= j
    BY <2>1, <2>a, LeastOf
  <2>3. CASE m = 0
    <3> DEFINE f == [k \in 0 .. 0 |-> <<>>]
    <3>1. \A k \in 0 .. 0 : Step(f, k) = <<>>
      OBVIOUS
    <3>2. Loop(f, 0)
      BY <3>1
    <3> QED BY <2>c, <2>3, <3>2
  <2>4. CASE m # 0
    <3>1. m - 1 \in 0 .. N /\ m \in 1 .. N
      BY <2>c, <2>4
    <3>2. m - 1 \notin Bad
      BY <2>2, <3>1
    <3>3. PICK f : Loop(f, m - 1)
      BY <2>b, <3>1, <3>2
    <3> DEFINE g == [k \in 0 .. m |-> Step(f, k)]
    <3> HIDE DEF Step
    <3>4. \A k \in 0 .. (m - 1) : f[k] = g[k]
      BY <3>1, <3>3
    <3>5. \A k \in 0 .. m : Step(f, k) = Step(g, k)
      <4>1. ASSUME NEW k \in 0 .. m, k # 0 PROVE f[k - 1] = g[k - 1]
        <5>1. k - 1 \in 0 .. (m - 1)
          BY <3>1, <4>1
        <5> HIDE DEF g
        <5> QED BY <3>4, <5>1
      <4> QED BY <3>1, <4>1 DEF Step
    <3>6. Loop(g, m)
      BY <3>5
    <3> QED BY <2>c, <3>6
  <2> QED BY <2>3, <2>4
<1>2. \E f : Loop(f, N)
  <2>1. N \in 0 .. N
    OBVIOUS
  <2> HIDE DEF Loop
  <2> QED BY <1>1, <2>1
<1>3. Pushed(path) = CHOOSE f : Loop(f, N)
  BY DEF Pushed
<1> HIDE DEF Step
<1>4. Loop(Pushed(path), N)
  BY <1>2, <1>3
<1>5. \A k \in 0 .. N : Pushed(path)[k] = Step(Pushed(path), k)
  BY <1>4
<1> QED BY <1>5 DEF Step

\* Slashes after a slash add nothing.
LEMMA MoreSlashes ==
    ASSUME NEW path, NEW N \in Nat, Len(path) = N,
           NEW n \in 1 .. N, NEW m \in n .. N, \A k \in n .. m : path[k] = Slash
    PROVE  Pushed(path)[m] = Pushed(path)[n]
<1> DEFINE Bad == {k \in n .. m : Pushed(path)[k] # Pushed(path)[n]}
<1>1. SUFFICES ASSUME Bad # {} PROVE FALSE
  <2>1. m \in n .. m
    OBVIOUS
  <2> QED BY <2>1
<1>2. Bad \subseteq Nat /\ Bad \subseteq n .. m
  OBVIOUS
<1>3. PICK k \in Bad : \A j \in Bad : k <= j
  <2> HIDE DEF Bad
  <2> QED BY <1>1, <1>2, LeastOf
<1>4. k \in n .. m /\ Pushed(path)[k] # Pushed(path)[n]
  BY <1>3
<1>5. k # n /\ k - 1 \in n .. m /\ k \in 1 .. N
  BY <1>4
<1>6. Pushed(path)[k - 1] = Pushed(path)[n]
  <2>1. k - 1 \notin Bad
    <3> HIDE DEF Bad
    <3> QED BY <1>2, <1>3
  <2> QED BY <1>5, <2>1
<1>7. Skips(path, k)
  BY <1>4, <1>5 DEF Skips
<1> QED BY <1>4, <1>5, <1>6, <1>7, PushedIs

\* A character after another one, and a slash after a name, is pushed.
LEMMA PushedOne ==
    ASSUME NEW path, NEW N \in Nat, Len(path) = N, NEW k \in 1 .. N,
           path[k] # Slash \/ k = 1 \/ path[k - 1] # Slash
    PROVE  Pushed(path)[k] = Append(Pushed(path)[k - 1], path[k])
<1>1. ~Skips(path, k)
  BY DEF Skips
<1> QED BY <1>1, PushedIs

\* What one push, and the pop at the end, make of a short path.
LEMMA PushIs ==
    ASSUME NEW S, NEW s \in Seq(S), NEW d \in S, NEW t \in Seq(S),
           Len(t) = Len(s) + 1, \A i \in 1 .. Len(s) : t[i] = s[i], t[Len(t)] = d
    PROVE  Append(s, d) = t
<1>1. Append(s, d) \in Seq(S)
  OBVIOUS
<1>2. Len(Append(s, d)) = Len(s) + 1
  OBVIOUS
<1>3. \A i \in 1 .. Len(s) : Append(s, d)[i] = s[i]
  OBVIOUS
<1>4. Append(s, d)[Len(s) + 1] = d
  OBVIOUS
<1>5. \A i \in 1 .. (Len(s) + 1) : Append(s, d)[i] = t[i]
  BY <1>3, <1>4
<1> QED BY <1>1, <1>2, <1>5, SeqEqual

\* What appending to a short tuple gives.
LEMMA Push2 ==
    ASSUME NEW a, NEW b
    PROVE  Append(<<a>>, b) = <<a, b>>
<1> DEFINE S == {a, b}
<1>1. a \in S /\ b \in S
  OBVIOUS
<1> HIDE DEF S
<1>2. ASSUME NEW s, NEW t, s = <<a>>, t = <<a, b>>
      PROVE  Append(s, b) = t
  <2>1. s \in Seq(S) /\ t \in Seq(S)
    BY <1>1, <1>2
  <2>2. /\ Len(s) = 1 /\ Len(t) = 2
        /\ s[1] = a
        /\ t[1] = a /\ t[2] = b
    BY <1>2
  <2>3. Len(t) = Len(s) + 1 /\ t[Len(t)] = b /\ \A i \in 1 .. Len(s) : t[i] = s[i]
    BY <2>2
  <2> QED BY <1>1, <2>1, <2>3, PushIs
<1> QED BY <1>2

\* The same of two.
LEMMA Push3 ==
    ASSUME NEW a, NEW b, NEW c
    PROVE  Append(<<a, b>>, c) = <<a, b, c>>
<1> DEFINE S == {a, b, c}
<1>1. a \in S /\ b \in S /\ c \in S
  OBVIOUS
<1> HIDE DEF S
<1>2. ASSUME NEW s, NEW t, s = <<a, b>>, t = <<a, b, c>>
      PROVE  Append(s, c) = t
  <2>1. s \in Seq(S) /\ t \in Seq(S)
    BY <1>1, <1>2
  <2>2. /\ Len(s) = 2 /\ Len(t) = 3
        /\ s[1] = a /\ s[2] = b
        /\ t[1] = a /\ t[2] = b /\ t[3] = c
    BY <1>2
  <2>3. Len(t) = Len(s) + 1 /\ t[Len(t)] = c /\ \A i \in 1 .. Len(s) : t[i] = s[i]
    BY <2>2
  <2> QED BY <1>1, <2>1, <2>3, PushIs
<1> QED BY <1>2

\* The same of three.
LEMMA Push4 ==
    ASSUME NEW a, NEW b, NEW c, NEW d
    PROVE  Append(<<a, b, c>>, d) = <<a, b, c, d>>
<1> DEFINE S == {a, b, c, d}
<1>1. a \in S /\ b \in S /\ c \in S /\ d \in S
  OBVIOUS
<1> HIDE DEF S
<1>2. ASSUME NEW s, NEW t, s = <<a, b, c>>, t = <<a, b, c, d>>
      PROVE  Append(s, d) = t
  <2>1. s \in Seq(S) /\ t \in Seq(S)
    BY <1>1, <1>2
  <2>2. /\ Len(s) = 3 /\ Len(t) = 4
        /\ s[1] = a /\ s[2] = b /\ s[3] = c
        /\ t[1] = a /\ t[2] = b /\ t[3] = c /\ t[4] = d
    BY <1>2
  <2>3. Len(t) = Len(s) + 1 /\ t[Len(t)] = d /\ \A i \in 1 .. Len(s) : t[i] = s[i]
    BY <2>2
  <2> QED BY <1>1, <2>1, <2>3, PushIs
<1> QED BY <1>2

\* The same of four.
LEMMA Push5 ==
    ASSUME NEW a, NEW b, NEW c, NEW d, NEW e
    PROVE  /\ Append(<<a, b, c, d>>, e) = <<a, b, c, d, e>>
           /\ Front(<<a, b, c, d, e>>) = <<a, b, c, d>>
<1> DEFINE S == {a, b, c, d, e}
<1>1. a \in S /\ b \in S /\ c \in S /\ d \in S /\ e \in S
  OBVIOUS
<1> HIDE DEF S
<1>2. ASSUME NEW s, NEW t, s = <<a, b, c, d>>, t = <<a, b, c, d, e>>
      PROVE  Append(s, e) = t /\ Front(t) = s
  <2>1. s \in Seq(S) /\ t \in Seq(S)
    BY <1>1, <1>2
  <2>2. /\ Len(s) = 4 /\ Len(t) = 5
        /\ s[1] = a /\ s[2] = b /\ s[3] = c /\ s[4] = d
        /\ t[1] = a /\ t[2] = b /\ t[3] = c /\ t[4] = d /\ t[5] = e
    BY <1>2
  <2>3. Len(t) = Len(s) + 1 /\ t[Len(t)] = e /\ \A i \in 1 .. Len(s) : t[i] = s[i]
    BY <2>2
  <2>4. Append(s, e) = t
    BY <1>1, <2>1, <2>3, PushIs
  <2>5. Front(t) = s
    <3>1. Front(t) = SubSeq(t, 1, Len(s))
      BY <2>1, <2>3 DEF Front
    <3>2. \A i \in 1 .. Len(s) : t[i] \in S
      BY <2>1, <2>3
    <3>3. Len(s) \in Nat
      BY <2>1
    <3>4. /\ SubSeq(t, 1, Len(s)) \in Seq(S) /\ Len(SubSeq(t, 1, Len(s))) = Len(s)
          /\ \A i \in 1 .. Len(s) : SubSeq(t, 1, Len(s))[i] = t[i]
      BY <2>1, <2>3, <3>2, <3>3
    <3> QED BY <2>1, <2>3, <3>1, <3>4, SeqEqual
  <2> QED BY <2>4, <2>5
<1> QED BY <1>2

\* The end of normalize_path on what the loop makes of an endpoint.
LEMMA TrimmedNames ==
    ASSUME NEW mcp, NEW v1, v1 # Slash
    PROVE  /\ TrimTrailing(<<Slash, mcp, Slash, v1>>) = <<Slash, mcp, Slash, v1>>
           /\ TrimTrailing(<<Slash, mcp, Slash, v1, Slash>>) = <<Slash, mcp, Slash, v1>>
           /\ Append(<<Slash, mcp, Slash, v1>>, Slash) = <<Slash, mcp, Slash, v1, Slash>>
<1>1. TrimTrailing(<<Slash, mcp, Slash, v1>>) = <<Slash, mcp, Slash, v1>>
  BY DEF TrimTrailing
<1>2. /\ Front(<<Slash, mcp, Slash, v1, Slash>>) = <<Slash, mcp, Slash, v1>>
      /\ Append(<<Slash, mcp, Slash, v1>>, Slash) = <<Slash, mcp, Slash, v1, Slash>>
  BY Push5
<1>3. /\ Len(<<Slash, mcp, Slash, v1, Slash>>) = 5
      /\ <<Slash, mcp, Slash, v1, Slash>>[5] = Slash
  OBVIOUS
<1>4. TrimTrailing(<<Slash, mcp, Slash, v1, Slash>>) = Front(<<Slash, mcp, Slash, v1, Slash>>)
  BY <1>3 DEF TrimTrailing
<1> QED BY <1>1, <1>2, <1>4

\* A path that reads as one of the endpoints is normalized to it.
LEMMA NormalizedRoot ==
    ASSUME NEW path, NEW N \in Nat, Len(path) = N, N # 0, \A k \in 1 .. N : path[k] = Slash
    PROVE  NormalizePath(path) = <<Slash>>
<1>1. Pushed(path)[1] = Append(Pushed(path)[0], path[1])
  <2>1. 1 \in 1 .. N /\ 1 - 1 = 0
    OBVIOUS
  <2> QED BY <2>1, PushedOne
<1>2. Pushed(path)[0] = <<>> /\ path[1] = Slash
  BY PushedIs
<1>3. Pushed(path)[1] = <<Slash>>
  BY <1>1, <1>2
<1>4. Pushed(path)[N] = <<Slash>>
  BY <1>3, MoreSlashes
<1> QED BY <1>4 DEF NormalizePath, TrimTrailing

\* A path with two names comes out with one slash before each.
LEMMA NormalizedNames ==
    ASSUME NEW path, NEW N \in Nat, Len(path) = N, path[1] = Slash,
           NEW i \in 1 .. N, NEW j \in 1 .. N, path[i] # Slash, path[j] # Slash, i + 1 < j,
           \A k \in 1 .. N : path[k] = Slash \/ k = i \/ k = j
    PROVE  NormalizePath(path) = <<Slash, path[i], Slash, path[j]>>
<1>0. PICK mcp, v1 : mcp = path[i] /\ v1 = path[j]
  OBVIOUS
<1>a. mcp # Slash /\ v1 # Slash
  BY <1>0
<1>1. Pushed(path)[1] = <<Slash>>
  <2>1. 1 \in 1 .. N /\ 1 - 1 = 0
    OBVIOUS
  <2>2. Pushed(path)[1] = Append(Pushed(path)[0], path[1])
    BY <2>1, PushedOne
  <2>3. Pushed(path)[0] = <<>>
    BY PushedIs
  <2> QED BY <2>2, <2>3
<1>2. i # 1 /\ i - 1 \in 1 .. N /\ i + 1 \in 1 .. N /\ j - 1 \in 1 .. N
  OBVIOUS
<1>3. Pushed(path)[i - 1] = <<Slash>>
  <2>1. \A k \in 1 .. (i - 1) : path[k] = Slash
    BY <1>2
  <2> QED BY <1>1, <1>2, <2>1, MoreSlashes
<1>4. Pushed(path)[i] = <<Slash, mcp>>
  <2>1. Pushed(path)[i] = Append(Pushed(path)[i - 1], path[i])
    BY PushedOne
  <2> QED BY <1>0, <1>3, <2>1, Push2
<1>5. Pushed(path)[i + 1] = <<Slash, mcp, Slash>>
  <2>1. path[i + 1] = Slash /\ path[(i + 1) - 1] # Slash /\ (i + 1) - 1 = i
    BY <1>2
  <2>2. Pushed(path)[i + 1] = Append(Pushed(path)[i], path[i + 1])
    BY <1>2, <2>1, PushedOne
  <2> QED BY <1>4, <2>1, <2>2, Push3
<1>6. Pushed(path)[j - 1] = <<Slash, mcp, Slash>>
  <2>1. j - 1 \in (i + 1) .. N /\ \A k \in (i + 1) .. (j - 1) : path[k] = Slash
    BY <1>2
  <2> QED BY <1>2, <1>5, <2>1, MoreSlashes
<1>7. Pushed(path)[j] = <<Slash, mcp, Slash, v1>>
  <2>1. Pushed(path)[j] = Append(Pushed(path)[j - 1], path[j])
    BY PushedOne
  <2> QED BY <1>0, <1>6, <2>1, Push4
<1>8. CASE j = N
  <2>1. NormalizePath(path) = TrimTrailing(<<Slash, mcp, Slash, v1>>)
    BY <1>7, <1>8 DEF NormalizePath
  <2> QED BY <1>0, <1>a, <2>1, TrimmedNames
<1>9. CASE j # N
  <2>1. j + 1 \in 1 .. N /\ \A k \in (j + 1) .. N : path[k] = Slash
    BY <1>9
  <2>2. path[j + 1] = Slash /\ path[(j + 1) - 1] # Slash /\ (j + 1) - 1 = j
    BY <2>1
  <2>3. Pushed(path)[j + 1] = Append(Pushed(path)[j], path[j + 1])
    BY <2>1, <2>2, PushedOne
  <2>4. Pushed(path)[j + 1] = <<Slash, mcp, Slash, v1, Slash>>
    <3>1. Append(<<Slash, mcp, Slash, v1>>, Slash) = <<Slash, mcp, Slash, v1, Slash>>
      BY <1>a, TrimmedNames
    <3> QED BY <1>7, <2>2, <2>3, <3>1
  <2>5. Pushed(path)[N] = <<Slash, mcp, Slash, v1, Slash>>
    <3>1. N \in (j + 1) .. N
      BY <2>1
    <3>2. Pushed(path)[N] = Pushed(path)[j + 1]
      BY <2>1, <3>1, MoreSlashes
    <3> QED BY <2>4, <3>2
  <2> QED BY <1>0, <1>a, <2>5, TrimmedNames DEF NormalizePath
<1> QED BY <1>8, <1>9

\* So does one that reads as two names, wherever these are.
LEMMA NormalizedTwo ==
    ASSUME NEW path, NEW N \in Nat, Len(path) = N, N # 0, DOMAIN path = 1 .. N, path[1] = Slash,
           NEW names, DOMAIN names = {1, 2}, names[1] # Slash, names[2] # Slash, Reads(path, names)
    PROVE  NormalizePath(path) = <<Slash, names[1], Slash, names[2]>>
<1>1. PICK place \in [{1, 2} -> 1 .. N] :
        /\ \A n \in {1, 2} : path[place[n]] = names[n]
        /\ \A k \in 1 .. N : path[k] = Slash \/ \E n \in {1, 2} : k = place[n]
        /\ \A m, n \in {1, 2} : m < n => place[m] + 1 < place[n]
  BY DEF Reads
<1>2. PICK i, j : i = place[1] /\ j = place[2]
  OBVIOUS
<1>3. /\ i \in 1 .. N /\ j \in 1 .. N /\ path[i] = names[1] /\ path[j] = names[2] /\ i + 1 < j
      /\ path[i] # Slash /\ path[j] # Slash
      /\ \A k \in 1 .. N : path[k] = Slash \/ k = i \/ k = j
  BY <1>1, <1>2
<1>4. NormalizePath(path) = <<Slash, path[i], Slash, path[j]>>
  BY <1>3, NormalizedNames
<1> QED BY <1>3, <1>4

\* The root and /mcp/v1, with slashes to spare, come out as an endpoint.
LEMMA NormalizedEndpoint ==
    ASSUME NEW path, NEW N \in Nat, Len(path) = N, N # 0, DOMAIN path = 1 .. N, path[1] = Slash,
           Reads(path, <<>>) \/ Reads(path, <<"mcp", "v1">>)
    PROVE  NormalizePath(path) \in McpEndpoints
<1>1. CASE Reads(path, <<>>)
  <2>1. \A k \in 1 .. N : path[k] = Slash
    BY <1>1 DEF Reads
  <2> QED BY <2>1, NormalizedRoot DEF McpEndpoints
<1>2. CASE Reads(path, <<"mcp", "v1">>)
  <2>1. PICK names : names = <<"mcp", "v1">>
    OBVIOUS
  <2>2. DOMAIN names = {1, 2} /\ names[1] = "mcp" /\ names[2] = "v1"
    BY <2>1
  <2>3. names[1] # Slash /\ names[2] # Slash
    BY <2>2 DEF Slash
  <2>4. Reads(path, names)
    BY <1>2, <2>1
  <2>5. NormalizePath(path) = <<Slash, names[1], Slash, names[2]>>
    BY <2>2, <2>3, <2>4, NormalizedTwo
  <2> QED BY <2>2, <2>5 DEF McpEndpoints
<1> QED BY <1>1, <1>2

-----------------------------------------------------------------------------
(* What comes over the wire *)

\* However its path is spelt with slashes, an MCP request is taken for one.
LEMMA McpIsFound ==
    ASSUME NEW r \in Requests, IsMcp(r)
    PROVE  DiscriminateTraffic(r) = "mcp"
<1> DEFINE path == r.path
<1>1. path \in Seq(STRING) /\ path # <<>> /\ (path[1] = Slash \/ path = <<"*">>)
  BY RequestsAssumption
<1>2. PICK N \in Nat : Len(path) = N /\ N # 0 /\ DOMAIN path = 1 .. N
  BY <1>1
<1>3. Reads(path, <<>>) \/ Reads(path, <<"mcp", "v1">>)
  BY DEF IsMcp
<1> HIDE DEF path
<1>4. path[1] = Slash
  <2>1. SUFFICES ASSUME path[1] # Slash PROVE FALSE
    OBVIOUS
  <2>2. path = <<"*">>
    BY <1>1, <2>1
  <2>3. N = 1 /\ DOMAIN path = {1}
    BY <1>2, <2>2
  <2>4. CASE Reads(path, <<>>)
    BY <2>1, <2>3, <2>4 DEF Reads
  <2>5. CASE Reads(path, <<"mcp", "v1">>)
    <3>1. PICK names : names = <<"mcp", "v1">>
      OBVIOUS
    <3>2. DOMAIN names = {1, 2}
      BY <3>1
    <3>3. Reads(path, names)
      BY <2>5, <3>1
    <3>4. PICK place \in [{1, 2} -> {1}] : \A m, n \in {1, 2} : m < n => place[m] + 1 < place[n]
      BY <2>3, <3>2, <3>3 DEF Reads
    <3> QED BY <3>4
  <2> QED BY <1>3, <2>4, <2>5
<1>5. NormalizePath(path) \in McpEndpoints
  BY <1>2, <1>3, <1>4, NormalizedEndpoint
<1> QED BY <1>5 DEF path, IsMcp, DiscriminateTraffic

\* An element of a batch gets the answer that is due to it, and no other.
LEMMA ElementAnswered ==
    ASSUME NEW e, e.form \in {"object", "tuple", "other"}, e.method \in BOOLEAN, e.id \in IdKinds,
           NEW item,
           item = IF ParseSingleFromRaw(e) THEN Valid(e) ELSE Invalid(ExtractId(e)),
           NEW id \in {"null", "number", "string"}
    PROVE  ((~item.valid \/ item.id # "absent") /\ ResponseId(item) = id)
           <=> \/ (WellFormed(e) \/ e.form = "object") /\ e.id = id
               \/ ~WellFormed(e) /\ id = "null" /\ (e.form # "object" \/ e.id \in {"absent", "float", "bool"})
<1>1. ParseSingleFromRaw(e) <=> WellFormed(e)
  BY DEF ParseSingleFromRaw, WellFormed, IdValid, IdKinds
<1>2. CASE WellFormed(e)
  BY <1>1, <1>2 DEF Valid, ResponseId, WellFormed
<1>3. CASE ~WellFormed(e)
  <2>1. ~item.valid /\ item.id = IF e.form = "object" /\ IdValid(e.id) THEN e.id ELSE "absent"
    BY <1>1, <1>3 DEF Invalid, ExtractId
  <2> QED BY <1>3, <2>1 DEF ResponseId, IdValid, IdKinds
<1> QED BY <1>2, <1>3

\* One answer, with the one id it carries.
LEMMA OneAnswer ==
    ASSUME NEW x, NEW id
    PROVE  Cardinality({k \in DOMAIN <<x>> : <<x>>[k] = id}) = IF x = id THEN 1 ELSE 0
<1>1. DOMAIN <<x>> = {1} /\ <<x>>[1] = x
  OBVIOUS
<1>2. CASE x = id
  <2>1. {k \in DOMAIN <<x>> : <<x>>[k] = id} = {1}
    BY <1>1, <1>2
  <2> QED BY <1>2, <2>1, FS_Singleton
<1>3. CASE x # id
  <2>1. {k \in DOMAIN <<x>> : <<x>>[k] = id} = {}
    BY <1>1, <1>3
  <2> QED BY <1>3, <2>1, FS_EmptySet
<1> QED BY <1>2, <1>3

\* Every body is answered with the ids it deserves.
LEMMA IdsAreDue ==
    ASSUME NEW b \in Bodies, NEW id \in {"null", "number", "string"}
    PROVE  Cardinality({k \in DOMAIN ResponseIds(ParseJsonRpc(b)) : ResponseIds(ParseJsonRpc(b))[k] = id})
             = Deserved(b, id)
<1> DEFINE parsed == ParseJsonRpc(b)
           ids == ResponseIds(parsed)
           e == b.items[1]
<1>0. /\ b.shape \in {"broken", "scalar", "object", "array"} /\ DOMAIN b.items = 1 .. Len(b.items)
      /\ b.shape = "object" => Len(b.items) = 1
      /\ \A k \in DOMAIN b.items :
            b.items[k].form \in {"object", "tuple", "other"} /\ b.items[k].method \in BOOLEAN /\ b.items[k].id \in IdKinds
  BY BodiesAssumption
<1>1. ASSUME parsed.kind = "error", Deserved(b, id) = IF id = "null" THEN 1 ELSE 0
      PROVE  Cardinality({k \in DOMAIN ids : ids[k] = id}) = Deserved(b, id)
  <2>1. ids = <<"null">>
    BY <1>1 DEF ResponseIds
  <2> HIDE DEF ids
  <2>2. Cardinality({k \in DOMAIN ids : ids[k] = id}) = IF "null" = id THEN 1 ELSE 0
    BY <2>1, OneAnswer
  <2> QED BY <1>1, <2>2
<1>2. CASE b.shape \in {"broken", "scalar"}
  <2>1. parsed.kind = "error"
    BY <1>2 DEF ParseJsonRpc
  <2>2. Deserved(b, id) = IF id = "null" THEN 1 ELSE 0
    BY <1>2 DEF Deserved
  <2> QED BY <1>1, <2>1, <2>2
<1>3. CASE b.shape = "object"
  <2>1. 1 \in DOMAIN b.items
    BY <1>0, <1>3
  <2>2. e.form \in {"object", "tuple", "other"} /\ e.method \in BOOLEAN /\ e.id \in IdKinds
    BY <1>0, <2>1
  <2> HIDE DEF e
  <2>3. ParseSingleFromRaw(e) <=> WellFormed(e)
    BY <2>2 DEF ParseSingleFromRaw, WellFormed, IdValid, IdKinds
  <2>4. CASE ~WellFormed(e)
    <3>1. parsed.kind = "error"
      BY <1>3, <2>3, <2>4 DEF ParseJsonRpc, e
    <3>2. Deserved(b, id) = IF id = "null" THEN 1 ELSE 0
      BY <1>3, <2>4 DEF Deserved, e
    <3> QED BY <1>1, <3>1, <3>2
  <2>5. CASE WellFormed(e)
    <3>1. parsed = [kind |-> "single", items |-> <<Valid(e)>>]
      BY <1>3, <2>3, <2>5 DEF ParseJsonRpc, e
    <3>2. Deserved(b, id) = IF e.id = id THEN 1 ELSE 0
      BY <1>3, <2>5 DEF Deserved, e
    <3> HIDE DEF parsed
    <3>3. parsed.kind # "error" /\ DOMAIN parsed.items = {1} /\ parsed.items[1] = Valid(e)
      BY <3>1
    <3>4. Valid(e).valid /\ Valid(e).id = e.id
      BY DEF Valid
    <3>5. ids = [k \in {j \in {1} : e.id # "absent"} |-> e.id]
      BY <3>3, <3>4 DEF ResponseIds, ResponseId
    <3> HIDE DEF ids
    <3>6. CASE e.id = id
      <4>1. {k \in DOMAIN ids : ids[k] = id} = {1}
        BY <3>5, <3>6
      <4> QED BY <3>2, <3>6, <4>1, FS_Singleton DEF ids, parsed
    <3>7. CASE e.id # id
      <4>1. {k \in DOMAIN ids : ids[k] = id} = {}
        BY <3>5, <3>7
      <4> QED BY <3>2, <3>7, <4>1, FS_EmptySet DEF ids, parsed
    <3> QED BY <3>6, <3>7
  <2> QED BY <2>4, <2>5
<1>4. CASE b.shape = "array" /\ b.items = <<>>
  <2>1. parsed.kind = "error"
    BY <1>4 DEF ParseJsonRpc
  <2>2. Deserved(b, id) = IF id = "null" THEN 1 ELSE 0
    BY <1>4 DEF Deserved
  <2> QED BY <1>1, <2>1, <2>2
<1>5. CASE b.shape = "array" /\ b.items # <<>>
  <2> DEFINE item(k) == IF ParseSingleFromRaw(b.items[k]) THEN Valid(b.items[k])
                        ELSE Invalid(ExtractId(b.items[k]))
             due == {k \in DOMAIN b.items :
                       \/ (WellFormed(b.items[k]) \/ b.items[k].form = "object") /\ b.items[k].id = id
                       \/ ~WellFormed(b.items[k]) /\ id = "null"
                          /\ (b.items[k].form # "object" \/ b.items[k].id \in {"absent", "float", "bool"})}
  <2>1. Deserved(b, id) = Cardinality(due)
    BY <1>5 DEF Deserved
  <2> HIDE DEF item
  <2>2. parsed = [kind |-> "batch", items |-> [k \in DOMAIN b.items |-> item(k)]]
    BY <1>5 DEF ParseJsonRpc, ParseBatch, item
  <2> HIDE DEF parsed
  <2>3. parsed.kind # "error" /\ DOMAIN parsed.items = DOMAIN b.items
        /\ \A k \in DOMAIN b.items : parsed.items[k] = item(k)
    BY <2>2
  <2>4. ids = [k \in {j \in DOMAIN b.items : ~item(j).valid \/ item(j).id # "absent"} |-> ResponseId(item(k))]
    BY <2>3 DEF ResponseIds
  <2> HIDE DEF ids
  <2>5. {k \in DOMAIN ids : ids[k] = id}
          = {k \in DOMAIN b.items : (~item(k).valid \/ item(k).id # "absent") /\ ResponseId(item(k)) = id}
    BY <2>4
  <2>6. \A k \in DOMAIN b.items :
           ((~item(k).valid \/ item(k).id # "absent") /\ ResponseId(item(k)) = id) <=> k \in due
    <3> SUFFICES ASSUME NEW k \in DOMAIN b.items
                 PROVE  ((~item(k).valid \/ item(k).id # "absent") /\ ResponseId(item(k)) = id) <=> k \in due
      OBVIOUS
    <3>1. PICK x, y : x = b.items[k] /\ y = item(k)
      OBVIOUS
    <3>2. /\ x.form \in {"object", "tuple", "other"} /\ x.method \in BOOLEAN /\ x.id \in IdKinds
          /\ y = IF ParseSingleFromRaw(x) THEN Valid(x) ELSE Invalid(ExtractId(x))
      BY <1>0, <3>1 DEF item
    <3>3. ((~y.valid \/ y.id # "absent") /\ ResponseId(y) = id)
           <=> \/ (WellFormed(x) \/ x.form = "object") /\ x.id = id
               \/ ~WellFormed(x) /\ id = "null" /\ (x.form # "object" \/ x.id \in {"absent", "float", "bool"})
      BY <3>2, ElementAnswered
    <3> QED BY <3>1, <3>3
  <2>7. {k \in DOMAIN ids : ids[k] = id} = due
    BY <2>5, <2>6
  <2> QED BY <2>1, <2>7 DEF ids, parsed
<1> QED BY <1>0, <1>2, <1>3, <1>4, <1>5

\* A stream answers the one request or notification it was opened for.
LEMMA StreamIdsAreDue ==
    ASSUME NEW b \in Bodies, NEW id \in {"null", "number", "string"}, ParseJsonRpc(b).kind = "single"
    PROVE  Cardinality({k \in DOMAIN StreamIds(ParseJsonRpc(b)) : StreamIds(ParseJsonRpc(b))[k] = id})
             = Due(b, "stream", id)
<1> DEFINE e == b.items[1]
<1>0. /\ b.shape \in {"broken", "scalar", "object", "array"}
      /\ b.shape = "object" => Len(b.items) = 1 /\ DOMAIN b.items = 1 .. Len(b.items)
      /\ \A k \in DOMAIN b.items : b.items[k].form \in {"object", "tuple", "other"}
                                   /\ b.items[k].method \in BOOLEAN /\ b.items[k].id \in IdKinds
  BY BodiesAssumption
<1>1. b.shape = "object" /\ ParseSingleFromRaw(e)
  BY <1>0 DEF ParseJsonRpc, ParseBatch, e
<1>2. ParseJsonRpc(b).items = <<Valid(e)>>
  BY <1>1 DEF ParseJsonRpc, e
<1>3. StreamIds(ParseJsonRpc(b)) = <<ResponseId(Valid(e))>>
  BY <1>2 DEF StreamIds
<1>4. ResponseId(Valid(e)) = IF e.id = "absent" THEN "null" ELSE e.id
  BY DEF ResponseId, Valid
<1>5. e.id \in IdKinds /\ WellFormed(e)
  BY <1>0, <1>1 DEF ParseSingleFromRaw, WellFormed, IdValid, IdKinds, e
<1>6. Deserved(b, id) = IF e.id = id THEN 1 ELSE 0
  BY <1>1, <1>5 DEF Deserved, e
<1>7. Due(b, "stream", id) = IF ResponseId(Valid(e)) = id THEN 1 ELSE 0
  BY <1>1, <1>4, <1>5, <1>6 DEF Due, LoneNotification, e
<1> QED BY <1>3, <1>7, OneAnswer

\* What a step may report, and what is true of each.
EventSound(d, e) ==
    \/ e = None
    \/ e.kind \in {"refused", "error", "aborted"}
    \/ \E r \in Requests :
          /\ e = [kind |-> "forward", req |-> r, target |-> ExtractTargetUri(r, d), headers |-> ForwardedHeaders(r)]
          /\ DiscriminateTraffic(r) = "http" \/ ~d.handler
          /\ ExtractTargetUri(r, d) # None
    \/ \E b \in Bodies : e = [kind |-> "answer", body |-> b, via |-> "refusal", ids |-> RefusalIds]
    \/ \E b \in Bodies : e = [kind |-> "answer", body |-> b, via |-> "whole", ids |-> ResponseIds(ParseJsonRpc(b))]
    \/ \E b \in Bodies : /\ e = [kind |-> "answer", body |-> b, via |-> "stream", ids |-> StreamIds(ParseJsonRpc(b))]
                         /\ ParseJsonRpc(b).kind = "single"
    \/ \E n : e = [kind |-> "complete", frames |-> n, of |-> n, upstream |-> "done"]

\* An event that is sound for the deployment is as the invariant has it.
LEMMA SoundEvents == EventSound(deployment, event) => EventInv
<1> SUFFICES ASSUME EventSound(deployment, event) PROVE EventInv
  OBVIOUS
<1>1. CASE event = None \/ event.kind \in {"refused", "error", "aborted"}
  BY <1>1 DEF EventInv, GovernedIngress, AnswersTrue, IdsEchoed, CompleteOnlyAtEnd
<1>2. ASSUME NEW r \in Requests,
             event = [kind |-> "forward", req |-> r, target |-> ExtractTargetUri(r, deployment),
                      headers |-> ForwardedHeaders(r)],
             DiscriminateTraffic(r) = "http" \/ ~deployment.handler, ExtractTargetUri(r, deployment) # None
      PROVE  EventInv
  <2>1. event.kind = "forward" /\ event.req = r /\ event.target = ExtractTargetUri(r, deployment)
        /\ event.headers = ForwardedHeaders(r)
    BY <1>2
  <2>2. ~(deployment.handler /\ IsMcp(r))
    BY <1>2, McpIsFound
  <2>3. ExtractTargetUri(r, deployment) = "named" => deployment.forward /\ ~deployment.upstream
    <3>1. CASE deployment.upstream
      BY <1>2, <3>1 DEF ExtractTargetUri
    <3>2. CASE ~deployment.upstream /\ ~deployment.forward
      BY <1>2, <3>2 DEF ExtractTargetUri
    <3> QED BY <3>1, <3>2
  <2>4. ForwardedHeaders(r) \cap HopByHop = {}
    BY DEF ForwardedHeaders
  <2> QED BY <2>1, <2>2, <2>3, <2>4 DEF EventInv, GovernedIngress, AnswersTrue, IdsEchoed, CompleteOnlyAtEnd
<1>3. ASSUME NEW b \in Bodies, NEW via, NEW ids,
             event = [kind |-> "answer", body |-> b, via |-> via, ids |-> ids],
             \A id \in {"null", "number", "string"} :
                Cardinality({k \in DOMAIN ids : ids[k] = id}) = Due(b, via, id)
      PROVE  EventInv
  <2>1. event.kind = "answer" /\ event.body = b /\ event.via = via /\ event.ids = ids
    BY <1>3
  <2>2. IdKinds \ {"absent", "float", "bool"} = {"null", "number", "string"}
    BY DEF IdKinds
  <2>3. IdsEchoed
    BY <1>3, <2>1, <2>2 DEF IdsEchoed
  <2> QED BY <2>1, <2>3 DEF EventInv, GovernedIngress, AnswersTrue, CompleteOnlyAtEnd
<1>4. ASSUME NEW n, event = [kind |-> "complete", frames |-> n, of |-> n, upstream |-> "done"]
      PROVE  EventInv
  BY <1>4 DEF EventInv, GovernedIngress, AnswersTrue, IdsEchoed, CompleteOnlyAtEnd
<1>5. ASSUME NEW b \in Bodies, event = [kind |-> "answer", body |-> b, via |-> "refusal", ids |-> RefusalIds]
      PROVE  EventInv
  <2>1. \A id : Cardinality({k \in DOMAIN RefusalIds : RefusalIds[k] = id}) = IF id = "null" THEN 1 ELSE 0
    BY OneAnswer DEF RefusalIds
  <2>2. \A id : Due(b, "refusal", id) = IF id = "null" THEN 1 ELSE 0
    BY DEF Due
  <2>3. \A id \in {"null", "number", "string"} :
           Cardinality({k \in DOMAIN RefusalIds : RefusalIds[k] = id}) = Due(b, "refusal", id)
    BY <2>1, <2>2
  <2> QED BY <1>3, <1>5, <2>3
<1>6. ASSUME NEW b \in Bodies,
             event = [kind |-> "answer", body |-> b, via |-> "whole", ids |-> ResponseIds(ParseJsonRpc(b))]
      PROVE  EventInv
  <2>1. \A id : Due(b, "whole", id) = Deserved(b, id)
    BY DEF Due
  <2>2. \A id \in {"null", "number", "string"} :
           Cardinality({k \in DOMAIN ResponseIds(ParseJsonRpc(b)) : ResponseIds(ParseJsonRpc(b))[k] = id})
             = Due(b, "whole", id)
    BY <2>1, IdsAreDue
  <2> QED BY <1>3, <1>6, <2>2
<1>7. ASSUME NEW b \in Bodies, ParseJsonRpc(b).kind = "single",
             event = [kind |-> "answer", body |-> b, via |-> "stream", ids |-> StreamIds(ParseJsonRpc(b))]
      PROVE  EventInv
  BY <1>3, <1>7, StreamIdsAreDue
<1> QED BY <1>1, <1>2, <1>4, <1>5, <1>6, <1>7 DEF EventSound

\* A step inside a connection that has a task: it keeps the task.
Inside(c) ==
    /\ Phase(c) \in Served /\ ConnOnly
    /\ \E x \in Connections : x.phase \in Served /\ x.passed <= x.made /\ Set(c, x)

InsideStep(c) ==
    \/ FirstBytes(c) \/ ReadBody(c) \/ HandlerStreams(c)
    \/ UpstreamAnswers(c) \/ UpstreamSends(c) \/ PollFrame(c) \/ PollEnd(c)
    \/ ClientReads(c) \/ ClientLeaves(c) \/ Expire(c)
    \/ \E r \in Requests : HandleMcpRequest(c, r) \/ HandleHttpRequest(c, r)
    \/ \E body \in Bodies : HandlerRefuses(c, body) \/ HandlerAnswers(c, body) \/ StreamFinal(c, body)
    \/ \E kind \in {"refused", "timeout", "reset"} : UpstreamFails(c, kind)

\* What goes on inside a connection leaves the limiter and the counters, and says only sound things.
LEMMA InsideKeeps ==
    ASSUME TypeOK, NEW c \in Conns, InsideStep(c)
    PROVE  Inside(c) /\ EventSound(deployment, event')
<1> USE DEF Set, Turn
<1>0. /\ MaxFrames \in Nat /\ RequestTimeout \in Nat /\ ChunkTimeout \in Nat /\ TotalTimeout \in Nat
      /\ Grace \in Nat
  BY IngressAssumption
<1>1. conn[c] \in Connections /\ conn[c].passed <= conn[c].made
  BY DEF TypeOK
<1>2. \A p \in Served : [conn[c] EXCEPT !.phase = p] \in Connections
        /\ [conn[c] EXCEPT !.phase = p].phase = p
        /\ [conn[c] EXCEPT !.phase = p].passed <= [conn[c] EXCEPT !.phase = p].made
  BY <1>1 DEF Connections
<1>3. Answered(c) \in Connections /\ Answered(c).phase \in Served /\ Answered(c).passed <= Answered(c).made
  <2>1. PICK p \in {"idle", "ended"} :
          Answered(c) = [conn[c] EXCEPT !.phase = p, !.chunk = None, !.total = None, !.room = TRUE,
                                        !.made = 0, !.passed = 0, !.upstream = "open"]
    BY DEF Answered
  <2>2. 0 \in 0 .. MaxFrames /\ None \in Timer /\ p \in Served
    BY <1>0 DEF Timer, Served, Hyper
  <2>3. Answered(c) \in Connections
    BY <1>1, <2>1, <2>2 DEF Connections
  <2>4. Answered(c).phase = p /\ Answered(c).passed = 0 /\ Answered(c).made = 0
    BY <1>1, <2>1 DEF Connections
  <2> QED BY <2>2, <2>3, <2>4
<1>4. {"idle", "ended", "body", "handler", "answering", "upstream", "stream", "peek"} \subseteq Served
      /\ Hyper \subseteq Served /\ InFlight \subseteq Served
  BY DEF Served, Hyper, InFlight
<1>5. CASE FirstBytes(c) \/ HandlerStreams(c) \/ ClientLeaves(c) \/ GraceExpires(c) \/ TimeoutFires(c)
  <2>1. PICK p \in {"idle", "ended", "answering"} : Set(c, [conn[c] EXCEPT !.phase = p])
    BY <1>5 DEF FirstBytes, HandlerStreams, ClientLeaves, GraceExpires, TimeoutFires
  <2>2. Phase(c) \in Served /\ ConnOnly /\ event' = None
    BY <1>4, <1>5 DEF FirstBytes, HandlerStreams, ClientLeaves, GraceExpires, TimeoutFires
  <2>3. EventSound(deployment, event')
    BY <2>2 DEF EventSound
  <2>4. PICK x : x = [conn[c] EXCEPT !.phase = p]
    OBVIOUS
  <2>5. x \in Connections /\ x.phase \in Served /\ x.passed <= x.made
    BY <1>2, <1>4, <2>4
  <2>6. Set(c, x)
    BY <2>1, <2>4
  <2> QED BY <2>2, <2>3, <2>5, <2>6 DEF Inside
<1>6. CASE PollTimesOut(c)
  BY <1>2, <1>4, <1>6 DEF PollTimesOut, Inside, EventSound
<1>7. CASE ReadBody(c)
  <2>1. Phase(c) \in Served /\ ConnOnly
    BY <1>4, <1>7 DEF ReadBody
  <2>2. CASE Set(c, Turn(c, "handler")) /\ event' = None
    BY <1>2, <1>4, <2>1, <2>2 DEF Inside, EventSound
  <2>3. CASE Set(c, Answered(c)) /\ event' = [kind |-> "error", status |-> 200]
    BY <1>3, <2>1, <2>3 DEF Inside, EventSound
  <2> QED BY <1>7, <2>2, <2>3 DEF ReadBody
<1>8. CASE UpstreamAnswers(c)
  <2>1. [conn[c] EXCEPT !.phase = "stream", !.chunk = ChunkTimeout, !.total = TotalTimeout] \in Connections
    BY <1>0, <1>1, <1>4 DEF Connections, Timer
  <2> QED BY <1>1, <1>4, <1>8, <2>1 DEF UpstreamAnswers, Inside, EventSound, Connections
<1>9. CASE UpstreamSends(c)
  <2>1. PICK x : Set(c, x) /\ \/ conn[c].made < MaxFrames /\ x = [conn[c] EXCEPT !.made = @ + 1]
                              \/ x = [conn[c] EXCEPT !.upstream = "done"]
                              \/ x = [conn[c] EXCEPT !.upstream = "broken"]
    BY <1>9 DEF UpstreamSends
  <2>2. x \in Connections /\ x.phase = conn[c].phase /\ x.passed <= x.made
    BY <1>0, <1>1, <2>1 DEF Connections
  <2>3. Phase(c) \in Served /\ x.phase \in Served /\ ConnOnly /\ event' = None
    BY <1>4, <1>9, <2>2 DEF UpstreamSends, Phase
  <2>4. EventSound(deployment, event')
    BY <2>3 DEF EventSound
  <2> QED BY <2>1, <2>2, <2>3, <2>4 DEF Inside
<1>10. CASE PollFrame(c)
  <2>1. PICK room \in BOOLEAN :
          Set(c, [conn[c] EXCEPT !.passed = @ + 1, !.chunk = ChunkTimeout, !.room = room])
    BY <1>10 DEF PollFrame
  <2>2. PICK x : x = [conn[c] EXCEPT !.passed = @ + 1, !.chunk = ChunkTimeout, !.room = room]
    OBVIOUS
  <2>3. conn[c].passed < conn[c].made
    BY <1>10 DEF PollFrame
  <2>4. conn[c].passed \in 0 .. MaxFrames /\ conn[c].made \in 0 .. MaxFrames
    BY <1>1 DEF Connections
  <2>5. conn[c].passed + 1 \in 0 .. MaxFrames /\ conn[c].passed + 1 <= conn[c].made /\ ChunkTimeout \in Timer
    BY <1>0, <2>3, <2>4 DEF Timer
  <2>6. x \in Connections
    BY <1>1, <2>2, <2>5 DEF Connections
  <2>7. x.phase = conn[c].phase /\ x.passed = conn[c].passed + 1 /\ x.made = conn[c].made
    BY <1>1, <2>2 DEF Connections
  <2>8. Phase(c) \in Served /\ ConnOnly /\ event' = None
    BY <1>4, <1>10 DEF PollFrame
  <2>9. x.phase \in Served /\ x.passed <= x.made
    BY <2>5, <2>7, <2>8 DEF Phase
  <2>10. Set(c, x)
    BY <2>1, <2>2
  <2> HIDE DEF Set
  <2> QED BY <2>6, <2>8, <2>9, <2>10 DEF Inside, EventSound
<1>11. CASE PollEnd(c)
  <2>1. Phase(c) \in Served /\ ConnOnly
    BY <1>4, <1>11 DEF PollEnd
  <2>2. CASE Set(c, Answered(c)) /\ event' = [kind |-> "complete", frames |-> conn[c].passed,
                 of |-> conn[c].made, upstream |-> conn[c].upstream] /\ conn[c].upstream = "done"
    <3>1. conn[c].passed = conn[c].made
      BY <1>11 DEF PollEnd
    <3>2. EventSound(deployment, event')
      BY <2>2, <3>1 DEF EventSound
    <3> QED BY <1>3, <2>1, <2>2, <3>2 DEF Inside
  <2>3. CASE Set(c, Turn(c, "ended")) /\ event' = [kind |-> "aborted"]
    BY <1>2, <1>4, <2>1, <2>3 DEF Inside, EventSound
  <2> QED BY <1>11, <2>2, <2>3 DEF PollEnd
<1>12. CASE ClientReads(c)
  <2>1. [conn[c] EXCEPT !.room = TRUE] \in Connections
    BY <1>1 DEF Connections
  <2> QED BY <1>1, <1>4, <1>12, <2>1 DEF ClientReads, Inside, EventSound, Phase, Connections
<1>13. CASE GracefulShutdown(c)
  <2>1. [conn[c] EXCEPT !.grace = Grace] \in Connections
    BY <1>0, <1>1 DEF Connections, Timer
  <2>2. /\ [conn[c] EXCEPT !.grace = Grace].phase = Phase(c)
        /\ [conn[c] EXCEPT !.grace = Grace].passed <= [conn[c] EXCEPT !.grace = Grace].made
    BY <1>1 DEF Connections, Phase
  <2> QED BY <1>2, <1>4, <1>13, <2>1, <2>2 DEF GracefulShutdown, MustClose, Inside, EventSound
<1>14. ASSUME NEW r \in Requests, HandleMcpRequest(c, r) PROVE Inside(c) /\ EventSound(deployment, event')
  BY <1>2, <1>4, <1>14 DEF HandleMcpRequest, Inside, EventSound
<1>15. ASSUME NEW r \in Requests, HandleHttpRequest(c, r) PROVE Inside(c) /\ EventSound(deployment, event')
  <2>1. Inside(c)
    BY <1>1, <1>2, <1>4, <1>15 DEF HandleHttpRequest, Inside, Phase
  <2>2. EventSound(deployment, event')
    BY <1>15 DEF HandleHttpRequest, EventSound
  <2> QED BY <2>1, <2>2
<1>16. ASSUME NEW b \in Bodies, HandlerRefuses(c, b) \/ HandlerAnswers(c, b) \/ StreamFinal(c, b)
       PROVE  Inside(c) /\ EventSound(deployment, event')
  BY <1>3, <1>4, <1>16 DEF HandlerRefuses, HandlerAnswers, StreamFinal, Answers, Inside, EventSound
<1>17. ASSUME NEW kind \in {"refused", "timeout", "reset"}, UpstreamFails(c, kind)
       PROVE  Inside(c) /\ EventSound(deployment, event')
  BY <1>3, <1>4, <1>17 DEF UpstreamFails, Inside, EventSound
<1> QED BY <1>5, <1>6, <1>7, <1>8, <1>9, <1>10, <1>11, <1>12, <1>13, <1>14, <1>15, <1>16, <1>17
        DEF InsideStep, Expire

-----------------------------------------------------------------------------
(* Slots and limiters *)

\* A connection that only moves within, or only outside, the served phases
\* leaves the slots as they were.
LEMMA SameSlots ==
    ASSUME SlotsInv, UNCHANGED slots, \A c \in Conns : Phase(c)' \in Served <=> Phase(c) \in Served
    PROVE  SlotsInv'
<1>1. ServedConns' = ServedConns
  BY DEF ServedConns
<1>2. permits' = permits /\ active' = active /\ gauge' = gauge
  BY DEF slots
<1> QED BY <1>1, <1>2 DEF SlotsInv, SlotsExact, ServedConns

\* One connection is replaced.
LEMMA Replaced ==
    ASSUME TypeOK, NEW c \in Conns, NEW x \in Connections, x.passed <= x.made, Set(c, x)
    PROVE  /\ conn' \in [Conns -> Connections] /\ \A d \in Conns : conn'[d].passed <= conn'[d].made
           /\ Phase(c)' = x.phase /\ \A d \in Conns \ {c} : Phase(d)' = Phase(d)
<1>1. conn \in [Conns -> Connections] /\ \A d \in Conns : conn[d].passed <= conn[d].made
  BY DEF TypeOK
<1>2. conn' = [conn EXCEPT ![c] = x]
  BY DEF Set
<1>3. conn'[c] = x /\ \A d \in Conns \ {c} : conn'[d] = conn[d]
  BY <1>1, <1>2
<1>4. conn' \in [Conns -> Connections]
  BY <1>1, <1>2
<1> QED BY <1>1, <1>3, <1>4 DEF Phase

\* Counting a connection keeps an entry within the burst: it is refilled in
\* time however long the address then stays away.
LEMMA Counted ==
    ASSUME TypeOK, Refilled, NEW a \in Addrs, limiter' = Check(a)
    PROVE  /\ limiter' \in [Addrs -> [debt : 0 .. Burst, idle : 0 .. StaleAfter] \cup {None}]
           /\ Refilled'
           /\ limiter'[a] # None /\ limiter'[a].debt = IF Debt(a) < Burst THEN Debt(a) + 1 ELSE Debt(a)
           /\ limiter'[a].idle = 0
           /\ \A b \in Addrs \ {a} : limiter'[b] = limiter[b]
<1>0. Burst \in Nat \ {0} /\ StaleAfter \in Nat \ {0}
  BY IngressAssumption
<1>1. limiter \in [Addrs -> [debt : 0 .. Burst, idle : 0 .. StaleAfter] \cup {None}]
  BY DEF TypeOK
<1>2. Debt(a) \in 0 .. Burst
  BY <1>0, <1>1 DEF Debt
<1>3. PICK e : e = [debt |-> IF Debt(a) < Burst THEN Debt(a) + 1 ELSE Debt(a), idle |-> 0]
  OBVIOUS
<1>4. e.debt \in 0 .. Burst /\ e.idle = 0 /\ e \in [debt : 0 .. Burst, idle : 0 .. StaleAfter]
      /\ e.debt = IF Debt(a) < Burst THEN Debt(a) + 1 ELSE Debt(a)
  BY <1>0, <1>2, <1>3
<1>5. limiter' = [limiter EXCEPT ![a] = e]
  BY <1>3 DEF Check, CheckAllows
<1>6. limiter' \in [Addrs -> [debt : 0 .. Burst, idle : 0 .. StaleAfter] \cup {None}]
  BY <1>1, <1>4, <1>5
<1>7. limiter'[a] = e /\ \A b \in Addrs \ {a} : limiter'[b] = limiter[b]
  BY <1>1, <1>5
<1>8. e # None
  <2>1. e \in [debt : Nat, idle : Nat]
    BY <1>0, <1>4, <1>2, <1>3
  <2> QED BY <2>1, NoneAssumption
<1>9. \A b \in Addrs : limiter'[b] # None =>
         limiter'[b].debt = 0 \/ limiter'[b].debt + limiter'[b].idle <= Burst
  <2> SUFFICES ASSUME NEW b \in Addrs, limiter'[b] # None
               PROVE  limiter'[b].debt = 0 \/ limiter'[b].debt + limiter'[b].idle <= Burst
    OBVIOUS
  <2>1. CASE b = a
    BY <1>0, <1>4, <1>7, <2>1
  <2>2. CASE b # a
    BY <1>7, <2>2 DEF Refilled
  <2> QED BY <2>1, <2>2
<1> QED BY <1>4, <1>6, <1>7, <1>8, <1>9 DEF Refilled

-----------------------------------------------------------------------------
(* Steps *)

\* The invariant holds at first.
LEMMA InitInd == Init => IndInv
<1> SUFFICES ASSUME Init PROVE IndInv
  OBVIOUS
<1>0. {Burst, StaleAfter, MaxStreams} \subseteq Nat \ {0} /\ MaxFrames \in Nat
  BY IngressAssumption
<1>1. Away \in Connections /\ Away.passed <= Away.made /\ Away.phase = "away"
  BY <1>0 DEF Away, Connections, Timer
<1>2. \A c \in Conns : conn[c] = Away
  BY DEF Init
<1>3. TypeOK
  BY <1>0, <1>1 DEF Init, TypeOK
<1>4. Refilled
  BY DEF Init, Refilled
<1>5. ServedConns = {}
  BY <1>1, <1>2 DEF ServedConns, Phase, Served, Hyper, InFlight
<1>6. IsFiniteSet({}) /\ Cardinality({}) = 0
  BY FS_EmptySet
<1>7. SlotsInv
  BY <1>0, <1>5, <1>6 DEF Init, SlotsInv, SlotsExact, ServedConns
<1>8. EventInv
  BY SoundEvents DEF Init, EventSound
<1> QED BY <1>3, <1>4, <1>7, <1>8 DEF IndInv

\* A step inside a connection that has a task.
LEMMA InsideInd ==
    ASSUME IndInv, NEW c \in Conns, InsideStep(c)
    PROVE  IndInv'
<1>1. Inside(c) /\ EventSound(deployment, event')
  BY InsideKeeps DEF IndInv
<1>2. PICK x \in Connections : x.phase \in Served /\ x.passed <= x.made /\ Set(c, x)
  BY <1>1 DEF Inside
<1>3. /\ conn' \in [Conns -> Connections] /\ \A d \in Conns : conn'[d].passed <= conn'[d].made
      /\ Phase(c)' = x.phase /\ \A d \in Conns \ {c} : Phase(d)' = Phase(d)
  BY <1>2, Replaced DEF IndInv
<1>4. Phase(c) \in Served /\ UNCHANGED <<deployment, limiter, slots, shutdown>>
  BY <1>1 DEF Inside, ConnOnly
<1>5. TypeOK'
  BY <1>3, <1>4 DEF IndInv, TypeOK, slots
<1>6. Refilled'
  BY <1>4 DEF IndInv, Refilled
<1>7. \A d \in Conns : Phase(d)' \in Served <=> Phase(d) \in Served
  BY <1>2, <1>3, <1>4
<1>8. SlotsInv'
  BY <1>4, <1>7, SameSlots DEF IndInv
<1>9. (EventSound(deployment, event) => EventInv)'
  BY SoundEvents, PTL
<1>10. EventInv'
  BY <1>1, <1>4, <1>9 DEF EventSound
<1> QED BY <1>5, <1>6, <1>8, <1>10 DEF IndInv

\* Coming in, and being turned away: no slot is taken.
LEMMA OutsideInd ==
    ASSUME IndInv, NEW c \in Conns, Connect(c) \/ RefuseShutdown(c) \/ RateLimited(c) \/ StreamsExhausted(c)
    PROVE  IndInv'
<1>0. MaxFrames \in Nat /\ AddrOf[c] \in Addrs
  BY IngressAssumption
<1>1. conn[c] \in Connections /\ conn[c].passed <= conn[c].made
  BY DEF IndInv, TypeOK
<1>2. Away \in Connections /\ Away.passed <= Away.made /\ Away.phase = "away"
  BY <1>0 DEF Away, Connections, Timer
<1>3. /\ Turn(c, "queued") \in Connections /\ Turn(c, "queued").passed <= Turn(c, "queued").made
      /\ Turn(c, "queued").phase = "queued"
  BY <1>1 DEF Turn, Connections
<1>4. PICK x \in Connections : x.passed <= x.made /\ x.phase \in {"away", "queued"} /\ Set(c, x)
  <2>1. Set(c, Turn(c, "queued")) \/ Set(c, Away)
    BY DEF Connect, RefuseShutdown, RateLimited, StreamsExhausted
  <2> QED BY <1>2, <1>3, <2>1
<1>5. /\ conn' \in [Conns -> Connections] /\ \A d \in Conns : conn'[d].passed <= conn'[d].made
      /\ Phase(c)' = x.phase /\ \A d \in Conns \ {c} : Phase(d)' = Phase(d)
  BY <1>4, Replaced DEF IndInv
<1>6. Phase(c) \in {"away", "queued"} /\ UNCHANGED <<deployment, slots, shutdown>>
  BY DEF Connect, RefuseShutdown, RateLimited, StreamsExhausted
<1>7. limiter' = limiter \/ limiter' = Check(AddrOf[c])
  BY DEF Connect, RefuseShutdown, RateLimited, StreamsExhausted
<1>8. /\ limiter' \in [Addrs -> [debt : 0 .. Burst, idle : 0 .. StaleAfter] \cup {None}]
      /\ Refilled'
  <2>1. CASE limiter' = limiter
    BY <2>1 DEF IndInv, TypeOK, Refilled
  <2>2. CASE limiter' = Check(AddrOf[c])
    BY <1>0, <2>2, Counted DEF IndInv
  <2> QED BY <1>7, <2>1, <2>2
<1>9. TypeOK'
  BY <1>5, <1>6, <1>8 DEF IndInv, TypeOK, slots
<1>10. "away" \notin Served /\ "queued" \notin Served
  BY DEF Served, Hyper, InFlight
<1>11. \A d \in Conns : Phase(d)' \in Served <=> Phase(d) \in Served
  BY <1>4, <1>5, <1>6, <1>10
<1>12. SlotsInv'
  BY <1>6, <1>11, SameSlots DEF IndInv
<1>13. (EventSound(deployment, event) => EventInv)'
  BY SoundEvents, PTL
<1>14. event' = None \/ event'.kind = "refused"
  BY DEF Connect, RefuseShutdown, RateLimited, StreamsExhausted,
         Send429Response, Send503Response, Send503ShutdownResponse
<1>15. EventInv'
  BY <1>13, <1>14 DEF EventSound
<1> QED BY <1>8, <1>9, <1>12, <1>15 DEF IndInv

\* A task begins: one slot is taken.
LEMMA SpawnInd ==
    ASSUME IndInv, NEW c \in Conns, Spawn(c)
    PROVE  IndInv'
<1>0. MaxStreams \in Nat /\ RequestTimeout \in Nat /\ AddrOf[c] \in Addrs
  BY IngressAssumption
<1>1. conn[c] \in Connections /\ conn[c].passed <= conn[c].made
  BY DEF IndInv, TypeOK
<1>2. PICK x : x = [conn[c] EXCEPT !.phase = "peek", !.life = RequestTimeout]
  OBVIOUS
<1>3. x \in Connections /\ x.passed <= x.made /\ x.phase = "peek"
  BY <1>0, <1>1, <1>2 DEF Connections, Timer, Served
<1>4. /\ conn' \in [Conns -> Connections] /\ \A d \in Conns : conn'[d].passed <= conn'[d].made
      /\ Phase(c)' = x.phase /\ \A d \in Conns \ {c} : Phase(d)' = Phase(d)
  <2>1. Set(c, x)
    BY <1>2 DEF Spawn
  <2> QED BY <1>3, <2>1, Replaced DEF IndInv
<1>5. /\ limiter' \in [Addrs -> [debt : 0 .. Burst, idle : 0 .. StaleAfter] \cup {None}]
      /\ Refilled'
  BY <1>0, Counted DEF IndInv, Spawn
<1>6. "queued" \notin Served /\ "peek" \in Served
  BY DEF Served, Hyper, InFlight
<1>7. c \notin ServedConns /\ ServedConns' = ServedConns \cup {c}
  BY <1>3, <1>4, <1>6 DEF Spawn, ServedConns
<1>8. IsFiniteSet(ServedConns') /\ Cardinality(ServedConns') = Cardinality(ServedConns) + 1
  BY <1>7, FS_AddElement DEF IndInv, SlotsInv
<1>9. Cardinality(ServedConns) \in Nat
  BY FS_CardinalityType DEF IndInv, SlotsInv
<1>10. permits = MaxStreams - Cardinality(ServedConns) /\ active = Cardinality(ServedConns)
       /\ gauge = Cardinality(ServedConns)
  BY DEF IndInv, SlotsInv, SlotsExact, ServedConns
<1>11. permits > 0 /\ permits' = permits - 1 /\ active' = active + 1 /\ gauge' = gauge + 1
       /\ UNCHANGED <<deployment, shutdown>> /\ event' = None
  BY DEF Spawn
<1>12. SlotsInv'
  <2>1. permits' = MaxStreams - Cardinality(ServedConns') /\ active' = Cardinality(ServedConns')
        /\ gauge' = Cardinality(ServedConns')
    BY <1>0, <1>8, <1>9, <1>10, <1>11
  <2> QED BY <1>8, <2>1 DEF SlotsInv, SlotsExact, ServedConns
<1>13. permits' \in 0 .. MaxStreams /\ active' \in Nat /\ gauge' \in Nat
  BY <1>0, <1>9, <1>10, <1>11 DEF IndInv, TypeOK
<1>14. TypeOK'
  BY <1>4, <1>5, <1>11, <1>13 DEF IndInv, TypeOK
<1>15. (EventSound(deployment, event) => EventInv)'
  BY SoundEvents, PTL
<1> QED BY <1>5, <1>11, <1>12, <1>14, <1>15 DEF IndInv, EventSound

\* A task ends: its slot is given back.
LEMMA EndInd ==
    ASSUME IndInv, NEW c \in Conns, EndConnection(c)
    PROVE  IndInv'
<1>0. MaxStreams \in Nat /\ MaxFrames \in Nat
  BY IngressAssumption
<1>1. Away \in Connections /\ Away.passed <= Away.made /\ Away.phase = "away"
  BY <1>0 DEF Away, Connections, Timer
<1>2. /\ conn' \in [Conns -> Connections] /\ \A d \in Conns : conn'[d].passed <= conn'[d].made
      /\ Phase(c)' = "away" /\ \A d \in Conns \ {c} : Phase(d)' = Phase(d)
  <2>1. Set(c, Away)
    BY DEF EndConnection
  <2> QED BY <1>1, <2>1, Replaced DEF IndInv
<1>3. "away" \notin Served /\ "ended" \in Served
  BY DEF Served, Hyper, InFlight
<1>4. c \in ServedConns /\ ServedConns' = ServedConns \ {c}
  BY <1>2, <1>3 DEF EndConnection, ServedConns
<1>5. IsFiniteSet(ServedConns') /\ Cardinality(ServedConns') = Cardinality(ServedConns) - 1
  BY <1>4, FS_RemoveElement DEF IndInv, SlotsInv
<1>6. Cardinality(ServedConns) \in Nat /\ Cardinality(ServedConns') \in Nat
  BY <1>5, FS_CardinalityType DEF IndInv, SlotsInv
<1>7. permits = MaxStreams - Cardinality(ServedConns) /\ active = Cardinality(ServedConns)
       /\ gauge = Cardinality(ServedConns)
  BY DEF IndInv, SlotsInv, SlotsExact, ServedConns
<1>8. permits' = permits + 1 /\ active' = active - 1 /\ gauge' = gauge - 1
       /\ UNCHANGED <<deployment, limiter, shutdown>> /\ event' = None
  BY DEF EndConnection
<1>9. permits' = MaxStreams - Cardinality(ServedConns') /\ active' = Cardinality(ServedConns')
        /\ gauge' = Cardinality(ServedConns')
  BY <1>0, <1>5, <1>6, <1>7, <1>8
<1>10. SlotsInv'
  BY <1>5, <1>9 DEF SlotsInv, SlotsExact, ServedConns
<1>11. permits' \in 0 .. MaxStreams /\ active' \in Nat /\ gauge' \in Nat
  <2>1. permits \in Nat
    BY <1>0 DEF IndInv, TypeOK
  <2> QED BY <1>0, <1>6, <1>8, <1>9, <2>1
<1>12. TypeOK'
  BY <1>2, <1>8, <1>11 DEF IndInv, TypeOK
<1>13. Refilled'
  BY <1>8 DEF IndInv, Refilled
<1>14. (EventSound(deployment, event) => EventInv)'
  BY SoundEvents, PTL
<1> QED BY <1>8, <1>10, <1>12, <1>13, <1>14 DEF IndInv, EventSound

\* A limiter that is forgotten owes nothing when a bucket is full again by then.
LEMMA StaleOwesNothing ==
    ASSUME TypeOK, Refilled, NEW a \in Addrs, Stale(a), StaleAfter >= Burst
    PROVE  limiter[a].debt = 0
<1>0. Burst \in Nat /\ StaleAfter \in Nat /\ StaleAfter >= Burst
  BY IngressAssumption
<1>1. limiter[a] # None /\ limiter[a].idle >= StaleAfter
  BY DEF Stale
<1>2. limiter[a] \in [debt : 0 .. Burst, idle : 0 .. StaleAfter]
  BY <1>1 DEF TypeOK
<1>3. limiter[a].debt \in 0 .. Burst /\ limiter[a].idle \in 0 .. StaleAfter
  BY <1>2
<1>4. limiter[a].debt = 0 \/ limiter[a].debt + limiter[a].idle <= Burst
  BY <1>1 DEF Refilled
<1> QED BY <1>0, <1>1, <1>3, <1>4

\* What a tick does to one limiter.
LEMMA Ticked ==
    ASSUME TypeOK, Refilled, Tick, NEW a \in Addrs
    PROVE  /\ limiter[a] = None => limiter'[a] = None
           /\ limiter[a] # None =>
                 /\ limiter'[a] \in [debt : 0 .. Burst, idle : 0 .. StaleAfter]
                 /\ limiter'[a] # None
                 /\ limiter'[a].debt = IF limiter[a].debt = 0 THEN 0 ELSE limiter[a].debt - 1
                 /\ limiter'[a].idle = IF limiter[a].idle < StaleAfter THEN limiter[a].idle + 1 ELSE StaleAfter
                 /\ limiter'[a].debt = 0 \/ limiter'[a].debt + limiter'[a].idle <= Burst
<1>0. Burst \in Nat /\ StaleAfter \in Nat
  BY IngressAssumption
<1>1. limiter' = [b \in Addrs |->
                     IF limiter[b] = None THEN None
                     ELSE [debt |-> Less(limiter[b].debt),
                           idle |-> IF limiter[b].idle < StaleAfter THEN limiter[b].idle + 1 ELSE StaleAfter]]
  BY DEF Tick
<1>2. SUFFICES ASSUME limiter[a] # None
               PROVE  /\ limiter'[a] \in [debt : 0 .. Burst, idle : 0 .. StaleAfter]
                      /\ limiter'[a] # None
                      /\ limiter'[a].debt = IF limiter[a].debt = 0 THEN 0 ELSE limiter[a].debt - 1
                      /\ limiter'[a].idle = IF limiter[a].idle < StaleAfter THEN limiter[a].idle + 1 ELSE StaleAfter
                      /\ limiter'[a].debt = 0 \/ limiter'[a].debt + limiter'[a].idle <= Burst
  BY <1>1
<1>3. limiter[a] \in [debt : 0 .. Burst, idle : 0 .. StaleAfter]
  BY <1>2 DEF TypeOK
<1>4. PICK n, i : n = limiter[a].debt /\ i = limiter[a].idle
  OBVIOUS
<1>5. n \in 0 .. Burst /\ i \in 0 .. StaleAfter
  BY <1>3, <1>4
<1>6. Less(n) = IF n = 0 THEN 0 ELSE n - 1
  <2>1. n # None
    BY <1>0, <1>5, NoneAssumption
  <2> QED BY <2>1 DEF Less
<1>7. n = 0 \/ n + i <= Burst
  BY <1>2, <1>4 DEF Refilled
<1>8. PICK m, j : m = Less(n) /\ j = IF i < StaleAfter THEN i + 1 ELSE StaleAfter
  OBVIOUS
<1>9. m \in 0 .. Burst /\ j \in 0 .. StaleAfter /\ (m = 0 \/ m + j <= Burst)
      /\ m = IF n = 0 THEN 0 ELSE n - 1
  BY <1>0, <1>5, <1>6, <1>7, <1>8
<1>10. limiter'[a] = [debt |-> m, idle |-> j]
  BY <1>1, <1>2, <1>4, <1>8
<1>11. limiter'[a] # None
  <2>1. [debt |-> m, idle |-> j] \in [debt : Nat, idle : Nat]
    BY <1>0, <1>9
  <2> QED BY <1>10, <2>1, NoneAssumption
<1>12. limiter'[a].debt = m /\ limiter'[a].idle = j
  BY <1>10
<1> QED BY <1>4, <1>8, <1>9, <1>10, <1>11, <1>12

\* Forgetting idle addresses keeps it.
LEMMA CleanupInd == IndInv /\ CleanupStale => IndInv'
<1> SUFFICES ASSUME IndInv, CleanupStale PROVE IndInv'
  OBVIOUS
<1>1. /\ limiter' = [a \in Addrs |-> IF Stale(a) THEN None ELSE limiter[a]]
      /\ UNCHANGED <<deployment, conn, slots, shutdown>> /\ event' = None
  BY DEF CleanupStale
<1>2. limiter' \in [Addrs -> [debt : 0 .. Burst, idle : 0 .. StaleAfter] \cup {None}]
  BY <1>1 DEF IndInv, TypeOK
<1>3. TypeOK'
  BY <1>1, <1>2 DEF IndInv, TypeOK, slots
<1>4. Refilled'
  BY <1>1 DEF IndInv, Refilled
<1>5. SlotsInv'
  BY <1>1, SameSlots DEF IndInv, Phase
<1>6. (EventSound(deployment, event) => EventInv)'
  BY SoundEvents, PTL
<1> QED BY <1>1, <1>3, <1>4, <1>5, <1>6 DEF IndInv, EventSound

\* The signals of a shutdown keep it.
LEMMA SignalInd == IndInv /\ (BeginShutdown \/ CancelToken) => IndInv'
<1> SUFFICES ASSUME IndInv, BeginShutdown \/ CancelToken PROVE IndInv'
  OBVIOUS
<1>1. UNCHANGED <<deployment, conn, limiter, slots>> /\ event' = None /\ shutdown' \in {"begun", "cancelled"}
  BY DEF BeginShutdown, CancelToken
<1>2. TypeOK'
  BY <1>1 DEF IndInv, TypeOK, slots
<1>3. Refilled'
  BY <1>1 DEF IndInv, Refilled
<1>4. SlotsInv'
  BY <1>1, SameSlots DEF IndInv, Phase
<1>5. (EventSound(deployment, event) => EventInv)'
  BY SoundEvents, PTL
<1> QED BY <1>1, <1>2, <1>3, <1>4, <1>5 DEF IndInv, EventSound

\* Time passing keeps it.
LEMMA TickInd == IndInv /\ Tick => IndInv'
<1> SUFFICES ASSUME IndInv, Tick PROVE IndInv'
  OBVIOUS
<1>1. UNCHANGED <<deployment, slots, shutdown>> /\ event' = None
  BY DEF Tick
<1>2. \A c \in Conns : conn'[c] \in Connections /\ conn'[c].passed <= conn'[c].made /\ Phase(c)' = Phase(c)
  <2> SUFFICES ASSUME NEW c \in Conns
               PROVE  conn'[c] \in Connections /\ conn'[c].passed <= conn'[c].made /\ Phase(c)' = Phase(c)
    OBVIOUS
  <2>1. conn[c] \in Connections /\ conn[c].passed <= conn[c].made
    BY DEF IndInv, TypeOK
  <2>2. PICK w : /\ w \in {conn[c].waited, conn[c].waited + 1}
                 /\ conn'[c] = [conn[c] EXCEPT !.life = Less(conn[c].life), !.grace = Less(conn[c].grace),
                                    !.chunk = Less(conn[c].chunk), !.total = Less(conn[c].total), !.waited = w]
    BY DEF Tick
  <2>3. \A t \in Timer : Less(t) \in Timer
    BY DEF Less, Timer
  <2>4. /\ Less(conn[c].life) \in Timer /\ Less(conn[c].grace) \in Timer
        /\ Less(conn[c].chunk) \in Timer /\ Less(conn[c].total) \in Timer
    BY <2>1, <2>3 DEF Connections
  <2>5. w \in Nat
    BY <2>1, <2>2 DEF Connections
  <2>6. conn'[c] \in Connections
    BY <2>1, <2>2, <2>4, <2>5 DEF Connections
  <2>7. conn'[c].passed = conn[c].passed /\ conn'[c].made = conn[c].made /\ conn'[c].phase = conn[c].phase
    BY <2>1, <2>2 DEF Connections
  <2> QED BY <2>1, <2>6, <2>7 DEF Phase
<1>3. conn' \in [Conns -> Connections]
  <2>1. conn' = [c \in Conns |-> conn'[c]]
    BY DEF Tick
  <2> QED BY <1>2, <2>1
<1>4. limiter' \in [Addrs -> [debt : 0 .. Burst, idle : 0 .. StaleAfter] \cup {None}] /\ Refilled'
  <2>1. limiter' = [a \in Addrs |-> limiter'[a]]
    BY DEF Tick
  <2>2. \A a \in Addrs :
           /\ limiter'[a] \in [debt : 0 .. Burst, idle : 0 .. StaleAfter] \cup {None}
           /\ limiter'[a] # None => limiter'[a].debt = 0 \/ limiter'[a].debt + limiter'[a].idle <= Burst
    BY Ticked DEF IndInv
  <2> QED BY <2>1, <2>2 DEF Refilled
<1>5. TypeOK'
  BY <1>1, <1>2, <1>3, <1>4 DEF IndInv, TypeOK, slots
<1>6. SlotsInv'
  BY <1>1, <1>2, SameSlots DEF IndInv
<1>7. (EventSound(deployment, event) => EventInv)'
  BY SoundEvents, PTL
<1> QED BY <1>1, <1>4, <1>5, <1>6, <1>7 DEF IndInv, EventSound

-----------------------------------------------------------------------------
(* Theorems *)

\* The inductive invariant: types, refilled limiters, counted slots and sound
\* answers hold in every state of every behaviour.
THEOREM Inductive == Spec => []IndInv
<1>1. ASSUME IndInv, [Next]_vars PROVE IndInv'
  <2>1. ASSUME NEW c \in Conns, ConnStep(c) PROVE IndInv'
    <3>1. \/ Connect(c) \/ RefuseShutdown(c) \/ RateLimited(c) \/ StreamsExhausted(c)
          \/ Spawn(c) \/ EndConnection(c) \/ InsideStep(c)
      BY <2>1 DEF ConnStep, InsideStep
    <3> QED BY <1>1, <3>1, OutsideInd, SpawnInd, EndInd, InsideInd
  <2>2. CASE UNCHANGED vars
    BY <1>1, <2>2 DEF vars, slots, IndInv, TypeOK, Refilled, SlotsInv, SlotsExact, ServedConns, Phase,
                      EventInv, GovernedIngress, AnswersTrue, IdsEchoed, CompleteOnlyAtEnd
  <2> QED BY <1>1, <2>1, <2>2, CleanupInd, SignalInd, TickInd DEF Next
<1> QED BY InitInd, <1>1, PTL DEF Spec

\* Every variable keeps its type, and no streamed answer passes on more frames
\* than its upstream made.
THEOREM TypeCorrect == Spec => []TypeOK
<1>1. IndInv => TypeOK
  BY DEF IndInv
<1> QED BY Inductive, <1>1, PTL

\* Permits, active_requests and the gauge agree with the connections that have a
\* task, however these end.
THEOREM SlotsAreExact == Spec => []SlotsExact
<1>1. IndInv => SlotsExact
  BY DEF IndInv, SlotsInv
<1> QED BY Inductive, <1>1, PTL

\* handle_request never sends an MCP request to the upstream past the handler,
\* whatever slashes its path has, nor to a host it was not configured for.
THEOREM IngressIsGoverned == Spec => []GovernedIngress
<1>1. IndInv => GovernedIngress
  BY DEF IndInv, EventInv
<1> QED BY Inductive, <1>1, PTL

\* Every body, of any length and whatever is wrong with its elements, is answered
\* with exactly the ids that are due, and only whole answers are called complete.
THEOREM AnswersAreTrue == Spec => []AnswersTrue
<1>1. IndInv => AnswersTrue
  BY DEF IndInv, EventInv
<1> QED BY Inductive, <1>1, PTL

-----------------------------------------------------------------------------
(* The token bucket *)

\* What an address owes is between nothing and a full bucket.
LEMMA DebtType ==
    ASSUME TypeOK, NEW a \in Addrs
    PROVE  Burst \in Nat /\ Debt(a) \in 0 .. Burst /\ Idle(a) \in 0 .. StaleAfter
<1>1. Burst \in Nat \ {0} /\ StaleAfter \in Nat
  BY IngressAssumption
<1>2. limiter[a] # None => limiter[a] \in [debt : 0 .. Burst, idle : 0 .. StaleAfter]
  BY DEF TypeOK
<1> QED BY <1>1, <1>2 DEF Debt, Idle

tokens == [a \in Addrs |-> Burst - Debt(a)]
idle == [a \in Addrs |-> Idle(a)]

\* check takes a token when there is one, and has seen the address either way.
LEMMA CheckTakes ==
    ASSUME TypeOK, Refilled, NEW a \in Addrs, limiter' = Check(a)
    PROVE  /\ Debt(a)' = IF Debt(a) < Burst THEN Debt(a) + 1 ELSE Debt(a)
           /\ Idle(a)' = 0
           /\ \A b \in Addrs \ {a} : Debt(b)' = Debt(b) /\ Idle(b)' = Idle(b)
BY Counted DEF Debt, Idle

\* A connection that is let in takes a token, one that is not is refused by an
\* empty bucket.
LEMMA CheckRefines ==
    ASSUME TypeOK, Refilled, NEW a \in Addrs, limiter' = Check(a)
    PROVE  IF CheckAllows(a) THEN Bucket!Take(a) ELSE Bucket!Refuse(a)
<1>1. Burst \in Nat /\ \A b \in Addrs : Debt(b) \in 0 .. Burst
  BY DebtType, IngressAssumption
<1>2. \A b \in Addrs : idle'[b] = [idle EXCEPT ![a] = 0][b]
  BY CheckTakes DEF idle
<1>3. idle' = [idle EXCEPT ![a] = 0]
  BY <1>2 DEF idle
<1>4. CASE CheckAllows(a)
  <2>1. Debt(a) < Burst
    BY <1>4 DEF CheckAllows
  <2>2. Debt(a)' = Debt(a) + 1 /\ \A b \in Addrs \ {a} : Debt(b)' = Debt(b)
    BY <2>1, CheckTakes
  <2>3. tokens[a] > 0
    BY <1>1, <2>1 DEF tokens
  <2>4. \A b \in Addrs : tokens'[b] = [tokens EXCEPT ![a] = @ - 1][b]
    BY <1>1, <2>2 DEF tokens
  <2>5. tokens' = [tokens EXCEPT ![a] = @ - 1]
    BY <2>4 DEF tokens
  <2> QED BY <1>3, <1>4, <2>3, <2>5 DEF Bucket!Take, tokens, idle
<1>5. CASE ~CheckAllows(a)
  <2>1. ~(Debt(a) < Burst)
    BY <1>5 DEF CheckAllows
  <2>2. \A b \in Addrs : Debt(b)' = Debt(b)
    BY <2>1, CheckTakes
  <2>3. tokens[a] = 0 /\ tokens' = tokens
    BY <1>1, <2>1, <2>2 DEF tokens
  <2> QED BY <1>3, <1>5, <2>3 DEF Bucket!Refuse, tokens, idle
<1> QED BY <1>4, <1>5

\* Time passing refills the buckets.
LEMMA TickRefines ==
    ASSUME TypeOK, Refilled, Tick
    PROVE  Bucket!Refill
<1>1. Burst \in Nat /\ StaleAfter \in Nat /\ \A b \in Addrs : Debt(b) \in 0 .. Burst
  BY DebtType, IngressAssumption
<1>2. \A a \in Addrs : Debt(a)' = IF Debt(a) = 0 THEN 0 ELSE Debt(a) - 1
  BY Ticked DEF Debt
<1>3. \A a \in Addrs : tokens'[a] = IF tokens[a] < Burst THEN tokens[a] + 1 ELSE Burst
  BY <1>1, <1>2 DEF tokens
<1>4. tokens' = [a \in Addrs |-> IF tokens[a] < Burst THEN tokens[a] + 1 ELSE Burst]
  BY <1>3 DEF tokens
<1>5. \A a \in Addrs : Idle(a)' = IF Idle(a) < StaleAfter THEN Idle(a) + 1 ELSE StaleAfter
  BY <1>1, Ticked DEF Idle
<1>6. idle' = [a \in Addrs |-> IF idle[a] < StaleAfter THEN idle[a] + 1 ELSE StaleAfter]
  BY <1>5 DEF idle
<1> QED BY <1>4, <1>6 DEF Bucket!Refill, tokens, idle

\* The sweep fills the buckets of addresses that have not been seen for long.
LEMMA CleanupRefines ==
    ASSUME TypeOK, CleanupStale
    PROVE  Bucket!Forget
<1>1. Burst \in Nat /\ StaleAfter \in Nat
  BY IngressAssumption
<1>2. \A a \in Addrs : limiter'[a] = IF Stale(a) THEN None ELSE limiter[a]
  BY DEF CleanupStale
<1>3. ASSUME NEW a \in Addrs
      PROVE  /\ Idle(a)' = Idle(a)
             /\ Burst - Debt(a)' = IF Idle(a) >= StaleAfter THEN Burst ELSE Burst - Debt(a)
  <2>1. CASE limiter[a] = None
    BY <1>1, <1>2, <2>1 DEF Stale, Idle, Debt
  <2>2. CASE limiter[a] # None /\ Stale(a)
    <3>1. Idle(a) = StaleAfter
      BY <1>1, <2>2, DebtType DEF Stale, Idle
    <3> QED BY <1>1, <1>2, <2>2, <3>1 DEF Idle, Debt
  <2>3. CASE limiter[a] # None /\ ~Stale(a)
    BY <1>2, <2>3 DEF Stale, Idle, Debt
  <2> QED BY <2>1, <2>2, <2>3
<1>4. idle' = idle
  BY <1>3 DEF idle
<1>5. tokens' = [a \in Addrs |-> IF idle[a] >= StaleAfter THEN Burst ELSE tokens[a]]
  BY <1>3 DEF tokens, idle
<1> QED BY <1>4, <1>5 DEF Bucket!Forget, tokens, idle

\* The limiter is a token bucket per address for every burst and every stale_after:
\* a tick refills, a connection takes a token or is refused by an empty bucket,
\* and the sweep fills only what has not been heard of for stale_after.
THEOREM LimiterRefines == Spec => BucketSpec
<1>1. Init => Bucket!Init
  <2> SUFFICES ASSUME Init PROVE Bucket!Init
    OBVIOUS
  <2>1. \A a \in Addrs : Burst - Debt(a) = Burst /\ Idle(a) = StaleAfter
    BY IngressAssumption DEF Init, Debt, Idle
  <2> QED BY <2>1 DEF Bucket!Init
<1>2. ASSUME IndInv, [Next]_vars
      PROVE  \/ Bucket!Refill \/ Bucket!Forget
             \/ \E a \in Addrs : Bucket!Take(a) \/ Bucket!Refuse(a)
             \/ UNCHANGED <<[a \in Addrs |-> Burst - Debt(a)], [a \in Addrs |-> Idle(a)]>>
  <2>1. TypeOK /\ Refilled
    BY <1>2 DEF IndInv
  <2>2. CASE limiter' = limiter
    BY <2>2 DEF Debt, Idle
  <2>3. CASE Tick
    BY <2>1, <2>3, TickRefines
  <2>4. CASE CleanupStale
    BY <2>1, <2>4, CleanupRefines
  <2>5. ASSUME NEW c \in Conns, StreamsExhausted(c) \/ Spawn(c) \/ RateLimited(c)
        PROVE  \E a \in Addrs : Bucket!Take(a) \/ Bucket!Refuse(a)
    <3>1. AddrOf[c] \in Addrs
      BY IngressAssumption
    <3>2. limiter' = Check(AddrOf[c])
      BY <2>5 DEF StreamsExhausted, Spawn, RateLimited
    <3>3. Bucket!Take(AddrOf[c]) \/ Bucket!Refuse(AddrOf[c])
      BY <2>1, <3>1, <3>2, CheckRefines
    <3> QED BY <3>1, <3>3
  <2>6. ASSUME NEW c \in Conns, ConnStep(c), ~(StreamsExhausted(c) \/ Spawn(c) \/ RateLimited(c))
        PROVE  limiter' = limiter
    <3>1. CASE InsideStep(c)
      BY <2>1, <3>1, InsideKeeps DEF Inside, ConnOnly
    <3>2. CASE Connect(c) \/ RefuseShutdown(c) \/ EndConnection(c)
      BY <3>2 DEF Connect, RefuseShutdown, EndConnection
    <3> QED BY <2>6, <3>1, <3>2 DEF ConnStep, InsideStep
  <2>7. CASE BeginShutdown \/ CancelToken \/ UNCHANGED vars
    BY <2>2, <2>7 DEF BeginShutdown, CancelToken, vars
  <2> QED BY <1>2, <2>2, <2>3, <2>4, <2>5, <2>6, <2>7 DEF Next
<1> QED BY Inductive, <1>1, <1>2, PTL DEF Spec, BucketSpec, Bucket!Spec

\* Where a bucket refills within stale_after, as with the defaults (200 at 100 a
\* second, 300 seconds), the sweep gives nobody a token: what it forgets owed
\* nothing.
THEOREM SweepGivesNothing ==
    ASSUME StaleAfter >= Burst
    PROVE  Spec => [](\A a \in Addrs : Stale(a) => Debt(a) = 0)
<1>1. IndInv => \A a \in Addrs : Stale(a) => Debt(a) = 0
  BY StaleOwesNothing DEF IndInv, Stale, Debt
<1> QED BY Inductive, <1>1, PTL
=============================================================================
