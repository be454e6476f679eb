--------------------------- MODULE RateLimitProofs ---------------------------
(* Proofs about RateLimit for any projects, threads, limit, window, clock       *)
(* resolution and bound.                                                        *)
EXTENDS RateLimit, SequenceTheorems, FiniteSetTheorems, WellFoundedInduction, TLAPS

\* Moving a listed project to the end permutes the order.
LEMMA MoveListed ==
  ASSUME NEW s \in Seq(Projects), NEW p \in Projects, p \in Listed(s),
         \A i, j \in DOMAIN s : s[i] = s[j] => i = j
  PROVE  /\ MoveToEnd(s, p) \in Seq(Projects)
         /\ Len(MoveToEnd(s, p)) = Len(s)
         /\ Listed(MoveToEnd(s, p)) = Listed(s)
         /\ \A i, j \in DOMAIN MoveToEnd(s, p) : MoveToEnd(s, p)[i] = MoveToEnd(s, p)[j] => i = j
<1> DEFINE n == Len(s)
           place == CHOOSE i \in DOMAIN s : s[i] = p
           m == [i \in 1 .. n |-> IF i < place THEN s[i] ELSE IF i < n THEN s[i + 1] ELSE p]
<1>1. n \in Nat /\ DOMAIN s = 1 .. n /\ \A i \in 1 .. n : s[i] \in Projects
  OBVIOUS
<1>2. place \in 1 .. n /\ s[place] = p
  BY <1>1 DEF Listed
<1>3. MoveToEnd(s, p) = m
  BY <1>1 DEF MoveToEnd
<1> HIDE DEF n, place
<1>4. m \in Seq(Projects) /\ Len(m) = n /\ DOMAIN m = 1 .. n
  <2>1. \A i \in 1 .. n : m[i] \in Projects
    BY <1>1
  <2> QED
    BY <1>1, <2>1, IsASeq
<1>5. ASSUME NEW i \in 1 .. n, NEW j \in 1 .. n, m[i] = m[j]
      PROVE  i = j
  BY <1>1, <1>2, <1>5
<1>6. ASSUME NEW i \in 1 .. n PROVE \E j \in 1 .. n : m[i] = s[j]
  <2>1. CASE i < place
    BY <1>1, <2>1
  <2>2. CASE ~(i < place) /\ i < n
    <3>1. i + 1 \in 1 .. n /\ m[i] = s[i + 1]
      BY <1>1, <2>2
    <3> QED
      BY <3>1
  <2>3. CASE ~(i < place) /\ ~(i < n)
    BY <1>1, <1>2, <2>3
  <2> QED
    BY <2>1, <2>2, <2>3
<1>7. ASSUME NEW j \in 1 .. n PROVE \E i \in 1 .. n : m[i] = s[j]
  <2>1. CASE j < place
    BY <1>1, <2>1
  <2>2. CASE j = place
    <3>1. n \in 1 .. n /\ m[n] = p
      BY <1>1, <1>2
    <3> QED
      BY <1>2, <2>2, <3>1
  <2>3. CASE j > place
    <3>1. j - 1 \in 1 .. n /\ m[j - 1] = s[j]
      BY <1>1, <1>2, <2>3
    <3> QED
      BY <3>1
  <2> QED
    BY <1>1, <1>2, <2>1, <2>2, <2>3
<1> HIDE DEF m
<1>8. Listed(m) = {m[i] : i \in 1 .. n} /\ Listed(s) = {s[i] : i \in 1 .. n}
  BY <1>1, <1>4 DEF Listed
<1>9. Listed(m) = Listed(s)
  <2>1. ASSUME NEW x \in Listed(m) PROVE x \in Listed(s)
    <3>1. PICK i \in 1 .. n : x = m[i]
      BY <1>8
    <3> QED
      BY <1>6, <1>8, <3>1
  <2>2. ASSUME NEW x \in Listed(s) PROVE x \in Listed(m)
    <3>1. PICK j \in 1 .. n : x = s[j]
      BY <1>8
    <3> QED
      BY <1>7, <1>8, <3>1
  <2> QED
    BY <2>1, <2>2
<1> QED
  BY <1>3, <1>4, <1>5, <1>9 DEF n

\* Moving an unlisted project to the end lists it.
LEMMA MoveUnlisted ==
  ASSUME NEW s \in Seq(Projects), NEW p \in Projects, p \notin Listed(s),
         \A i, j \in DOMAIN s : s[i] = s[j] => i = j
  PROVE  /\ MoveToEnd(s, p) \in Seq(Projects)
         /\ Len(MoveToEnd(s, p)) = Len(s) + 1
         /\ Listed(MoveToEnd(s, p)) = Listed(s) \cup {p}
         /\ \A i, j \in DOMAIN MoveToEnd(s, p) : MoveToEnd(s, p)[i] = MoveToEnd(s, p)[j] => i = j
<1> DEFINE n == Len(s)
           m == Append(s, p)
<1>1. MoveToEnd(s, p) = m
  BY DEF MoveToEnd
<1>2. n \in Nat /\ DOMAIN s = 1 .. n
  OBVIOUS
<1>3. /\ m \in Seq(Projects) /\ Len(m) = n + 1 /\ DOMAIN m = 1 .. n + 1
      /\ \A i \in 1 .. n : m[i] = s[i]
      /\ m[n + 1] = p
  BY <1>2, AppendProperties
<1>4. \A i \in 1 .. n + 1 : i \in 1 .. n \/ i = n + 1
  BY <1>2
<1>5. \A i \in 1 .. n : i \in 1 .. n + 1
  BY <1>2
<1> HIDE DEF m, n
<1>6. Listed(m) = Listed(s) \cup {p}
  <2>1. n + 1 \in DOMAIN m
    BY <1>2, <1>3
  <2> QED
    BY <1>2, <1>3, <1>4, <1>5, <2>1 DEF Listed
<1>7. ASSUME NEW i \in DOMAIN m, NEW j \in DOMAIN m, m[i] = m[j]
      PROVE  i = j
  <2>1. \A k \in 1 .. n : s[k] # p
    BY <1>2 DEF Listed
  <2> QED
    BY <1>2, <1>3, <1>4, <1>7, <2>1
<1> QED
  BY <1>1, <1>3, <1>6, <1>7 DEF n

\* Dropping the front of the order unlists exactly that project.
LEMMA DropFront ==
  ASSUME NEW s \in Seq(Projects), s # <<>>,
         \A i, j \in DOMAIN s : s[i] = s[j] => i = j
  PROVE  /\ Head(s) \in Projects
         /\ Tail(s) \in Seq(Projects)
         /\ Len(Tail(s)) = Len(s) - 1
         /\ Listed(Tail(s)) = Listed(s) \ {Head(s)}
         /\ \A i, j \in DOMAIN Tail(s) : Tail(s)[i] = Tail(s)[j] => i = j
<1> DEFINE n == Len(s)
           r == Tail(s)
<1>1. n \in Nat /\ n > 0 /\ DOMAIN s = 1 .. n /\ Head(s) = s[1]
  BY HeadTailProperties
<1>2. /\ r \in Seq(Projects) /\ Len(r) = n - 1 /\ DOMAIN r = 1 .. n - 1
      /\ \A i \in 1 .. n - 1 : r[i] = s[i + 1]
  BY <1>1, HeadTailProperties
<1>3. s[1] \in Projects
  BY <1>1
<1> HIDE DEF n, r
<1>4. Listed(r) = Listed(s) \ {s[1]}
  <2>1. ASSUME NEW x \in Listed(r) PROVE x \in Listed(s) \ {s[1]}
    <3>1. PICK i \in 1 .. n - 1 : x = r[i]
      BY <1>2 DEF Listed
    <3>2. x = s[i + 1] /\ i + 1 \in 1 .. n /\ i + 1 # 1 /\ 1 \in 1 .. n
      BY <1>1, <1>2, <3>1
    <3> QED
      BY <1>1, <3>2 DEF Listed
  <2>2. ASSUME NEW x \in Listed(s) \ {s[1]} PROVE x \in Listed(r)
    <3>1. PICK i \in 1 .. n : x = s[i] /\ i # 1
      BY <1>1 DEF Listed
    <3>2. i - 1 \in 1 .. n - 1 /\ r[i - 1] = s[i]
      BY <1>1, <1>2, <3>1
    <3> QED
      BY <1>2, <3>1, <3>2 DEF Listed
  <2> QED
    BY <2>1, <2>2
<1>5. ASSUME NEW i \in 1 .. n - 1, NEW j \in 1 .. n - 1, r[i] = r[j]
      PROVE  i = j
  <2>1. i + 1 \in 1 .. n /\ j + 1 \in 1 .. n /\ s[i + 1] = s[j + 1]
    BY <1>1, <1>2, <1>5
  <2>2. i + 1 = j + 1
    BY <1>1, <2>1
  <2> QED
    BY <1>1, <2>2
<1> QED
  BY <1>1, <1>2, <1>3, <1>4, <1>5 DEF n, r

\* The ceiling is the least multiple of b at or above a, counted in b.
LEMMA CeilDivBounds ==
  ASSUME NEW a \in Int, NEW b \in Nat \ {0}
  PROVE  /\ CeilDiv(a, b) \in Int
         /\ a <= CeilDiv(a, b) * b
         /\ CeilDiv(a, b) * b < a + b
<1> DEFINE q == (-a) \div b
           r == (-a) % b
<1>1. q \in Int /\ r \in 0 .. b - 1 /\ -a = b * q + r
  OBVIOUS
<1>2. CeilDiv(a, b) * b = -(b * q)
  BY <1>1 DEF CeilDiv
<1> QED
  BY <1>1, <1>2 DEF CeilDiv

LEMMA Constants ==
  /\ WindowTicks \in Nat \ {0}
  /\ TicksPerSecond \in Nat \ {0}
  /\ Limit \in Nat \ {0}
  /\ MaxProjects \in Nat \ {0}
  /\ MaxTime \in Nat
  /\ None \notin Projects
  /\ None \notin Window
  /\ None \notin [start : Nat, until : Int]
BY LimiterAssumption DEF WindowTicks, Window

\* What is left of a window, rounded up to seconds and read back in ticks.
LEMMA RetryAfterBounds ==
  ASSUME NEW elapsed \in Int, elapsed < WindowTicks
  PROVE  /\ RetryAfter(elapsed) \in Int
         /\ WindowTicks - elapsed <= RetryAfter(elapsed) * TicksPerSecond
         /\ RetryAfter(elapsed) * TicksPerSecond < WindowTicks - elapsed + TicksPerSecond
<1> DEFINE left == WindowTicks - elapsed
           seconds == CeilDiv(left, TicksPerSecond)
<1>1. left \in Int /\ left > 0
  BY Constants
<1> HIDE DEF left
<1>2. /\ seconds \in Int
      /\ left <= seconds * TicksPerSecond
      /\ seconds * TicksPerSecond < left + TicksPerSecond
  BY <1>1, Constants, CeilDivBounds
<1> HIDE DEF seconds
<1>3. seconds >= 1
  <2>1. seconds <= 0 => seconds * TicksPerSecond <= 0
    BY <1>2, Constants
  <2> QED
    BY <1>1, <1>2, <2>1, Constants
<1>4. RetryAfter(elapsed) = seconds
  BY <1>2, <1>3 DEF RetryAfter, seconds, left
<1> QED
  BY <1>2, <1>4 DEF left

-----------------------------------------------------------------------------

\* Types, and the order lists each project that has a window once.
IInv == TypeOK /\ WindowsBounded /\ RetryAfterTight

LEMMA InitIInv == Init => IInv
<1> SUFFICES ASSUME Init PROVE IInv
  OBVIOUS
<1>1. order = <<>> /\ Listed(order) = {} /\ order \in Seq(Projects) /\ Len(order) = 0
  BY DEF Init, Listed
<1>2. TypeOK
  BY <1>1, Constants DEF Init, TypeOK, WindowsOK, OrderOK, CallersOK, Ages
<1> QED
  BY <1>1, <1>2, Constants DEF Init, IInv, WindowsBounded, RetryAfterTight

\* The caller of a check, and its entry if there is one.
LEMMA Caller ==
  ASSUME IInv, NEW t \in Threads, pc[t] = "check"
  PROVE  /\ project[t] \in Projects
         /\ seen[t] \in Nat
         /\ Mine(t) # None => /\ Mine(t) \in Window
                             /\ project[t] \in Listed(order)
                             /\ Elapsed(t) \in Int
         /\ Mine(t) = None => project[t] \notin Listed(order)
<1>1. project[t] \in Projects /\ seen[t] \in Nat
  BY DEF IInv, TypeOK, CallersOK
<1>2. Mine(t) \in Window \cup {None}
  BY <1>1 DEF Mine, IInv, TypeOK, WindowsOK
<1>3. project[t] \in Listed(order) <=> Mine(t) # None
  BY <1>1 DEF Mine, IInv, WindowsBounded
<1>4. Mine(t) \in Window => Elapsed(t) \in Int
  BY <1>1 DEF Elapsed, Window
<1> QED
  BY <1>1, <1>2, <1>3, <1>4

\* An admission changes neither the promises nor the types.
LEMMA AdmitTypes ==
  ASSUME IInv, NEW t \in Threads, project[t] \in Projects, Admit(t)
  PROVE  /\ now' \in 0 .. MaxTime
         /\ CallersOK'
         /\ promise' = promise
         /\ recent' \in [Projects -> [Ages -> Nat]]
         /\ latest' \in [Projects -> Nat]
<1>0. /\ pc' = [pc EXCEPT ![t] = "admitted"]
      /\ UNCHANGED <<now, project, seen, retry, promise>>
  BY DEF Admit
<1>1. CallersOK'
  BY <1>0, Constants DEF IInv, TypeOK, CallersOK
<1>2. latest' \in [Projects -> Nat]
  BY DEF Admit, IInv, TypeOK
<1>3. 0 \in Ages /\ 3 * Limit \in Nat
  BY Constants DEF Ages
<1>4. recent' \in [Projects -> [Ages -> Nat]]
  BY <1>3 DEF Admit, IInv, TypeOK
<1> QED
  BY <1>0, <1>1, <1>2, <1>4 DEF IInv, TypeOK

\* The order s lists every project with a window except gone; t's project, not
\* among them, gets a window at its reading and gone loses its own.
Replaces(t, s, gone) ==
  /\ s \in Seq(Projects)
  /\ \A i, j \in DOMAIN s : s[i] = s[j] => i = j
  /\ Len(s) < MaxProjects
  /\ project[t] \notin Listed(s)
  /\ Listed(s) \subseteq Projects
  /\ \A p \in Projects : p \in Listed(s) <=> windows[p] # None /\ p # gone
  /\ order' = MoveToEnd(s, project[t])
  /\ windows' \in [Projects -> Window \cup {None}]
  /\ windows'[project[t]] = [start |-> seen[t], requests |-> 1]
  /\ \A p \in Projects : p # project[t] =>
       windows'[p] = IF p = gone THEN None ELSE windows[p]

LEMMA NewEntry ==
  ASSUME IInv, NEW t \in Threads, pc[t] = "check", Admit(t), NEW s, NEW gone,
         Replaces(t, s, gone)
  PROVE  IInv'
<1> USE DEF Replaces
<1>1. project[t] \in Projects /\ seen[t] \in Nat
  BY Caller
<1>2. [start |-> seen[t], requests |-> 1] \in Window /\ 1 \in 1 .. Limit
  BY <1>1, Constants DEF Window
<1>3. [start |-> seen[t], requests |-> 1] # None
  BY <1>2, Constants
<1>4. WindowsOK'
  <2>1. ASSUME NEW p \in Projects, windows'[p] # None PROVE windows'[p].requests \in 1 .. Limit
    <3>1. CASE p = project[t]
      BY <1>2, <3>1
    <3>2. CASE p # project[t]
      <4>1. windows'[p] = windows[p]
        BY <2>1, <3>2
      <4> QED
        BY <2>1, <4>1 DEF IInv, TypeOK, WindowsOK
    <3> QED
      BY <3>1, <3>2
  <2> QED
    BY <2>1 DEF WindowsOK
<1>5. /\ order' \in Seq(Projects)
      /\ Len(order') = Len(s) + 1
      /\ Listed(order') = Listed(s) \cup {project[t]}
      /\ \A i, j \in DOMAIN order' : order'[i] = order'[j] => i = j
  BY <1>1, MoveUnlisted
<1>6. Listed(order') = {p \in Projects : windows'[p] # None}
  BY <1>1, <1>3, <1>5
<1>7. Len(order') <= MaxProjects
  BY <1>5, Constants
<1>8. RetryAfterTight'
  BY <1>1, AdmitTypes DEF IInv, RetryAfterTight, WindowTicks
<1>9. TypeOK'
  BY <1>1, <1>4, <1>5, AdmitTypes DEF IInv, TypeOK, OrderOK
<1> QED
  BY <1>6, <1>7, <1>8, <1>9 DEF IInv, WindowsBounded

\* A project that has an entry gets another one and moves to the end.
LEMMA ChangedEntry ==
  ASSUME IInv, NEW t \in Threads, pc[t] = "check", Mine(t) # None, Admit(t),
         NEW e \in Window, e.requests \in 1 .. Limit,
         order' = MoveToEnd(order, project[t]),
         windows' = [windows EXCEPT ![project[t]] = e]
  PROVE  IInv'
<1>1. project[t] \in Projects /\ project[t] \in Listed(order)
  BY Caller
<1>2. windows \in [Projects -> Window \cup {None}]
  BY DEF IInv, TypeOK, WindowsOK
<1>3. WindowsOK'
  BY <1>1, <1>2 DEF IInv, TypeOK, WindowsOK
<1>4. /\ order' \in Seq(Projects)
      /\ Len(order') = Len(order)
      /\ Listed(order') = Listed(order)
      /\ \A i, j \in DOMAIN order' : order'[i] = order'[j] => i = j
  BY <1>1, MoveListed DEF IInv, TypeOK, OrderOK
<1>5. \A p \in Projects : windows'[p] # None <=> windows[p] # None
  BY <1>1, <1>2, Constants DEF Mine
<1>6. WindowsBounded'
  BY <1>4, <1>5 DEF IInv, WindowsBounded
<1>7. RetryAfterTight'
  BY <1>1, AdmitTypes DEF IInv, RetryAfterTight, WindowTicks
<1>8. TypeOK'
  BY <1>1, <1>3, <1>4, AdmitTypes DEF IInv, TypeOK, OrderOK
<1> QED
  BY <1>6, <1>7, <1>8 DEF IInv

LEMMA NextIInv == IInv /\ [Next]_vars => IInv'
<1> SUFFICES ASSUME IInv, [Next]_vars PROVE IInv'
  OBVIOUS
<1>1. ASSUME NEW t \in Threads, NEW p \in Projects, Begin(t, p)
      PROVE  IInv'
  <2>1. CallersOK'
    BY <1>1, Constants DEF Begin, IInv, TypeOK, CallersOK
  <2> QED
    BY <1>1, <2>1 DEF Begin, IInv, TypeOK, WindowsOK, OrderOK, WindowsBounded, RetryAfterTight, WindowTicks
<1>2. ASSUME NEW t \in Threads, OpenWindow(t)
      PROVE  IInv'
  <2>1. project[t] \in Projects /\ project[t] \notin Listed(order)
    BY <1>2, Caller DEF OpenWindow
  <2>2. order \in Seq(Projects) /\ Len(order) < MaxProjects
    BY <1>2, Constants DEF OpenWindow, Full, IInv, TypeOK, OrderOK
  <2>3. /\ windows' \in [Projects -> Window \cup {None}]
        /\ windows'[project[t]] = [start |-> seen[t], requests |-> 1]
        /\ \A p \in Projects : p # project[t] =>
             windows'[p] = IF p = None THEN None ELSE windows[p]
    BY <1>2, <2>1, Constants, Caller DEF OpenWindow, IInv, TypeOK, WindowsOK, Window
  <2>4. /\ \A p \in Projects : p \in Listed(order) <=> windows[p] # None /\ p # None
        /\ Listed(order) \subseteq Projects
    BY Constants DEF IInv, WindowsBounded
  <2>5. \A i, j \in DOMAIN order : order[i] = order[j] => i = j
    BY DEF IInv, TypeOK, OrderOK
  <2> QED
    <3>1. Replaces(t, order, None)
      BY <1>2, <2>1, <2>2, <2>3, <2>4, <2>5 DEF OpenWindow, Replaces
    <3> QED
      BY <1>2, <3>1, NewEntry DEF OpenWindow
<1>3. ASSUME NEW t \in Threads, OpenEvicting(t)
      PROVE  IInv'
  <2>1. project[t] \in Projects /\ project[t] \notin Listed(order)
    BY <1>3, Caller DEF OpenEvicting
  <2>2. /\ order \in Seq(Projects) /\ Len(order) \in Nat /\ Len(order) = MaxProjects /\ order # <<>>
        /\ \A i, j \in DOMAIN order : order[i] = order[j] => i = j
    BY <1>3, Constants DEF OpenEvicting, Full, IInv, TypeOK, OrderOK, WindowsBounded
  <2> DEFINE rest == Tail(order)
             gone == Head(order)
  <2>3. /\ gone \in Projects
        /\ rest \in Seq(Projects)
        /\ Len(rest) = Len(order) - 1
        /\ Listed(rest) = Listed(order) \ {gone}
        /\ \A i, j \in DOMAIN rest : rest[i] = rest[j] => i = j
    BY <2>2, DropFront
  <2>4. Len(rest) < MaxProjects
    BY <2>2, <2>3
  <2>5. /\ windows' \in [Projects -> Window \cup {None}]
        /\ windows'[project[t]] = [start |-> seen[t], requests |-> 1]
        /\ \A p \in Projects : p # project[t] =>
             windows'[p] = IF p = gone THEN None ELSE windows[p]
    BY <1>3, <2>1, <2>3, Caller DEF OpenEvicting, IInv, TypeOK, WindowsOK, Window
  <2>6. /\ \A p \in Projects : p \in Listed(rest) <=> windows[p] # None /\ p # gone
        /\ Listed(rest) \subseteq Projects
    BY <2>3 DEF IInv, WindowsBounded
  <2>7. project[t] \notin Listed(rest)
    BY <2>1, <2>3
  <2>8. pc[t] = "check" /\ Admit(t) /\ order' = MoveToEnd(rest, project[t])
    BY <1>3 DEF OpenEvicting
  <2> HIDE DEF rest, gone
  <2> QED
    <3>1. Replaces(t, rest, gone)
      BY <2>3, <2>4, <2>5, <2>6, <2>7, <2>8 DEF Replaces
    <3> QED
      BY <2>8, <3>1, NewEntry
<1>4. ASSUME NEW t \in Threads, Renew(t)
      PROVE  IInv'
  <2>1. [start |-> seen[t], requests |-> 1] \in Window /\ 1 \in 1 .. Limit
    BY <1>4, Caller, Constants DEF Renew, Window
  <2> QED
    BY <1>4, <2>1, ChangedEntry DEF Renew
<1>5. ASSUME NEW t \in Threads, Consume(t)
      PROVE  IInv'
  <2> DEFINE e == [Mine(t) EXCEPT !.requests = @ + 1]
  <2>1. Mine(t) \in Window /\ Mine(t).requests \in 1 .. Limit /\ Mine(t).requests < Limit
    BY <1>5, Caller DEF Consume, Mine, IInv, TypeOK, WindowsOK
  <2>2. e \in Window /\ e.requests \in 1 .. Limit
    BY <2>1, Constants DEF Window
  <2>3. windows' = [windows EXCEPT ![project[t]] = e]
    BY <1>5 DEF Consume, Mine
  <2> HIDE DEF e
  <2> QED
    BY <1>5, <2>2, <2>3, ChangedEntry DEF Consume
<1>6. ASSUME NEW t \in Threads, Refuse(t)
      PROVE  IInv'
  <2> DEFINE r == RetryAfter(Elapsed(t))
  <2>1. /\ project[t] \in Projects /\ seen[t] \in Nat /\ Mine(t) \in Window
        /\ Elapsed(t) \in Int /\ Elapsed(t) < WindowTicks
    BY <1>6, Caller, Constants DEF Refuse, Over
  <2>2. /\ r \in Int
        /\ WindowTicks - Elapsed(t) <= r * TicksPerSecond
        /\ r * TicksPerSecond < WindowTicks - Elapsed(t) + TicksPerSecond
    BY <2>1, RetryAfterBounds
  <2> HIDE DEF r
  <2> DEFINE k == r * TicksPerSecond
  <2>3. k \in Int /\ WindowTicks - Elapsed(t) <= k /\ k < WindowTicks - Elapsed(t) + TicksPerSecond
    BY <2>2, Constants
  <2>4. promise' = [promise EXCEPT ![project[t]] = [start |-> Mine(t).start, until |-> seen[t] + k]]
    BY <1>6 DEF Refuse, r
  <2> HIDE DEF k
  <2>5. /\ seen[t] + k \in Int
        /\ Mine(t).start \in Nat
        /\ Mine(t).start + WindowTicks <= seen[t] + k
        /\ seen[t] + k < Mine(t).start + WindowTicks + TicksPerSecond
    BY <2>1, <2>3, Constants DEF Elapsed, Window
  <2>6. RetryAfterTight'
    BY <2>1, <2>4, <2>5 DEF IInv, TypeOK, RetryAfterTight, WindowTicks
  <2>7. promise' \in [Projects -> [start : Nat, until : Int] \cup {None}]
    BY <2>4, <2>5 DEF IInv, TypeOK
  <2>8. CallersOK'
    BY <1>6, <2>2 DEF Refuse, IInv, TypeOK, CallersOK, r
  <2> QED
    BY <1>6, <2>6, <2>7, <2>8 DEF Refuse, IInv, TypeOK, WindowsOK, OrderOK, WindowsBounded
<1>7. ASSUME NEW t \in Threads, Respond(t)
      PROVE  IInv'
  <2>1. CallersOK'
    BY <1>7 DEF Respond, IInv, TypeOK, CallersOK
  <2> QED
    BY <1>7, <2>1 DEF Respond, IInv, TypeOK, WindowsOK, OrderOK, WindowsBounded, RetryAfterTight, WindowTicks
<1>8. CASE Tick
  <2>1. now' \in 0 .. MaxTime
    BY <1>8, Constants DEF Tick, IInv, TypeOK
  <2>2. recent' \in [Projects -> [Ages -> Nat]]
    BY <1>8, Constants DEF Tick, IInv, TypeOK, Ages
  <2> QED
    BY <1>8, <2>1, <2>2 DEF Tick, callers, IInv, TypeOK, WindowsOK, OrderOK, CallersOK,
                            WindowsBounded, RetryAfterTight, WindowTicks
<1>9. CASE UNCHANGED vars
  BY <1>9 DEF vars, callers, IInv, TypeOK, WindowsOK, OrderOK, CallersOK, WindowsBounded,
              RetryAfterTight, WindowTicks
<1> QED
  BY <1>1, <1>2, <1>3, <1>4, <1>5, <1>6, <1>7, <1>8, <1>9 DEF Next, Check

LEMMA Inductive == Spec => []IInv
BY InitIInv, NextIInv, PTL DEF Spec

\* Every window counts between one and Limit admitted requests.
THEOREM TypeCorrect == Spec => []TypeOK
<1>1. IInv => TypeOK
  BY DEF IInv
<1> QED
  BY <1>1, Inductive, PTL

\* The limiter keeps at most max_projects windows, and every eviction makes room.
THEOREM BoundedCorrect == Spec => []WindowsBounded
<1>1. IInv => WindowsBounded
  BY DEF IInv
<1> QED
  BY <1>1, Inductive, PTL

\* Retry-After is never short of the end of the window, nor a second beyond it.
THEOREM RetryAfterCorrect == Spec => []RetryAfterTight
<1>1. IInv => RetryAfterTight
  BY DEF IInv
<1> QED
  BY <1>1, Inductive, PTL

\* A client that waited for Retry-After is not refused by the same window.
THEOREM PromiseCorrect == Spec => PromiseKept
<1>1. ASSUME IInv, [Next]_vars, NEW t \in Threads, pc[t] = "check", pc'[t] = "limited",
             promise[project[t]] # None, Mine(t).start = promise[project[t]].start,
             ~(seen[t] < promise[project[t]].until)
      PROVE  FALSE
  <2>1. Refuse(t)
    <3>1. ASSUME NEW u \in Threads, Check(u), u # t PROVE pc'[t] = pc[t]
      BY <1>1, <3>1 DEF Check, Begin, OpenWindow, OpenEvicting, Renew, Consume, Admit, Refuse,
                        Respond, IInv, TypeOK, CallersOK
    <3>2. Check(t)
      BY <1>1, <3>1 DEF Next, Tick, vars, callers
    <3> QED
      BY <1>1, <3>2 DEF Check, Begin, OpenWindow, OpenEvicting, Renew, Consume, Admit, Respond,
                        IInv, TypeOK, CallersOK
  <2>2. /\ project[t] \in Projects /\ seen[t] \in Nat /\ Mine(t) \in Window
        /\ Elapsed(t) \in Int /\ Elapsed(t) < WindowTicks
    BY <1>1, <2>1, Caller, Constants DEF Refuse, Over
  <2>3. promise[project[t]] \in [start : Nat, until : Int]
    BY <1>1, <2>2 DEF IInv, TypeOK
  <2>4. promise[project[t]].start + WindowTicks <= promise[project[t]].until
    BY <1>1, <2>2 DEF IInv, RetryAfterTight
  <2>5. promise[project[t]].start \in Nat /\ promise[project[t]].until \in Int
    BY <2>3
  <2> QED
    BY <1>1, <2>2, <2>4, <2>5, Constants DEF Elapsed, Window
<1>2. IInv /\ [Next]_vars
        => [\A t \in Threads :
              pc[t] = "check" /\ pc'[t] = "limited" /\ promise[project[t]] # None
                => \/ Mine(t).start # promise[project[t]].start
                   \/ seen[t] < promise[project[t]].until]_vars
  BY <1>1
<1> QED
  BY <1>2, Inductive, PTL DEF Spec, PromiseKept

-----------------------------------------------------------------------------
(* The admissions of the last window's length                                 *)

\* What holds of age 0, and of each age if of the one before, holds of all ages.
LEMMA AgeInduction ==
  ASSUME NEW S, 0 \in S, \A a \in Ages : a # 0 /\ a - 1 \in S => a \in S
  PROVE  Ages \subseteq S
<1> SUFFICES ASSUME Ages \ S # {} PROVE FALSE
  OBVIOUS
<1> DEFINE R == OpToRel(<, Nat)
<1>0. WindowTicks \in Nat
  BY Constants
<1>1. Ages \ S \subseteq Nat
  BY <1>0 DEF Ages
<1>2. PICK a \in Ages \ S : \A b \in Ages \ S : <<b, a>> \notin R
  <2> HIDE DEF R
  <2> QED
    BY <1>1, WFMin, NatLessThanWellFounded DEF R
<1>3. a \in Nat /\ a # 0
  BY <1>1
<1>4. a - 1 \in Ages /\ a - 1 \notin S
  BY <1>0, <1>3 DEF Ages
<1>5. <<a - 1, a>> \in R
  BY <1>3 DEF OpToRel
<1> QED
  BY <1>2, <1>4, <1>5

\* The sums of the first entries of f, as RecentAdmits adds them up.
Sums(f) == CHOOSE total : total = [age \in Ages |-> f[age] + IF age = 0 THEN 0 ELSE total[age - 1]]

Total(f) == Sums(f)[WindowTicks - 1]

LEMMA RecentAdmitsIsTotal == \A p \in Projects : RecentAdmits(p) = Total(recent[p])
BY DEF RecentAdmits, Total, Sums

LEMMA AgeBounds ==
  /\ 0 \in Ages /\ WindowTicks - 1 \in Ages
  /\ \A a \in Ages : a \in Nat /\ (a # 0 => a - 1 \in Ages /\ a - 1 \in Nat)
BY Constants DEF Ages

LEMMA SumsStep ==
  ASSUME NEW f \in [Ages -> Nat]
  PROVE  /\ Sums(f) \in [Ages -> Nat]
         /\ Sums(f)[0] = f[0]
         /\ \A a \in Ages : a # 0 => Sums(f)[a] = f[a] + Sums(f)[a - 1]
<1> DEFINE Upto(n, g) == /\ g \in [0 .. n -> Nat]
                         /\ g[0] = f[0]
                         /\ \A i \in 1 .. n : g[i] = f[i] + g[i - 1]
           S == {n \in Ages : \E g : Upto(n, g)}
           Body(g) == [age \in Ages |-> f[age] + IF age = 0 THEN 0 ELSE g[age - 1]]
<1>1. Ages \subseteq S
  <2>1. 0 \in S
    <3>1. Upto(0, [i \in 0 .. 0 |-> f[i]])
      BY AgeBounds
    <3> QED
      BY <3>1, AgeBounds
  <2>2. ASSUME NEW a \in Ages, a # 0, a - 1 \in S PROVE a \in S
    <3>1. PICK g : Upto(a - 1, g)
      BY <2>2
    <3> DEFINE h == [i \in 0 .. a |-> IF i = a THEN f[a] + g[a - 1] ELSE g[i]]
    <3>2. a \in Nat /\ a - 1 \in 0 .. a - 1 /\ f[a] \in Nat /\ 0 \in 0 .. a - 1
      BY <2>2, AgeBounds
    <3>3. h \in [0 .. a -> Nat]
      BY <3>1, <3>2
    <3>4. h[0] = f[0]
      BY <2>2, <3>1, <3>2
    <3>5. ASSUME NEW i \in 1 .. a PROVE h[i] = f[i] + h[i - 1]
      <4>1. CASE i = a
        BY <3>2, <4>1
      <4>2. CASE i # a
        BY <3>1, <3>2, <4>2
      <4> QED
        BY <4>1, <4>2
    <3> HIDE DEF h
    <3>6. Upto(a, h)
      BY <3>3, <3>4, <3>5
    <3> QED
      BY <3>6
  <2> HIDE DEF S
  <2> QED
    BY <2>1, <2>2, AgeInduction
<1>2. PICK g : Upto(WindowTicks - 1, g)
  BY <1>1, AgeBounds
<1>3. g = Body(g)
  <2>1. Ages = 0 .. WindowTicks - 1
    BY DEF Ages
  <2>2. ASSUME NEW a \in Ages PROVE g[a] = Body(g)[a]
    <3>1. CASE a = 0
      BY <1>2, <3>1, AgeBounds
    <3>2. CASE a # 0
      <4>1. a \in 1 .. WindowTicks - 1
        BY <2>1, <3>2, AgeBounds
      <4> QED
        BY <1>2, <3>2, <4>1
    <3> QED
      BY <3>1, <3>2
  <2> QED
    BY <1>2, <2>1, <2>2
<1>4. Sums(f) = Body(Sums(f))
  BY <1>3 DEF Sums
<1> DEFINE s == Sums(f)
<1>5. s = Body(s)
  BY <1>4
<1> HIDE DEF s
<1>6. s[0] = f[0] /\ \A a \in Ages : a # 0 => s[a] = f[a] + s[a - 1]
  BY <1>5, AgeBounds
<1>7. Ages \subseteq {a \in Ages : s[a] \in Nat}
  <2>1. \A a \in Ages : a # 0 /\ s[a - 1] \in Nat => s[a] \in Nat
    BY <1>6
  <2> QED
    BY <1>6, <2>1, AgeBounds, AgeInduction
<1>8. s \in [Ages -> Nat]
  BY <1>5, <1>7
<1> QED
  BY <1>6, <1>8 DEF s

\* Totals are additive, ...
LEMMA TotalBelow ==
  ASSUME NEW f \in [Ages -> Nat], NEW c \in [Ages -> Nat], NEW d \in [Ages -> Nat],
         NEW e \in [Ages -> Nat], \A a \in Ages : f[a] <= c[a] + d[a] + e[a]
  PROVE  Total(f) <= Total(c) + Total(d) + Total(e)
<1> DEFINE Below(a) == Sums(f)[a] <= Sums(c)[a] + Sums(d)[a] + Sums(e)[a]
           S == {a \in Ages : Below(a)}
<1>1. \A g \in {f, c, d, e} :
        /\ Sums(g) \in [Ages -> Nat]
        /\ Sums(g)[0] = g[0]
        /\ \A a \in Ages : a # 0 => Sums(g)[a] = g[a] + Sums(g)[a - 1]
  BY SumsStep
<1>2. 0 \in S
  BY <1>1, AgeBounds
<1>3. ASSUME NEW a \in Ages, a # 0, a - 1 \in S PROVE a \in S
  <2>1. Below(a - 1) /\ a - 1 \in Ages
    BY <1>3
  <2>2. \A g \in {f, c, d, e} : /\ Sums(g)[a] = g[a] + Sums(g)[a - 1]
                                /\ g[a] \in Nat /\ Sums(g)[a - 1] \in Nat
    BY <1>1, <1>3, <2>1
  <2>3. Below(a)
    BY <1>3, <2>1, <2>2
  <2> QED
    BY <2>3
<1> HIDE DEF S
<1>4. Ages \subseteq S
  BY <1>2, <1>3, AgeInduction
<1> QED
  BY <1>4, AgeBounds DEF S, Total

\* ... an admission adds one, ...
LEMMA TotalAdd ==
  ASSUME NEW f \in [Ages -> Nat]
  PROVE  Total([f EXCEPT ![0] = @ + 1]) = Total(f) + 1
<1> DEFINE g == [f EXCEPT ![0] = @ + 1]
           S == {a \in Ages : Sums(g)[a] = Sums(f)[a] + 1}
<1>1. /\ g \in [Ages -> Nat] /\ g[0] = f[0] + 1
      /\ \A a \in Ages : a # 0 => g[a] = f[a]
  BY AgeBounds
<1> HIDE DEF g
<1>2. 0 \in S
  BY <1>1, SumsStep, AgeBounds
<1>3. ASSUME NEW a \in Ages, a # 0, a - 1 \in S PROVE a \in S
  BY <1>1, <1>3, SumsStep, AgeBounds
<1> HIDE DEF S
<1>4. Ages \subseteq S
  BY <1>2, <1>3, AgeInduction
<1> QED
  BY <1>4, AgeBounds DEF S, Total, g

\* ... none are zero, ...
Nothing == [a \in Ages |-> 0]

LEMMA TotalNothing == Nothing \in [Ages -> Nat] /\ Total(Nothing) = 0
<1> DEFINE S == {a \in Ages : Sums(Nothing)[a] = 0}
<1>1. Nothing \in [Ages -> Nat]
  BY DEF Nothing
<1>2. 0 \in S
  BY <1>1, SumsStep, AgeBounds DEF Nothing
<1>3. ASSUME NEW a \in Ages, a # 0, a - 1 \in S PROVE a \in S
  BY <1>1, <1>3, SumsStep, AgeBounds DEF Nothing
<1> HIDE DEF S
<1>4. Ages \subseteq S
  BY <1>2, <1>3, AgeInduction
<1> QED
  BY <1>1, <1>4, AgeBounds DEF S, Total

\* ... and a tick loses the oldest.
Aged(f) == [age \in Ages |-> IF age = 0 THEN 0 ELSE f[age - 1]]

LEMMA TotalAged ==
  ASSUME NEW f \in [Ages -> Nat]
  PROVE  Aged(f) \in [Ages -> Nat] /\ Total(Aged(f)) <= Total(f)
<1> DEFINE g == Aged(f)
           S == {a \in Ages : Sums(g)[a] = IF a = 0 THEN 0 ELSE Sums(f)[a - 1]}
<1>1. /\ g \in [Ages -> Nat] /\ g[0] = 0
      /\ \A a \in Ages : a # 0 => g[a] = f[a - 1]
  BY AgeBounds DEF Aged
<1> HIDE DEF g
<1>2. 0 \in S
  BY <1>1, SumsStep, AgeBounds
<1>3. ASSUME NEW a \in Ages, a # 0, a - 1 \in S PROVE a \in S
  <2>1. a \in Nat /\ a - 1 \in Ages /\ (a - 1 # 0 => a - 1 - 1 \in Ages)
    BY <1>3, AgeBounds
  <2>2. Sums(g)[a] = f[a - 1] + Sums(g)[a - 1]
    BY <1>1, <1>3, SumsStep
  <2>3. Sums(f)[a - 1] = f[a - 1] + IF a - 1 = 0 THEN 0 ELSE Sums(f)[a - 1 - 1]
    BY <2>1, SumsStep
  <2>4. Sums(g)[a - 1] = IF a - 1 = 0 THEN 0 ELSE Sums(f)[a - 1 - 1]
    BY <1>3
  <2> QED
    BY <1>3, <2>2, <2>3, <2>4
<1> HIDE DEF S
<1>4. Ages \subseteq S
  BY <1>2, <1>3, AgeInduction
<1>5. Total(g) <= Total(f)
  <2> DEFINE a == WindowTicks - 1
  <2>1. a \in Ages /\ a \in Nat /\ Sums(f)[a] \in Nat
    BY AgeBounds, SumsStep
  <2>2. Sums(g)[a] = IF a = 0 THEN 0 ELSE Sums(f)[a - 1]
    BY <1>4, <2>1 DEF S
  <2>3. a # 0 => Sums(f)[a] = f[a] + Sums(f)[a - 1] /\ f[a] \in Nat /\ Sums(f)[a - 1] \in Nat
    BY <2>1, SumsStep, AgeBounds
  <2> QED
    BY <2>1, <2>2, <2>3 DEF Total
<1> QED
  BY <1>1, <1>5 DEF g

-----------------------------------------------------------------------------
(* Readings, and the order of the last admissions                             *)

\* A reading is at most MaxLag old when a check decides with it.
LagInv == \A t \in Threads : pc[t] = "check" => seen[t] <= now /\ now - seen[t] <= MaxLag

\* The order lists the projects by their last admission.
OrderedInv ==
  /\ \A p \in Projects : latest[p] <= now
  /\ \A i, j \in DOMAIN order : i <= j => latest[order[i]] <= latest[order[j]]

\* Two that MoveToEnd leaves in place keep their order.
LEMMA MoveKeepsOrder ==
  ASSUME NEW s \in Seq(Projects), NEW p \in Projects,
         \A i, j \in DOMAIN s : s[i] = s[j] => i = j,
         NEW m, m = MoveToEnd(s, p)
  PROVE  /\ \A i \in DOMAIN m : m[i] = p => i = Len(m)
         /\ \A i, j \in DOMAIN m :
              i <= j /\ m[j] # p =>
                \E k, l \in DOMAIN s : k <= l /\ m[i] = s[k] /\ m[j] = s[l]
<1> DEFINE n == Len(s)
<1>0. n \in Nat /\ DOMAIN s = 1 .. n
  OBVIOUS
<1>1. CASE p \notin Listed(s)
  <2>1. m = Append(s, p)
    BY <1>1 DEF MoveToEnd
  <2>2. /\ m \in Seq(Projects) /\ Len(m) = n + 1 /\ DOMAIN m = 1 .. n + 1
        /\ \A i \in 1 .. n : m[i] = s[i]
        /\ m[n + 1] = p
    BY <1>0, <2>1, AppendProperties
  <2>3. \A i \in 1 .. n : s[i] # p
    BY <1>0, <1>1 DEF Listed
  <2>4. ASSUME NEW i \in 1 .. n + 1, m[i] = p PROVE i = n + 1
    BY <1>0, <2>2, <2>3, <2>4
  <2>5. ASSUME NEW i \in 1 .. n + 1, NEW j \in 1 .. n + 1, i <= j, m[j] # p
        PROVE  \E k, l \in 1 .. n : k <= l /\ m[i] = s[k] /\ m[j] = s[l]
    <3>1. i \in 1 .. n /\ j \in 1 .. n
      BY <1>0, <2>2, <2>5
    <3> QED
      BY <2>2, <2>5, <3>1
  <2>6. \A i \in DOMAIN m : m[i] = p => i = Len(m)
    BY <1>0, <2>2, <2>4
  <2>7. ASSUME NEW i \in DOMAIN m, NEW j \in DOMAIN m, i <= j, m[j] # p
        PROVE  \E k, l \in DOMAIN s : k <= l /\ m[i] = s[k] /\ m[j] = s[l]
    <3>1. \E k, l \in 1 .. n : k <= l /\ m[i] = s[k] /\ m[j] = s[l]
      <4>1. i \in 1 .. n + 1 /\ j \in 1 .. n + 1
        BY <2>2
      <4> HIDE DEF n
      <4> QED
        BY <2>5, <2>7, <4>1
    <3> QED
      BY <1>0, <3>1
  <2> QED
    BY <2>6, <2>7
<1>2. CASE p \in Listed(s)
  <2> DEFINE place == CHOOSE i \in DOMAIN s : s[i] = p
  <2>1. place \in 1 .. n /\ s[place] = p
    BY <1>0, <1>2 DEF Listed
  <2>2. m = [i \in 1 .. n |-> IF i < place THEN s[i] ELSE IF i < n THEN s[i + 1] ELSE p]
    BY <1>0, <1>2 DEF MoveToEnd
  <2> HIDE DEF place
  <2>3. DOMAIN m = 1 .. n /\ Len(m) = n
    BY <1>2, MoveListed, <2>2
  <2> HIDE DEF n
  <2>4. ASSUME NEW i \in 1 .. n
        PROVE  /\ i < place => m[i] = s[i]
               /\ i >= place /\ i < n => m[i] = s[i + 1] /\ i + 1 \in 1 .. n
               /\ i = n => m[i] = p
    <3>1. m[i] = IF i < place THEN s[i] ELSE IF i < n THEN s[i + 1] ELSE p
      BY <2>2
    <3> QED
      BY <1>0, <2>1, <3>1
  <2>5. ASSUME NEW i \in 1 .. n, m[i] = p PROVE i = n
    <3>1. ASSUME i < n PROVE \E k \in 1 .. n : k # place /\ m[i] = s[k]
      <4>1. CASE i < place
        BY <1>0, <2>1, <2>4, <4>1
      <4>2. CASE ~(i < place)
        <5>1. i + 1 \in 1 .. n /\ i + 1 # place /\ m[i] = s[i + 1]
          BY <1>0, <2>1, <2>4, <3>1, <4>2
        <5> QED
          BY <5>1
      <4> QED
        BY <4>1, <4>2
    <3> QED
      BY <1>0, <2>1, <2>5, <3>1
  <2>6. ASSUME NEW i \in 1 .. n, NEW j \in 1 .. n, i <= j, m[j] # p
        PROVE  \E k, l \in 1 .. n : k <= l /\ m[i] = s[k] /\ m[j] = s[l]
    <3>1. j < n /\ i < n
      <4>1. j # n
        BY <2>4, <2>6
      <4> QED
        BY <1>0, <2>6, <4>1
    <3>2. CASE j < place
      BY <2>1, <2>4, <2>6, <3>2
    <3>3. CASE i < place /\ j >= place
      <4>1. i <= j + 1 /\ j + 1 \in 1 .. n /\ m[i] = s[i] /\ m[j] = s[j + 1]
        BY <2>1, <2>4, <2>6, <3>1, <3>3
      <4> QED
        BY <4>1
    <3>4. CASE i >= place
      <4>1. /\ i + 1 <= j + 1 /\ i + 1 \in 1 .. n /\ j + 1 \in 1 .. n
            /\ m[i] = s[i + 1] /\ m[j] = s[j + 1]
        BY <2>1, <2>4, <2>6, <3>1, <3>4
      <4> QED
        BY <4>1
    <3> QED
      BY <2>1, <3>2, <3>3, <3>4
  <2>7. \A i \in DOMAIN m : m[i] = p => i = Len(m)
    BY <1>0, <2>3, <2>5
  <2>8. ASSUME NEW i \in DOMAIN m, NEW j \in DOMAIN m, i <= j, m[j] # p
        PROVE  \E k, l \in DOMAIN s : k <= l /\ m[i] = s[k] /\ m[j] = s[l]
    <3>1. \E k, l \in 1 .. n : k <= l /\ m[i] = s[k] /\ m[j] = s[l]
      BY <2>3, <2>6, <2>8
    <3> QED
      BY <1>0, <3>1
  <2> QED
    BY <2>7, <2>8
<1> QED
  BY <1>1, <1>2

\* An admission puts its project last.
LEMMA AdmitOrders ==
  ASSUME IInv, OrderedInv, NEW t \in Threads, project[t] \in Projects, Admit(t),
         NEW s \in Seq(Projects), \A i, j \in DOMAIN s : s[i] = s[j] => i = j,
         \A i, j \in DOMAIN s : i <= j => latest[s[i]] <= latest[s[j]],
         order' = MoveToEnd(s, project[t])
  PROVE  OrderedInv'
<1> DEFINE p == project[t]
<1>1. /\ now' = now /\ now \in Nat
      /\ latest \in [Projects -> Nat]
      /\ latest' = [latest EXCEPT ![p] = now]
      /\ \A q \in Projects : latest[q] <= now
  BY Constants DEF Admit, IInv, TypeOK, OrderedInv
<1>2. /\ order' \in Seq(Projects) /\ Len(order') \in Nat
      /\ DOMAIN order' = 1 .. Len(order')
      /\ \A i, j \in DOMAIN order' : order'[i] = order'[j] => i = j
  BY MoveListed, MoveUnlisted
<1>3. /\ \A i \in DOMAIN order' : order'[i] = p => i = Len(order')
      /\ \A i, j \in DOMAIN order' :
           i <= j /\ order'[j] # p =>
             \E k, l \in DOMAIN s : k <= l /\ order'[i] = s[k] /\ order'[j] = s[l]
  BY MoveKeepsOrder
<1>4. ASSUME NEW i \in DOMAIN order', NEW j \in DOMAIN order', i <= j
      PROVE  latest'[order'[i]] <= latest'[order'[j]]
  <2>0. order'[i] \in Projects /\ order'[j] \in Projects
    BY <1>2
  <2>1. CASE order'[j] = p
    BY <1>1, <2>0, <2>1
  <2>2. CASE order'[j] # p
    <3>1. order'[i] # p
      BY <1>2, <1>3, <1>4, <2>2
    <3>2. latest[order'[i]] <= latest[order'[j]]
      BY <1>3, <1>4, <2>2
    <3> QED
      BY <1>1, <2>0, <2>2, <3>1, <3>2
  <2> QED
    BY <2>1, <2>2
<1> QED
  BY <1>1, <1>4 DEF OrderedInv

LEMMA OrderedStep ==
  ASSUME IInv, OrderedInv, [Next]_vars
  PROVE  OrderedInv'
<1>o. order \in Seq(Projects) /\ \A i, j \in DOMAIN order : order[i] = order[j] => i = j
  BY DEF IInv, TypeOK, OrderOK
<1>1. ASSUME NEW t \in Threads, OpenWindow(t) \/ Renew(t) \/ Consume(t) PROVE OrderedInv'
  <2>1. project[t] \in Projects /\ Admit(t) /\ order' = MoveToEnd(order, project[t])
    BY <1>1, Caller DEF OpenWindow, Renew, Consume
  <2> QED
    BY <1>o, <2>1, AdmitOrders DEF OrderedInv
<1>2. ASSUME NEW t \in Threads, OpenEvicting(t) PROVE OrderedInv'
  <2>1. project[t] \in Projects /\ Admit(t) /\ order' = MoveToEnd(Tail(order), project[t])
    BY <1>2, Caller DEF OpenEvicting
  <2>2. order # <<>>
    BY <1>2, <1>o, Constants DEF OpenEvicting, Full
  <2>3. /\ Tail(order) \in Seq(Projects)
        /\ \A i, j \in DOMAIN Tail(order) : Tail(order)[i] = Tail(order)[j] => i = j
    BY <1>o, <2>2, DropFront
  <2>4. \A i, j \in DOMAIN Tail(order) :
          i <= j => latest[Tail(order)[i]] <= latest[Tail(order)[j]]
    <3> TAKE i, j \in DOMAIN Tail(order)
    <3>1. /\ i + 1 \in DOMAIN order /\ j + 1 \in DOMAIN order /\ i \in Nat /\ j \in Nat
          /\ Tail(order)[i] = order[i + 1] /\ Tail(order)[j] = order[j + 1]
      BY <1>o, <2>2
    <3> QED
      BY <3>1 DEF OrderedInv
  <2> QED
    BY <2>1, <2>3, <2>4, AdmitOrders
<1>3. CASE UNCHANGED <<order, latest>> /\ now' \in Nat /\ now' >= now
  <2>1. now \in Nat /\ latest \in [Projects -> Nat]
    BY Constants DEF IInv, TypeOK
  <2> QED
    BY <1>3, <2>1 DEF OrderedInv
<1>4. CASE (\E t \in Threads : (\E p \in Projects : Begin(t, p)) \/ Refuse(t) \/ Respond(t)) \/ Tick
           \/ UNCHANGED vars
  <2>1. UNCHANGED <<order, latest>> /\ (now' = now \/ now' = now + 1)
    BY <1>4 DEF Begin, Refuse, Respond, Tick, vars
  <2> QED
    BY <1>3, <2>1, Constants DEF IInv, TypeOK
<1> QED
  BY <1>1, <1>2, <1>4 DEF Next, Check

LEMMA LagStep ==
  ASSUME IInv, LagInv, [Next]_vars
  PROVE  LagInv'
<1>0. /\ now \in Nat /\ MaxLag \in Nat
      /\ \A t \in Threads : pc[t] \in {"idle", "check", "admitted", "limited"} /\ seen[t] \in Nat
  BY Constants, LimiterAssumption DEF IInv, TypeOK, CallersOK
<1>1. CASE Tick
  BY <1>0, <1>1 DEF Tick, callers, LagInv
<1>2. ASSUME NEW t \in Threads, NEW p \in Projects, Begin(t, p) PROVE LagInv'
  BY <1>0, <1>2 DEF Begin, IInv, TypeOK, CallersOK, LagInv
<1>3. ASSUME NEW t \in Threads, \/ OpenWindow(t) \/ OpenEvicting(t) \/ Renew(t) \/ Consume(t)
                                \/ Refuse(t) \/ Respond(t)
      PROVE  LagInv'
  <2>1. /\ now' = now /\ pc'[t] # "check"
        /\ \A u \in Threads : u # t => pc'[u] = pc[u] /\ seen'[u] = seen[u]
    BY <1>3 DEF OpenWindow, OpenEvicting, Renew, Consume, Refuse, Respond, Admit, IInv, TypeOK,
                CallersOK
  <2> QED
    BY <1>0, <2>1 DEF LagInv
<1>4. CASE UNCHANGED vars
  BY <1>4 DEF vars, callers, LagInv
<1> QED
  BY <1>1, <1>2, <1>3, <1>4 DEF Next, Check

-----------------------------------------------------------------------------
(* At most three windows in the length of one                                 *)

\* The admissions of the last window's length are those of three windows at most:
\* c of the current one, d of the one before, which ended when the current one was
\* opened, and e of the one before that.  None of them admits more than Limit.
ThreeWindows(p, c, d, e) ==
  /\ \A a \in Ages : recent[p][a] <= c[a] + d[a] + e[a]
  /\ Total(c) <= windows[p].requests /\ Total(d) <= Limit /\ Total(e) <= Limit
  /\ \A a \in Ages : d[a] > 0 => now - a <= windows[p].start + MaxLag
  /\ \A a \in Ages : e[a] > 0 => now - a + WindowTicks <= windows[p].start + MaxLag

SlidingInv ==
  \A p \in Projects :
    IF windows[p] = None THEN \A a \in Ages : recent[p][a] = 0
                         ELSE \E c, d, e \in [Ages -> Nat] : ThreeWindows(p, c, d, e)

\* The set of projects is within the bound, and no thread waits for the lock longer
\* than a window.
SlidingAssumption ==
  /\ IsFiniteSet(Projects) /\ Cardinality(Projects) <= MaxProjects
  /\ MaxLag <= WindowTicks

\* A project without a window is not among those that fill the map.
LEMMA NeverFull ==
  ASSUME IInv, IsFiniteSet(Projects), Cardinality(Projects) <= MaxProjects,
         NEW t \in Threads
  PROVE  ~OpenEvicting(t)
<1> SUFFICES ASSUME OpenEvicting(t) PROVE FALSE
  OBVIOUS
<1> DEFINE n == Len(order)
           L == Listed(order)
<1>1. /\ n \in Nat /\ n >= MaxProjects /\ order \in Seq(Projects) /\ DOMAIN order = 1 .. n
      /\ \A i, j \in 1 .. n : order[i] = order[j] => i = j
      /\ project[t] \in Projects \ L
  BY Caller, Constants DEF OpenEvicting, Full, IInv, TypeOK, OrderOK
<1>2. L = {order[i] : i \in 1 .. n} /\ L \subseteq Projects
  BY <1>1 DEF Listed
<1>3. order \in Bijection(1 .. n, L)
  BY <1>1, <1>2 DEF Bijection, Injection, Surjection, IsInjective
<1>4. Cardinality(L) = n /\ IsFiniteSet(L)
  <2>1. ExistsBijection(1 .. n, L)
    BY <1>3 DEF ExistsBijection
  <2> HIDE DEF n, L
  <2> QED
    BY <1>1, <2>1, FS_CountingElements, FS_Subset, <1>2
<1>5. Cardinality(L) < Cardinality(Projects)
  <2> HIDE DEF n, L
  <2> QED
    BY <1>1, <1>2, <1>4, FS_Subset, FS_CardinalityType
<1> QED
  BY <1>1, <1>4, <1>5, Constants, FS_CardinalityType

LEMMA SlidingInit == Init => SlidingInv
BY DEF Init, SlidingInv

\* The counts of an admission.
LEMMA AdmitCounts ==
  ASSUME IInv, NEW t \in Threads, project[t] \in Projects, Admit(t),
         NEW c \in [Ages -> Nat], NEW d \in [Ages -> Nat], NEW e \in [Ages -> Nat],
         \A a \in Ages : recent[project[t]][a] <= c[a] + d[a] + e[a]
  PROVE  \A a \in Ages : recent'[project[t]][a] <= [c EXCEPT ![0] = @ + 1][a] + d[a] + e[a]
<1>1. recent[project[t]] \in [Ages -> Nat]
  BY DEF IInv, TypeOK
<1>2. recent'[project[t]] = [recent[project[t]] EXCEPT ![0] = IF @ > 3 * Limit THEN @ ELSE @ + 1]
  BY DEF Admit, IInv, TypeOK
<1>3. ASSUME NEW a \in Ages
      PROVE  recent'[project[t]][a] <= [c EXCEPT ![0] = @ + 1][a] + d[a] + e[a]
  <2>1. /\ recent[project[t]][a] <= c[a] + d[a] + e[a]
        /\ recent[project[t]][a] \in Nat /\ c[a] \in Nat /\ d[a] \in Nat /\ e[a] \in Nat
    BY <1>1
  <2>2. CASE a = 0
    BY <1>1, <1>2, <2>1, <2>2
  <2>3. CASE a # 0
    BY <1>1, <1>2, <2>1, <2>3
  <2> QED
    BY <2>2, <2>3
<1> QED
  BY <1>3

LEMMA NoAdmissions == Nothing \in [Ages -> Nat] /\ \A a \in Ages : Nothing[a] = 0
BY TotalNothing DEF Nothing

\* The first window of a project.
LEMMA SlidingOpen ==
  ASSUME IInv, LagInv, SlidingInv, NEW t \in Threads, OpenWindow(t)
  PROVE  \E c, d, e \in [Ages -> Nat] : ThreeWindows(project[t], c, d, e)'
<1> DEFINE p == project[t]
           c == [Nothing EXCEPT ![0] = @ + 1]
<1>1. /\ p \in Projects /\ windows[p] = None /\ p' = p /\ Admit(t)
      /\ windows'[p] = [start |-> seen[t], requests |-> 1]
  BY Caller DEF OpenWindow, Mine, Admit, IInv, TypeOK, WindowsOK
<1>2. \A a \in Ages : recent[p][a] <= Nothing[a] + Nothing[a] + Nothing[a]
  BY <1>1, NoAdmissions DEF SlidingInv
<1>3. \A a \in Ages : recent'[p][a] <= c[a] + Nothing[a] + Nothing[a]
  BY <1>1, <1>2, NoAdmissions, AdmitCounts
<1>4. c \in [Ages -> Nat] /\ Total(c) = 1
  <2>1. c \in [Ages -> Nat]
    BY NoAdmissions, AgeBounds
  <2>2. Total(c) = Total(Nothing) + 1
    BY NoAdmissions, TotalAdd
  <2> QED
    BY <2>1, <2>2, TotalNothing
<1>5. Total(Nothing) = 0 /\ Limit \in Nat
  BY TotalNothing, Constants
<1>6. ThreeWindows(p, c, Nothing, Nothing)'
  <2> HIDE DEF c
  <2> QED
    BY <1>1, <1>3, <1>4, <1>5, NoAdmissions DEF ThreeWindows, Total
<1> QED
  BY <1>1, <1>4, <1>6, NoAdmissions

\* Another slot of the current window.
LEMMA SlidingConsume ==
  ASSUME IInv, SlidingInv, NEW t \in Threads, Consume(t)
  PROVE  \E c, d, e \in [Ages -> Nat] : ThreeWindows(project[t], c, d, e)'
<1> DEFINE p == project[t]
<1>1. /\ p \in Projects /\ windows[p] \in Window /\ p' = p /\ Admit(t) /\ now' = now
      /\ windows'[p].requests = windows[p].requests + 1
      /\ windows'[p].start = windows[p].start
  BY Caller DEF Consume, Mine, Admit, IInv, TypeOK, WindowsOK, Window
<1>2. PICK c \in [Ages -> Nat], d \in [Ages -> Nat], e \in [Ages -> Nat] : ThreeWindows(p, c, d, e)
  BY <1>1, Constants DEF SlidingInv
<1> DEFINE g == [c EXCEPT ![0] = @ + 1]
<1>3. g \in [Ages -> Nat] /\ Total(g) = Total(c) + 1
  <2>1. g \in [Ages -> Nat]
    BY AgeBounds
  <2>2. Total(g) = Total(c) + 1
    BY TotalAdd
  <2> QED
    BY <2>1, <2>2
<1>4. Total(c) \in Nat
  BY SumsStep, AgeBounds DEF Total
<1>5. \A a \in Ages : recent'[p][a] <= g[a] + d[a] + e[a]
  BY <1>1, <1>2, AdmitCounts DEF ThreeWindows
<1> HIDE DEF g
<1>6. Total(g) <= windows[p].requests + 1
  BY <1>1, <1>2, <1>3, <1>4 DEF ThreeWindows, Window
<1>7. ThreeWindows(p, g, d, e)'
  BY <1>1, <1>2, <1>5, <1>6 DEF ThreeWindows, Total
<1> QED
  BY <1>1, <1>3, <1>7

\* A window after the current one: that one becomes the one before, and what the
\* window before it admitted is older by then than a window's length.
LEMMA SlidingRenew ==
  ASSUME IInv, LagInv, SlidingInv, MaxLag <= WindowTicks, NEW t \in Threads, Renew(t)
  PROVE  \E c, d, e \in [Ages -> Nat] : ThreeWindows(project[t], c, d, e)'
<1> DEFINE p == project[t]
           start == windows[p].start
           g == [Nothing EXCEPT ![0] = @ + 1]
<1>1. /\ p \in Projects /\ windows[p] \in Window /\ p' = p /\ Admit(t) /\ now' = now
      /\ windows'[p].requests = 1
      /\ windows'[p].start = seen[t]
      /\ windows[p].requests <= Limit
      /\ seen[t] \in Nat /\ now \in Nat /\ start \in Nat
      /\ seen[t] >= start + WindowTicks
  <2>1. p \in Projects /\ seen[t] \in Nat /\ windows[p] \in Window /\ Elapsed(t) \in Int
    BY Caller DEF Renew, Mine
  <2>2. windows'[p] = [start |-> seen[t], requests |-> 1]
    BY <2>1 DEF Renew, IInv, TypeOK, WindowsOK
  <2>3. seen[t] - start >= WindowTicks
    BY DEF Renew, Over, Elapsed, Mine
  <2>4. now \in Nat /\ windows[p].requests \in 1 .. Limit
    BY <2>1, Constants DEF IInv, TypeOK, WindowsOK
  <2>5. Admit(t) /\ p' = p /\ now' = now
    BY DEF Renew, Admit
  <2> QED
    BY <2>1, <2>2, <2>3, <2>4, <2>5, Constants DEF Window
<1>2. PICK c \in [Ages -> Nat], d \in [Ages -> Nat], e \in [Ages -> Nat] : ThreeWindows(p, c, d, e)
  BY <1>1, Constants DEF SlidingInv
<1>3. seen[t] <= now /\ now - seen[t] <= MaxLag /\ MaxLag \in Nat
  BY LimiterAssumption DEF LagInv, Renew
<1>4. \A a \in Ages : e[a] = 0
  <2> SUFFICES ASSUME NEW a \in Ages, e[a] > 0 PROVE FALSE
    OBVIOUS
  <2>1. now - a + WindowTicks <= start + MaxLag
    BY <1>2 DEF ThreeWindows
  <2>2. a \in Nat /\ a < WindowTicks /\ WindowTicks \in Nat
    BY Constants DEF Ages
  <2> HIDE DEF start
  <2> QED
    BY <1>1, <1>3, <2>1, <2>2
<1>5. g \in [Ages -> Nat] /\ Total(g) = 1
  <2>1. g \in [Ages -> Nat]
    BY NoAdmissions, AgeBounds
  <2>2. Total(g) = Total(Nothing) + 1
    BY NoAdmissions, TotalAdd
  <2> QED
    BY <2>1, <2>2, TotalNothing
<1>6. \A a \in Ages : recent'[p][a] <= g[a] + c[a] + d[a]
  <2>1. \A a \in Ages : recent[p][a] <= Nothing[a] + c[a] + d[a]
    BY <1>2, <1>4, NoAdmissions DEF ThreeWindows
  <2> QED
    BY <1>1, <2>1, NoAdmissions, AdmitCounts
<1>7. Total(c) <= Limit
  BY <1>1, <1>2, SumsStep, AgeBounds, Constants DEF ThreeWindows, Total, Window
<1>8. ASSUME NEW a \in Ages PROVE now - a <= seen[t] + MaxLag
  <2>1. a \in Nat /\ now \in Nat /\ seen[t] \in Nat
    BY <1>1, AgeBounds
  <2> QED
    BY <1>3, <2>1
<1>9. ASSUME NEW a \in Ages, d[a] > 0 PROVE now - a + WindowTicks <= seen[t] + MaxLag
  <2>1. now - a <= start + MaxLag
    BY <1>2, <1>9 DEF ThreeWindows
  <2>2. /\ a \in Nat /\ WindowTicks \in Nat /\ now \in Nat /\ seen[t] \in Nat /\ start \in Nat
        /\ seen[t] >= start + WindowTicks
    BY <1>1, AgeBounds, Constants
  <2> HIDE DEF start
  <2> QED
    BY <1>3, <2>1, <2>2
<1> HIDE DEF g
<1>10. ThreeWindows(p, g, c, d)'
  BY <1>1, <1>2, <1>5, <1>6, <1>7, <1>8, <1>9 DEF ThreeWindows, Total
<1> QED
  BY <1>1, <1>5, <1>10

\* A tick ages all admissions.
LEMMA SlidingTick ==
  ASSUME IInv, SlidingInv, Tick
  PROVE  SlidingInv'
<1> SUFFICES ASSUME NEW p \in Projects
             PROVE  IF windows[p] = None THEN \A a \in Ages : recent'[p][a] = 0
                    ELSE \E c, d, e \in [Ages -> Nat] : ThreeWindows(p, c, d, e)'
  BY DEF SlidingInv, Tick
<1>1. recent'[p] = Aged(recent[p]) /\ recent[p] \in [Ages -> Nat] /\ now' = now + 1 /\ windows' = windows
      /\ now \in Nat
  BY Constants DEF Tick, Aged, IInv, TypeOK
<1>2. CASE windows[p] = None
  <2>1. \A a \in Ages : recent[p][a] = 0
    BY <1>2 DEF SlidingInv
  <2> QED
    BY <1>1, <1>2, <2>1, AgeBounds DEF Aged
<1>3. CASE windows[p] # None
  <2>0. windows[p] \in Window
    BY <1>3 DEF IInv, TypeOK, WindowsOK
  <2>1. PICK c \in [Ages -> Nat], d \in [Ages -> Nat], e \in [Ages -> Nat] : ThreeWindows(p, c, d, e)
    BY <1>3 DEF SlidingInv
  <2>2. \A f \in [Ages -> Nat] : /\ Aged(f) \in [Ages -> Nat]
                                 /\ Total(Aged(f)) <= Total(f)
                                 /\ Total(Aged(f)) \in Nat /\ Total(f) \in Nat
    BY TotalAged, SumsStep, AgeBounds DEF Total
  <2>3. \A f \in [Ages -> Nat], a \in Ages :
          Aged(f)[a] = IF a = 0 THEN 0 ELSE f[a - 1]
    BY DEF Aged
  <2>4. \A a \in Ages : recent'[p][a] <= Aged(c)[a] + Aged(d)[a] + Aged(e)[a]
    BY <1>1, <2>1, <2>3, AgeBounds DEF ThreeWindows
  <2>5. Total(Aged(c)) <= windows[p].requests /\ Total(Aged(d)) <= Limit /\ Total(Aged(e)) <= Limit
    BY <2>0, <2>1, <2>2, Constants DEF ThreeWindows, Window
  <2>6. ASSUME NEW a \in Ages, Aged(d)[a] > 0 PROVE now' - a <= windows'[p].start + MaxLag
    <3>1. a # 0 /\ a - 1 \in Ages /\ a \in Nat /\ d[a - 1] > 0
      BY <2>3, <2>6, AgeBounds
    <3>2. now - (a - 1) <= windows[p].start + MaxLag
      BY <2>1, <3>1 DEF ThreeWindows
    <3> QED
      BY <1>1, <3>1, <3>2
  <2>7. ASSUME NEW a \in Ages, Aged(e)[a] > 0
        PROVE  now' - a + WindowTicks <= windows'[p].start + MaxLag
    <3>1. a # 0 /\ a - 1 \in Ages /\ a \in Nat /\ e[a - 1] > 0
      BY <2>3, <2>7, AgeBounds
    <3>2. now - (a - 1) + WindowTicks <= windows[p].start + MaxLag
      BY <2>1, <3>1 DEF ThreeWindows
    <3> QED
      BY <1>1, <3>1, <3>2, Constants
  <2>8. ThreeWindows(p, Aged(c), Aged(d), Aged(e))'
    <3>1. \A a \in Ages : recent'[p][a] <= Aged(c)[a] + Aged(d)[a] + Aged(e)[a]
      BY <2>4
    <3>2. /\ Total(Aged(c)) <= windows'[p].requests
          /\ Total(Aged(d)) <= Limit /\ Total(Aged(e)) <= Limit
      BY <1>1, <2>5
    <3>3. \A a \in Ages : Aged(d)[a] > 0 => now' - a <= windows'[p].start + MaxLag
      BY <2>6
    <3>4. \A a \in Ages : Aged(e)[a] > 0 => now' - a + WindowTicks <= windows'[p].start + MaxLag
      BY <2>7
    <3> QED
      BY <3>1, <3>2, <3>3, <3>4 DEF ThreeWindows
  <2> QED
    BY <1>3, <2>2, <2>8
<1> QED
  BY <1>2, <1>3

LEMMA SlidingStep ==
  ASSUME IInv, LagInv, SlidingInv, SlidingAssumption, [Next]_vars
  PROVE  SlidingInv'
<1>1. ASSUME NEW t \in Threads, OpenWindow(t) \/ Renew(t) \/ Consume(t) PROVE SlidingInv'
  <2>1. /\ project[t] \in Projects
        /\ \E c, d, e \in [Ages -> Nat] : ThreeWindows(project[t], c, d, e)'
    BY <1>1, Caller, SlidingOpen, SlidingRenew, SlidingConsume
    DEF OpenWindow, Renew, Consume, SlidingAssumption
  <2>2. windows'[project[t]] # None
    BY <1>1, Caller, Constants DEF OpenWindow, Renew, Consume, Mine, Window, IInv, TypeOK, WindowsOK
  <2>3. ASSUME NEW p \in Projects, p # project[t]
        PROVE  windows'[p] = windows[p] /\ recent'[p] = recent[p] /\ now' = now
    BY <1>1, <2>3 DEF OpenWindow, Renew, Consume, Admit, IInv, TypeOK, WindowsOK
  <2>4. ASSUME NEW p \in Projects, p # project[t]
        PROVE  IF windows'[p] = None THEN \A a \in Ages : recent'[p][a] = 0
               ELSE \E c, d, e \in [Ages -> Nat] : ThreeWindows(p, c, d, e)'
    BY <1>1, <2>3, <2>4 DEF SlidingInv, ThreeWindows
  <2>5. project' = project
    BY <1>1 DEF OpenWindow, Renew, Consume, Admit
  <2> QED
    BY <2>1, <2>2, <2>4, <2>5 DEF SlidingInv
<1>2. ASSUME NEW t \in Threads PROVE ~OpenEvicting(t)
  BY NeverFull DEF SlidingAssumption
<1>3. CASE UNCHANGED <<now, windows, recent>>
  BY <1>3 DEF SlidingInv, ThreeWindows
<1>4. ASSUME NEW t \in Threads, (\E p \in Projects : Begin(t, p)) \/ Refuse(t) \/ Respond(t)
      PROVE  SlidingInv'
  BY <1>3, <1>4 DEF Begin, Refuse, Respond
<1> QED
  BY <1>1, <1>2, <1>3, <1>4, SlidingTick DEF Next, Check, vars

LEMMA SlidingInvariance == SlidingAssumption => (Spec => []SlidingInv)
<1> SUFFICES ASSUME SlidingAssumption PROVE Spec => []SlidingInv
  OBVIOUS
<1>1. Init => LagInv
  BY DEF Init, LagInv
<1>2. IInv /\ LagInv /\ [Next]_vars => LagInv'
  BY LagStep
<1>3. IInv /\ LagInv /\ SlidingInv /\ [Next]_vars => SlidingInv'
  BY SlidingStep
<1> QED
  BY <1>1, <1>2, <1>3, SlidingInit, Inductive, PTL DEF Spec

\* Any stretch of one window's length admits at most three windows' worth of requests
\* of a project, for every limit, window, clock resolution and schedule, as long as
\* no entry is evicted and no thread waits for the lock longer than a window.
THEOREM SlidingCorrect ==
  ASSUME IsFiniteSet(Projects), MaxLag <= WindowTicks
  PROVE  Spec => []SlidingBound
<1>1. ASSUME IInv, SlidingInv, NEW p \in Projects PROVE RecentAdmits(p) <= 3 * Limit
  <2>0. recent[p] \in [Ages -> Nat] /\ windows[p] \in Window \cup {None}
    BY <1>1 DEF IInv, TypeOK, WindowsOK
  <2>1. \A f \in [Ages -> Nat] : Total(f) \in Nat
    BY SumsStep, AgeBounds DEF Total
  <2>2. CASE windows[p] = None
    <3>1. \A a \in Ages : recent[p][a] <= Nothing[a] + Nothing[a] + Nothing[a]
      BY <1>1, <2>2, NoAdmissions DEF SlidingInv
    <3>2. Total(recent[p]) <= Total(Nothing) + Total(Nothing) + Total(Nothing)
      BY <2>0, <3>1, NoAdmissions, TotalBelow
    <3> QED
      BY <2>0, <2>1, <3>2, TotalNothing, RecentAdmitsIsTotal, Constants
  <2>3. CASE windows[p] # None
    <3>1. PICK c \in [Ages -> Nat], d \in [Ages -> Nat], e \in [Ages -> Nat] :
            ThreeWindows(p, c, d, e)
      BY <1>1, <2>3 DEF SlidingInv
    <3>2. Total(recent[p]) <= Total(c) + Total(d) + Total(e)
      BY <2>0, <3>1, TotalBelow DEF ThreeWindows
    <3>3. windows[p].requests \in 1 .. Limit
      BY <1>1, <2>3 DEF IInv, TypeOK, WindowsOK
    <3>4. Total(c) <= Limit /\ Total(d) <= Limit /\ Total(e) <= Limit
      BY <2>1, <3>1, <3>3, Constants DEF ThreeWindows
    <3> QED
      BY <2>0, <2>1, <3>2, <3>4, RecentAdmitsIsTotal, Constants
  <2> QED
    BY <2>2, <2>3
<1>2. CASE Cardinality(Projects) <= MaxProjects
  <2>1. SlidingAssumption
    BY <1>2 DEF SlidingAssumption
  <2>2. IInv /\ SlidingInv => SlidingBound
    BY <1>1 DEF SlidingBound
  <2>3. Spec => []SlidingInv
    BY <2>1, SlidingInvariance
  <2> QED
    BY <2>2, <2>3, Inductive, PTL
<1>3. CASE ~(Cardinality(Projects) <= MaxProjects)
  <2>1. SlidingBound
    BY <1>3 DEF SlidingBound
  <2> QED
    BY <2>1, PTL
<1> QED
  BY <1>2, <1>3

LEMMA OrderedInvariance == Spec => []OrderedInv
<1>1. Init => OrderedInv
  BY DEF Init, OrderedInv
<1>2. IInv /\ OrderedInv /\ [Next]_vars => OrderedInv'
  BY OrderedStep
<1> QED
  BY <1>1, <1>2, Inductive, PTL DEF Spec

\* An eviction takes the project whose last admission is the oldest.
THEOREM EvictionCorrect == Spec => EvictsOldestAdmission
<1>3. ASSUME IInv, OrderedInv, [Next]_vars, NEW p \in Projects, NEW q \in Projects,
             windows[p] # None, windows'[p] = None, windows[q] # None
      PROVE  latest[p] <= latest[q]
  <2>1. \E t \in Threads : OpenEvicting(t) /\ p = Head(order)
    <3>1. ASSUME NEW t \in Threads, Check(t) PROVE OpenEvicting(t) /\ p = Head(order)
      <4>1. /\ pc[t] = "check" => project[t] \in Projects /\ seen[t] \in Nat
            /\ windows \in [Projects -> Window \cup {None}]
        BY <1>3, Caller DEF IInv, TypeOK, WindowsOK
      <4>2. ASSUME NEW e \in Window, NEW x \in Projects, windows' = [windows EXCEPT ![x] = e]
            PROVE  FALSE
        BY <1>3, <4>1, <4>2, Constants
      <4>3. ~OpenWindow(t) /\ ~Renew(t)
        BY <4>1, <4>2, Constants DEF OpenWindow, Renew, Window
      <4>4. ~Consume(t)
        <5>1. ASSUME Consume(t) PROVE [Mine(t) EXCEPT !.requests = @ + 1] \in Window
          BY <1>3, <4>1, <5>1, Caller DEF Consume, Window
        <5> QED
          BY <4>1, <4>2, <5>1 DEF Consume, Mine
      <4>5. OpenEvicting(t)
        BY <1>3, <3>1, <4>3, <4>4 DEF Check, Begin, Refuse, Respond
      <4> QED
        BY <1>3, <4>1, <4>5, Constants DEF OpenEvicting, Window
    <3> QED
      BY <1>3, <3>1 DEF Next, Tick, vars
  <2>2. /\ order \in Seq(Projects) /\ q \in Listed(order) /\ order # <<>>
        /\ Head(order) = order[1]
    BY <1>3, <2>1 DEF OpenEvicting, Full, IInv, TypeOK, OrderOK, WindowsBounded, Listed
  <2>3. PICK i \in DOMAIN order : q = order[i]
    BY <2>2 DEF Listed
  <2>4. 1 \in DOMAIN order /\ 1 <= i
    BY <2>2, <2>3
  <2> QED
    BY <1>3, <2>1, <2>2, <2>3, <2>4 DEF OrderedInv
<1>4. IInv /\ OrderedInv /\ [Next]_vars
        => [\A p, q \in Projects :
              (windows[p] # None /\ windows'[p] = None) /\ (windows[q] # None /\ windows'[q] # None)
                => latest[p] <= latest[q]]_vars
  BY <1>3
<1> QED
  BY <1>4, Inductive, OrderedInvariance, PTL DEF Spec, EvictsOldestAdmission

\* The window of a project changes through its own requests, or is evicted whole
\* from a map at its bound.
THEOREM IndependentCorrect == Spec => ProjectsIndependent
<1>1. ASSUME IInv, [Next]_vars, NEW p \in Projects, windows'[p] # windows[p],
             \A t \in Threads : ~(pc[t] = "check" /\ project[t] = p)
      PROVE  Len(order) = MaxProjects /\ windows'[p] = None
  <2>1. PICK t \in Threads : Check(t)
    BY <1>1 DEF Next, Tick, vars
  <2>2. ASSUME pc[t] = "check", NEW e, windows' = [windows EXCEPT ![project[t]] = e] PROVE FALSE
    BY <1>1, <2>2, Caller DEF IInv, TypeOK, WindowsOK
  <2>3. ~OpenWindow(t) /\ ~Renew(t) /\ ~Consume(t)
    BY <2>2 DEF OpenWindow, Renew, Consume
  <2>4. OpenEvicting(t)
    BY <1>1, <2>1, <2>3 DEF Check, Begin, Refuse, Respond
  <2>5. Len(order) = MaxProjects /\ order \in Seq(Projects) /\ order # <<>>
    BY <1>1, <2>4, Constants DEF OpenEvicting, Full, IInv, TypeOK, OrderOK, WindowsBounded
  <2>6. p # project[t]
    BY <1>1, <2>4 DEF OpenEvicting
  <2> QED
    BY <1>1, <2>4, <2>5, <2>6 DEF OpenEvicting, IInv, TypeOK, WindowsOK
<1>2. IInv /\ [Next]_vars
        => [\A p \in Projects :
              windows'[p] # windows[p]
                => \/ \E t \in Threads : pc[t] = "check" /\ project[t] = p
                   \/ Len(order) = MaxProjects /\ windows'[p] = None]_vars
  BY <1>1
<1> QED
  BY <1>2, Inductive, PTL DEF Spec, ProjectsIndependent
=============================================================================
