----------------------------- MODULE RateLimit ------------------------------
(* ProjectRateLimiter (auth/rate_limit.py): one fixed window per project in a  *)
(* bounded OrderedDict, shared by the handler threads of one API process.      *)
(* A check reads the clock before it takes the lock, so the reading it decides *)
(* with may be older than what other threads have stored meanwhile.            *)
EXTENDS Integers, Sequences, FiniteSets

CONSTANTS
  Projects,       \* project ids (client hashes, for the demo limiter)
  Threads,        \* handler threads
  Limit,          \* requests_per_window
  WindowSeconds,  \* window_seconds
  TicksPerSecond, \* resolution of the clock
  MaxProjects,    \* max_projects
  MaxTime,        \* bound: the clock stops there
  MaxLag,         \* bound: ticks between the clock reading and the lock
  None

ASSUME LimiterAssumption ==
  /\ Limit \in Nat \ {0}
  /\ WindowSeconds \in Nat \ {0}
  /\ TicksPerSecond \in Nat \ {0}
  /\ MaxProjects \in Nat \ {0}
  /\ MaxTime \in Nat
  /\ MaxLag \in Nat \ {0}
  /\ None \notin Projects
  /\ None \notin [start : Nat, requests : Nat] \cup [start : Nat, until : Int]

VARIABLES
  now,      \* the clock
  windows,  \* per project: its entry in _windows, None when absent
  order,    \* the projects of _windows, first inserted or moved first
  pc,       \* per thread: "idle", "check" (clock read), "admitted" or "limited"
  project,  \* per thread: the project it checks
  seen,     \* per thread: its clock reading
  retry,    \* per thread: the Retry-After it answers
  promise,  \* history: per project, the window and the end of its last Retry-After
  recent,   \* history: per project, the checks admitted 0, 1, ... ticks ago,
            \* counted up to one more than SlidingBound allows
  latest    \* history: per project, when a check was last admitted

callers == <<pc, project, seen, retry>>
vars    == <<now, windows, order, callers, promise, recent, latest>>

\* A window in ticks.
WindowTicks == WindowSeconds * TicksPerSecond

\* How long ago an admission may be to fall into the last window's length.
Ages == 0 .. WindowTicks - 1

Window == [start : Nat, requests : Nat]

\* Mutant: int() instead of ceil() of the remaining time.
FloorDiv(a, b) == a \div b

CeilDiv(a, b) == -((-a) \div b)

RetryAfter(elapsed) ==
  LET seconds == CeilDiv(WindowTicks - elapsed, TicksPerSecond)
  IN IF seconds > 1 THEN seconds ELSE 1

Listed(s) == {s[i] : i \in DOMAIN s}

\* Mutant: the project keeps its place among the others.
KeepPlace(s, p) == IF p \in Listed(s) THEN s ELSE Append(s, p)

\* OrderedDict.move_to_end of a project that is present or has just been added.
MoveToEnd(s, p) ==
  IF p \notin Listed(s)
  THEN Append(s, p)
  ELSE LET place == CHOOSE i \in DOMAIN s : s[i] = p
       IN [i \in DOMAIN s |->
             IF i < place THEN s[i] ELSE IF i < Len(s) THEN s[i + 1] ELSE p]

-----------------------------------------------------------------------------

Init ==
  /\ now = 0
  /\ windows = [p \in Projects |-> None]
  /\ order = <<>>
  /\ pc      = [t \in Threads |-> "idle"]
  /\ project = [t \in Threads |-> None]
  /\ seen    = [t \in Threads |-> 0]
  /\ retry   = [t \in Threads |-> 0]
  /\ promise = [p \in Projects |-> None]
  /\ recent  = [p \in Projects |-> [age \in Ages |-> 0]]
  /\ latest  = [p \in Projects |-> 0]

\* check() reads the clock.
Begin(t, p) ==
  /\ pc[t] = "idle"
  /\ pc'      = [pc EXCEPT ![t] = "check"]
  /\ project' = [project EXCEPT ![t] = p]
  /\ seen'    = [seen EXCEPT ![t] = now]
  /\ UNCHANGED <<now, windows, order, retry, promise, recent, latest>>

Mine(t)    == windows[project[t]]
Elapsed(t) == seen[t] - Mine(t).start

\* Mutant: ticks compared with seconds.
OverInSeconds(t) == Elapsed(t) >= WindowSeconds

Over(t) == Elapsed(t) >= WindowTicks

\* Mutant: the oldest project is evicted one too early.
FullTooEarly == Len(order) + 1 >= MaxProjects

\* Mutant: one project more than the bound.
FullTooLate == Len(order) > MaxProjects

Full == Len(order) >= MaxProjects

\* The check returns: a slot of the project has been consumed.
Admit(t) ==
  /\ pc'     = [pc EXCEPT ![t] = "admitted"]
  /\ recent' = [recent EXCEPT ![project[t]][0] = IF @ > 3 * Limit THEN @ ELSE @ + 1]
  /\ latest' = [latest EXCEPT ![project[t]] = now]
  /\ UNCHANGED <<now, project, seen, retry, promise>>

\* A project without an entry, and room for one.
OpenWindow(t) ==
  /\ pc[t] = "check"
  /\ Mine(t) = None
  /\ ~Full
  /\ windows' = [windows EXCEPT ![project[t]] = [start |-> seen[t], requests |-> 1]]
  /\ order'   = MoveToEnd(order, project[t])
  /\ Admit(t)

\* A project without an entry when the dictionary is full: the entry at the
\* front, and with it the count of its project, is dropped.
OpenEvicting(t) ==
  /\ pc[t] = "check"
  /\ Mine(t) = None
  /\ Full
  /\ windows' = [windows EXCEPT ![Head(order)] = None,
                                ![project[t]] = [start |-> seen[t], requests |-> 1]]
  /\ order'   = MoveToEnd(Tail(order), project[t])
  /\ Admit(t)

\* The window of the project is over: a new one starts at the reading.
Renew(t) ==
  /\ pc[t] = "check"
  /\ Mine(t) # None
  /\ Over(t)
  /\ windows' = [windows EXCEPT ![project[t]] = [start |-> seen[t], requests |-> 1]]
  /\ order'   = MoveToEnd(order, project[t])
  /\ Admit(t)

\* Mutant: the count is compared after the slot was taken.
ConsumeOneMore(t) ==
  /\ pc[t] = "check"
  /\ Mine(t) # None
  /\ ~Over(t)
  /\ Mine(t).requests <= Limit
  /\ windows' = [windows EXCEPT ![project[t]].requests = @ + 1]
  /\ order'   = MoveToEnd(order, project[t])
  /\ Admit(t)

\* A slot of the current window.
Consume(t) ==
  /\ pc[t] = "check"
  /\ Mine(t) # None
  /\ ~Over(t)
  /\ Mine(t).requests < Limit
  /\ windows' = [windows EXCEPT ![project[t]].requests = @ + 1]
  /\ order'   = MoveToEnd(order, project[t])
  /\ Admit(t)

\* 429 with Retry-After: the entry keeps its place in the order.
Refuse(t) ==
  /\ pc[t] = "check"
  /\ Mine(t) # None
  /\ ~Over(t)
  /\ Mine(t).requests >= Limit
  /\ pc'      = [pc EXCEPT ![t] = "limited"]
  /\ retry'   = [retry EXCEPT ![t] = RetryAfter(Elapsed(t))]
  /\ promise' = [promise EXCEPT ![project[t]] =
                   [start |-> Mine(t).start,
                    until |-> seen[t] + RetryAfter(Elapsed(t)) * TicksPerSecond]]
  /\ UNCHANGED <<now, windows, order, project, seen, recent, latest>>

\* The handler goes on, or answers the 429.
Respond(t) ==
  /\ pc[t] \in {"admitted", "limited"}
  /\ pc'      = [pc EXCEPT ![t] = "idle"]
  /\ project' = [project EXCEPT ![t] = None]
  /\ seen'    = [seen EXCEPT ![t] = 0]
  /\ retry'   = [retry EXCEPT ![t] = 0]
  /\ UNCHANGED <<now, windows, order, promise, recent, latest>>

\* Time passes; no thread waits for the lock longer than MaxLag.
Tick ==
  /\ now < MaxTime
  /\ \A t \in Threads : pc[t] = "check" => now - seen[t] < MaxLag
  /\ now' = now + 1
  /\ recent' = [p \in Projects |->
                  [age \in Ages |-> IF age = 0 THEN 0 ELSE recent[p][age - 1]]]
  /\ UNCHANGED <<windows, order, callers, promise, latest>>

Check(t) ==
  \/ \E p \in Projects : Begin(t, p)
  \/ OpenWindow(t)
  \/ OpenEvicting(t)
  \/ Renew(t)
  \/ Consume(t)
  \/ Refuse(t)
  \/ Respond(t)

Next == (\E t \in Threads : Check(t)) \/ Tick

Spec == Init /\ [][Next]_vars

-----------------------------------------------------------------------------
(* Properties                                                                 *)

WindowsOK ==
  /\ windows \in [Projects -> Window \cup {None}]
  /\ \A p \in Projects : windows[p] # None => windows[p].requests \in 1 .. Limit

OrderOK ==
  /\ order \in Seq(Projects)
  /\ \A i, j \in DOMAIN order : order[i] = order[j] => i = j

CallersOK ==
  /\ pc \in [Threads -> {"idle", "check", "admitted", "limited"}]
  /\ project \in [Threads -> Projects \cup {None}]
  /\ seen \in [Threads -> Nat]
  /\ retry \in [Threads -> Int]
  /\ \A t \in Threads : pc[t] # "idle" => project[t] # None

\* Types; a window has admitted between one and Limit requests.
TypeOK ==
  /\ now \in 0 .. MaxTime
  /\ WindowsOK
  /\ OrderOK
  /\ CallersOK
  /\ promise \in [Projects -> [start : Nat, until : Int] \cup {None}]
  /\ recent \in [Projects -> [Ages -> Nat]]
  /\ latest \in [Projects -> Nat]

\* _windows never holds more than max_projects entries, and the order lists
\* exactly the projects that have one: eviction always removes an entry.
WindowsBounded ==
  /\ Len(order) <= MaxProjects
  /\ Listed(order) = {p \in Projects : windows[p] # None}

\* The admissions of a project during the last window's length of time.
RecentAdmits(p) ==
  LET total[age \in Ages] == recent[p][age] + IF age = 0 THEN 0 ELSE total[age - 1]
  IN total[WindowTicks - 1]

\* As long as no entry is evicted, at most three windows' worth of requests of a
\* project are admitted in any stretch of one window's length: the end of one
\* window, a window opened by a stale reading, and the window after it.
SlidingBound ==
  Cardinality(Projects) <= MaxProjects =>
    \A p \in Projects : RecentAdmits(p) <= 3 * Limit

\* What Retry-After promises ends with the window it was computed for, or less
\* than a second later, even when the reading was older than the window.
RetryAfterTight ==
  \A p \in Projects :
    promise[p] # None =>
      /\ promise[p].start + WindowTicks <= promise[p].until
      /\ promise[p].until < promise[p].start + WindowTicks + TicksPerSecond

\* A client that waits for as long as Retry-After said is not refused again by
\* the window that refused it.
PromiseKept ==
  [][\A t \in Threads :
       pc[t] = "check" /\ pc'[t] = "limited" /\ promise[project[t]] # None
         => \/ Mine(t).start # promise[project[t]].start
            \/ seen[t] < promise[project[t]].until]_vars

\* The window of a project changes only through its own requests, unless the map
\* is full: then another project may take the place of the whole entry.
ProjectsIndependent ==
  [][\A p \in Projects :
       windows'[p] # windows[p]
         => \/ \E t \in Threads : pc[t] = "check" /\ project[t] = p
            \/ Len(order) = MaxProjects /\ windows'[p] = None]_vars

\* An eviction never takes the window of a project that was admitted later than
\* a project whose window stays.
EvictsOldestAdmission ==
  [][\A p, q \in Projects :
       (windows[p] # None /\ windows'[p] = None) /\ (windows[q] # None /\ windows'[q] # None)
         => latest[p] <= latest[q]]_vars
=============================================================================
