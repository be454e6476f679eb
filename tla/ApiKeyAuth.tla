----------------------------- MODULE ApiKeyAuth -----------------------------
(* Bearer-key authentication: the api_keys table, and in every API worker an   *)
(* ApiKeyAuthenticator with its bounded in-process cache, shared by the        *)
(* threads that run the synchronous handlers of that worker                    *)
(* (auth/keys.py, api/auth.py, api/routes/api_keys.py).                        *)
(*                                                                             *)
(* A thread serves one request at a time.  Its steps are the pieces of         *)
(* authenticate() between which another thread can run: the clock read, the    *)
(* locked lookup, the SELECT, the commit with the stamp of the new entry, and  *)
(* the locked insertion.  A revoke is a commit followed, later, by the removal *)
(* of the key from the cache of its own worker.                                *)
EXTENDS Integers, Sequences

CONSTANTS
  Keys,        \* the keys issue_api_key() can generate: raw key, hash and id are one
  Forged,      \* bearer tokens no row will ever match
  Projects,    \* the projects that own keys
  Seed,        \* the keys scripts/create_api_key.py may issue before the service starts
  Workers,     \* API processes
  Threads,     \* the threads of all workers
  WorkerOf,    \* the worker of each thread
  TTL,         \* cache_ttl_seconds
  NegativeCap, \* the 5 of min(5, cache_ttl_seconds)
  MaxEntries,  \* max_entries
  Lifetimes,   \* the choices of expires_in_days, Never for none
  MaxTime,     \* bound: the clock stops there
  MaxLag,      \* bound: how long the commit after a SELECT may be outstanding
  None, Absent, Never

Tokens == Keys \cup Forged

ASSUME KeyAssumption ==
  /\ Keys \cap Forged = {}
  /\ Seed \subseteq Keys
  /\ WorkerOf \in [Threads -> Workers]

ASSUME NumberAssumption ==
  /\ TTL \in Nat \ {0}
  /\ NegativeCap \in Nat \ {0}
  /\ MaxEntries \in Nat \ {0}
  /\ MaxTime \in Nat
  /\ MaxLag \in Nat
  /\ Never \notin Nat
  /\ Lifetimes \subseteq (Nat \ {0}) \cup {Never}

ASSUME MarkerAssumption ==
  /\ None \notin Projects \cup [project : Projects, expires : Nat \cup {Never}]
  /\ None \notin Tokens
  /\ Absent \notin [principal : [project : Projects, expires : Nat \cup {Never}] \cup {None},
                    deadline : Nat]

VARIABLES
  now,       \* the clock; monotonic and wall time advance together
  status,    \* api_keys.is_active, "none" while the row does not exist
  owner,     \* api_keys.project_id
  expiry,    \* api_keys.expires_at
  cache,     \* per worker: the entry of each token in _cache
  order,     \* per worker: the tokens of _cache, least recently used first
  pc,        \* per thread: what its request does next
  key,       \* per thread: the token presented, then the key being revoked
  seen,      \* per thread: now_monotonic of authenticate()
  found,     \* per thread: the principal, None when there is none
  deadline,  \* per thread: expires_monotonic of the entry to insert
  revokedAt, \* history: when the row was revoked
  readAt,    \* history: when the SELECT of a thread ran
  revokedIn, \* history: the keys whose revoke a worker has answered, and how
  begun      \* history: revokedIn of the presented key when the request began

db      == <<status, owner, expiry>>
locals  == <<key, seen, found, deadline>>
history == <<revokedAt, readAt, revokedIn, begun>>
vars    == <<now, db, cache, order, pc, locals, history>>

Min2(a, b) == IF a <= b THEN a ELSE b

\* A worker caches a rejection for the shorter of five seconds and the TTL.
NegativeTTL == Min2(NegativeCap, TTL)

Principal == [project : Projects, expires : Nat \cup {Never}]
Entry     == [principal : Principal \cup {None}, deadline : Nat]

-----------------------------------------------------------------------------

Expired(e) == e # Never /\ e <= now

\* The row the SELECT of authenticate() finds and accepts.
Usable(k) == status[k] = "active" /\ ~Expired(expiry[k])

\* Mutant: an entry is served at the instant it expires.
LiveInclusive(e, clock) == e # Absent /\ e.deadline >= clock

Live(e, clock) == e # Absent /\ e.deadline > clock

\* Mutant: the bound is tested before the insertion instead of after it.
NewestPlusOne(s, n) == IF Len(s) <= n + 1 THEN s ELSE SubSeq(s, Len(s) - n, Len(s))

\* The entries of s that are in S, in their order: SelectSeq, which the provers
\* cannot expand, as a recursive function.
Keep(s, S) ==
  LET upto[i \in 0 .. Len(s)] ==
        IF i = 0 THEN <<>>
        ELSE IF s[i] \in S THEN Append(upto[i - 1], s[i]) ELSE upto[i - 1]
  IN upto[Len(s)]

PopKey(s, k)    == Keep(s, Tokens \ {k})
MoveToEnd(s, k) == Append(PopKey(s, k), k)
Newest(s, n)    == IF Len(s) <= n THEN s ELSE SubSeq(s, Len(s) - n + 1, Len(s))
Listed(s)       == {s[i] : i \in DOMAIN s}

Idle(t) ==
  /\ pc'       = [pc EXCEPT ![t] = "idle"]
  /\ key'      = [key EXCEPT ![t] = None]
  /\ seen'     = [seen EXCEPT ![t] = 0]
  /\ found'    = [found EXCEPT ![t] = None]
  /\ deadline' = [deadline EXCEPT ![t] = 0]
  /\ begun'    = [begun EXCEPT ![t] = "before"]
  /\ readAt'   = [readAt EXCEPT ![t] = 0]

Init ==
  /\ now = 0
  /\ owner \in {o \in [Tokens -> Projects \cup {None}] : \A k \in Tokens \ Seed : o[k] = None}
  /\ status = [k \in Tokens |-> IF owner[k] = None THEN "none" ELSE "active"]
  /\ expiry \in {e \in [Tokens -> Lifetimes \cup {Never}] :
                  \A k \in Tokens : owner[k] = None => e[k] = Never}
  /\ cache = [w \in Workers |-> [k \in Tokens |-> Absent]]
  /\ order = [w \in Workers |-> <<>>]
  /\ pc       = [t \in Threads |-> "idle"]
  /\ key      = [t \in Threads |-> None]
  /\ seen     = [t \in Threads |-> 0]
  /\ found    = [t \in Threads |-> None]
  /\ deadline = [t \in Threads |-> 0]
  /\ revokedAt = [k \in Tokens |-> 0]
  /\ readAt    = [t \in Threads |-> 0]
  /\ revokedIn = [w \in Workers |-> [k \in Tokens |-> "before"]]
  /\ begun     = [t \in Threads |-> "before"]

-----------------------------------------------------------------------------
(* authenticate()                                                             *)

\* A request arrives with an issued key or a forged token and reads the clock,
\* outside the lock.
Begin(t, k) ==
  /\ pc[t] = "idle"
  /\ k \in Forged \/ status[k] # "none"
  /\ pc'    = [pc EXCEPT ![t] = "lookup"]
  /\ key'   = [key EXCEPT ![t] = k]
  /\ seen'  = [seen EXCEPT ![t] = now]
  /\ begun' = [begun EXCEPT ![t] = revokedIn[WorkerOf[t]][k]]
  /\ UNCHANGED <<now, db, cache, order, found, deadline, revokedAt, readAt, revokedIn>>

\* Mutant: the lookup trusts a live entry without looking at the key's expiry.
CacheHitIgnoringExpiry(t) ==
  LET w == WorkerOf[t]
      e == cache[w][key[t]]
  IN /\ pc[t] = "lookup"
     /\ Live(e, seen[t])
     /\ e.principal # None
     /\ order' = [order EXCEPT ![w] = MoveToEnd(@, key[t])]
     /\ found' = [found EXCEPT ![t] = e.principal]
     /\ pc'    = [pc EXCEPT ![t] = "authed"]
     /\ UNCHANGED <<now, db, cache, key, seen, deadline, history>>

\* Lookup: a live positive entry whose key has not expired.
CacheHit(t) ==
  LET w == WorkerOf[t]
      e == cache[w][key[t]]
  IN /\ pc[t] = "lookup"
     /\ Live(e, seen[t])
     /\ e.principal # None
     /\ ~Expired(e.principal.expires)
     /\ order' = [order EXCEPT ![w] = MoveToEnd(@, key[t])]
     /\ found' = [found EXCEPT ![t] = e.principal]
     /\ pc'    = [pc EXCEPT ![t] = "authed"]
     /\ UNCHANGED <<now, db, cache, key, seen, deadline, history>>

\* Lookup: a live entry that remembers a rejection.
CacheReject(t) ==
  LET w == WorkerOf[t]
      e == cache[w][key[t]]
  IN /\ pc[t] = "lookup"
     /\ Live(e, seen[t])
     /\ e.principal = None
     /\ order' = [order EXCEPT ![w] = MoveToEnd(@, key[t])]
     /\ pc'    = [pc EXCEPT ![t] = "rejected"]
     /\ UNCHANGED <<now, db, cache, locals, history>>

\* Lookup: the key expired while its entry was live; a rejection replaces it,
\* dated from the clock read before the lock.
CacheExpire(t) ==
  LET w == WorkerOf[t]
      e == cache[w][key[t]]
  IN /\ pc[t] = "lookup"
     /\ Live(e, seen[t])
     /\ e.principal # None
     /\ Expired(e.principal.expires)
     /\ order' = [order EXCEPT ![w] = MoveToEnd(@, key[t])]
     /\ cache' = [cache EXCEPT ![w][key[t]] =
                    [principal |-> None, deadline |-> seen[t] + NegativeTTL]]
     /\ pc'    = [pc EXCEPT ![t] = "rejected"]
     /\ UNCHANGED <<now, db, locals, history>>

\* Lookup: no entry, or one that is no longer live and is dropped.
CacheMiss(t) ==
  LET w == WorkerOf[t]
  IN /\ pc[t] = "lookup"
     /\ ~Live(cache[w][key[t]], seen[t])
     /\ order' = [order EXCEPT ![w] = PopKey(@, key[t])]
     /\ cache' = [cache EXCEPT ![w][key[t]] = Absent]
     /\ pc'    = [pc EXCEPT ![t] = "select"]
     /\ UNCHANGED <<now, db, locals, history>>

\* Mutant: the principal is built without the expiry of the row.
SelectRowWithoutExpiry(t) ==
  /\ pc[t] = "select"
  /\ found'  = [found EXCEPT ![t] =
                  IF Usable(key[t]) THEN [project |-> owner[key[t]], expires |-> Never]
                  ELSE None]
  /\ pc'     = [pc EXCEPT ![t] = "stamp"]
  /\ readAt' = [readAt EXCEPT ![t] = now]
  /\ UNCHANGED <<now, db, cache, order, key, seen, deadline, revokedAt, revokedIn, begun>>

\* The SELECT of the active row joined with its project, and the expiry test.
SelectRow(t) ==
  /\ pc[t] = "select"
  /\ found'  = [found EXCEPT ![t] =
                  IF Usable(key[t])
                  THEN [project |-> owner[key[t]], expires |-> expiry[key[t]]]
                  ELSE None]
  /\ pc'     = [pc EXCEPT ![t] = "stamp"]
  /\ readAt' = [readAt EXCEPT ![t] = now]
  /\ UNCHANGED <<now, db, cache, order, key, seen, deadline, revokedAt, revokedIn, begun>>

\* Mutant: a database error is taken for a missing row.
DatabaseFailureIsMissingRow(t) ==
  /\ pc[t] = "select" \/ (pc[t] = "stamp" /\ found[t] # None)
  /\ pc'    = [pc EXCEPT ![t] = "stamp"]
  /\ found' = [found EXCEPT ![t] = None]
  /\ UNCHANGED <<now, db, cache, order, key, seen, deadline, history>>

\* A SQLAlchemyError of the SELECT, or of the commit of last_used_at: 503, and
\* nothing is remembered.
DatabaseFails(t) ==
  /\ pc[t] = "select" \/ (pc[t] = "stamp" /\ found[t] # None)
  /\ pc'    = [pc EXCEPT ![t] = "unavailable"]
  /\ found' = [found EXCEPT ![t] = None]
  /\ UNCHANGED <<now, db, cache, order, key, seen, deadline, history>>

\* The commit (of a success) and the deadline of the entry, computed before the
\* lock is taken.  last_used_at is write-only and not kept.
StampEntry(t) ==
  /\ pc[t] = "stamp"
  /\ deadline' = [deadline EXCEPT ![t] = now + IF found[t] # None THEN TTL ELSE NegativeTTL]
  /\ pc'       = [pc EXCEPT ![t] = "store"]
  /\ UNCHANGED <<now, db, cache, order, key, seen, found, history>>

\* The locked part of _remember(): insert at the end, prune what has expired by
\* now, evict from the front beyond the bound.
Remember(t) ==
  LET w      == WorkerOf[t]
      filled == [cache[w] EXCEPT ![key[t]] =
                   [principal |-> found[t], deadline |-> deadline[t]]]
      fresh  == Keep(MoveToEnd(order[w], key[t]), {k \in Tokens : Live(filled[k], now)})
      kept   == Newest(fresh, MaxEntries)
  IN /\ pc[t] = "store"
     /\ order' = [order EXCEPT ![w] = kept]
     /\ cache' = [cache EXCEPT ![w] =
                    [k \in Tokens |-> IF k \in Listed(kept) THEN filled[k] ELSE Absent]]
     /\ pc'    = [pc EXCEPT ![t] = IF found[t] # None THEN "authed" ELSE "rejected"]
     /\ UNCHANGED <<now, db, locals, history>>

-----------------------------------------------------------------------------
(* The routes behind get_authenticated_project()                              *)

\* The request ends without changing a key: an evaluation, a 401, a 503, a 404
\* for a key of another project, or a create or revoke whose transaction failed.
Respond(t) ==
  /\ pc[t] \in {"authed", "rejected", "unavailable"}
  /\ Idle(t)
  /\ UNCHANGED <<now, db, cache, order, revokedAt, revokedIn>>

\* Mutant: the row is added without its project.
CreateKeyUnscoped(t, k, life) ==
  /\ pc[t] = "authed"
  /\ k \in Keys
  /\ status[k] = "none"
  /\ status' = [status EXCEPT ![k] = "active"]
  /\ expiry' = [expiry EXCEPT ![k] = IF life = Never THEN Never ELSE now + life]
  /\ Idle(t)
  /\ UNCHANGED <<now, owner, cache, order, revokedAt, revokedIn>>

\* create_api_key: a row of the caller's project, committed before the response.
CreateKey(t, k, life) ==
  /\ pc[t] = "authed"
  /\ k \in Keys
  /\ status[k] = "none"
  /\ status' = [status EXCEPT ![k] = "active"]
  /\ owner'  = [owner EXCEPT ![k] = found[t].project]
  /\ expiry' = [expiry EXCEPT ![k] = IF life = Never THEN Never ELSE now + life]
  /\ Idle(t)
  /\ UNCHANGED <<now, cache, order, revokedAt, revokedIn>>

RevokeRow(k) ==
  /\ status' = [status EXCEPT ![k] = "revoked"]
  /\ revokedAt' = [revokedAt EXCEPT ![k] = IF status[k] = "active" THEN now ELSE @]
  /\ UNCHANGED <<owner, expiry>>

\* Mutant: the row is looked up by its id alone.
RevokeAnywhere(t, k) ==
  /\ pc[t] = "authed"
  /\ status[k] # "none"
  /\ RevokeRow(k)
  /\ pc'    = [pc EXCEPT ![t] = "invalidate"]
  /\ key'   = [key EXCEPT ![t] = k]
  /\ UNCHANGED <<now, cache, order, seen, found, deadline, readAt, revokedIn, begun>>

\* revoke_api_key up to the commit: a row of the caller's project is deactivated.
Revoke(t, k) ==
  /\ pc[t] = "authed"
  /\ status[k] # "none"
  /\ owner[k] = found[t].project
  /\ RevokeRow(k)
  /\ pc'    = [pc EXCEPT ![t] = "invalidate"]
  /\ key'   = [key EXCEPT ![t] = k]
  /\ UNCHANGED <<now, cache, order, seen, found, deadline, readAt, revokedIn, begun>>

\* The commit takes effect but its acknowledgement is lost: the exception skips
\* the invalidation and the client reads a 500.
RevokeUnacknowledged(t, k) ==
  /\ pc[t] = "authed"
  /\ status[k] # "none"
  /\ owner[k] = found[t].project
  /\ RevokeRow(k)
  /\ Idle(t)
  /\ UNCHANGED <<now, cache, order, revokedIn>>

\* The threads of w that read the row of k while it was active and will still
\* insert what they read.
InFlight(w, k) ==
  {t \in Threads : WorkerOf[t] = w /\ key[t] = k /\ pc[t] \in {"stamp", "store"}
                                   /\ found[t] # None}

\* Mutant: the revoke is answered without touching the cache.
InvalidateKeepsEntry(t) ==
  LET w == WorkerOf[t]
      k == key[t]
  IN /\ pc[t] = "invalidate"
     /\ revokedIn' = [revokedIn EXCEPT ![w][k] =
                        IF InFlight(w, k) = {} \/ @ = "clean" THEN "clean" ELSE "raced"]
     /\ Idle(t)
     /\ UNCHANGED <<now, db, cache, order, revokedAt>>

\* invalidate() and the 200 of the revoke.
Invalidate(t) ==
  LET w == WorkerOf[t]
      k == key[t]
  IN /\ pc[t] = "invalidate"
     /\ cache' = [cache EXCEPT ![w][k] = Absent]
     /\ order' = [order EXCEPT ![w] = PopKey(@, k)]
     /\ revokedIn' = [revokedIn EXCEPT ![w][k] =
                        IF InFlight(w, k) = {} \/ @ = "clean" THEN "clean" ELSE "raced"]
     /\ Idle(t)
     /\ UNCHANGED <<now, db, revokedAt>>

-----------------------------------------------------------------------------

\* A worker dies and starts again: its requests and its cache are gone.
Restart(w) ==
  LET mine == {t \in Threads : WorkerOf[t] = w}
      reset(f, v) == [t \in Threads |-> IF t \in mine THEN v ELSE f[t]]
  IN /\ cache' = [cache EXCEPT ![w] = [k \in Tokens |-> Absent]]
     /\ order' = [order EXCEPT ![w] = <<>>]
     /\ pc'       = reset(pc, "idle")
     /\ key'      = reset(key, None)
     /\ seen'     = reset(seen, 0)
     /\ found'    = reset(found, None)
     /\ deadline' = reset(deadline, 0)
     /\ begun'    = reset(begun, "before")
     /\ readAt'   = reset(readAt, 0)
     /\ UNCHANGED <<now, db, revokedAt, revokedIn>>

\* Time passes; a commit does not stay outstanding for longer than MaxLag.
Tick ==
  /\ now < MaxTime
  /\ \A t \in Threads : pc[t] = "stamp" /\ found[t] # None => now - readAt[t] < MaxLag
  /\ now' = now + 1
  /\ UNCHANGED <<db, cache, order, pc, locals, history>>

Authenticate(t) ==
  \/ \E k \in Tokens : Begin(t, k)
  \/ CacheHit(t)
  \/ CacheReject(t)
  \/ CacheExpire(t)
  \/ CacheMiss(t)
  \/ SelectRow(t)
  \/ DatabaseFails(t)
  \/ StampEntry(t)
  \/ Remember(t)

Route(t) ==
  \/ Respond(t)
  \/ \E k \in Keys, life \in Lifetimes : CreateKey(t, k, life)
  \/ \E k \in Keys : Revoke(t, k)
  \/ \E k \in Keys : RevokeUnacknowledged(t, k)
  \/ Invalidate(t)

Next ==
  \/ \E t \in Threads : Authenticate(t) \/ Route(t)
  \/ \E w \in Workers : Restart(w)
  \/ Tick

Spec == Init /\ [][Next]_vars

-----------------------------------------------------------------------------
(* Properties                                                                 *)

RowsOK ==
  /\ status \in [Tokens -> {"none", "active", "revoked"}]
  /\ owner \in [Tokens -> Projects \cup {None}]
  /\ expiry \in [Tokens -> Nat \cup {Never}]
  /\ \A k \in Tokens : status[k] # "none" <=> owner[k] # None
  /\ \A k \in Forged : status[k] = "none"

CachesOK == cache \in [Workers -> [Tokens -> Entry \cup {Absent}]]

ThreadsOK ==
  /\ pc \in [Threads -> {"idle", "lookup", "select", "stamp", "store",
                         "authed", "rejected", "unavailable", "invalidate"}]
  /\ key \in [Threads -> Tokens \cup {None}]
  /\ seen \in [Threads -> Nat]
  /\ found \in [Threads -> Principal \cup {None}]
  /\ deadline \in [Threads -> Nat]
  /\ \A t \in Threads : pc[t] # "idle" => key[t] # None
  /\ \A t \in Threads : pc[t] = "authed" => found[t] # None

HistoryOK ==
  /\ revokedAt \in [Tokens -> Nat]
  /\ readAt \in [Threads -> Nat]
  /\ revokedIn \in [Workers -> [Tokens -> {"before", "raced", "clean"}]]
  /\ begun \in [Threads -> {"before", "raced", "clean"}]

\* Types; a token has an owner exactly when its row exists, forged tokens never
\* get a row, and a request past authentication has a principal.
TypeOK ==
  /\ now \in Nat
  /\ RowsOK
  /\ CachesOK
  /\ ThreadsOK
  /\ HistoryOK

\* The cache of every worker stays within max_entries whatever threads insert
\* into it, and the order of the OrderedDict lists each cached key once.
CacheBounded ==
  \A w \in Workers :
    /\ Len(order[w]) <= MaxEntries
    /\ Listed(order[w]) = {k \in Tokens : cache[w][k] # Absent}
    /\ \A i, j \in DOMAIN order[w] : order[w][i] = order[w][j] => i = j

\* A key that is active and unexpired is never answered 401, although workers
\* cache rejections: neither another worker's commit, nor a stale clock, nor a
\* database error can turn into a remembered rejection of a good key.
NoFalseRejection ==
  \A t \in Threads : pc[t] = "rejected" => ~Usable(key[t])

\* The principal a request runs with names the project and the expiry in the
\* row of the key it presented, whichever cached copy it came from.
PrincipalMatchesRow ==
  \A t \in Threads :
    pc[t] = "authed" => /\ status[key[t]] # "none"
                        /\ found[t] = [project |-> owner[key[t]], expires |-> expiry[key[t]]]

\* A worker accepts a revoked key only in a request that began within the TTL of
\* the revoke plus the time the commit of an authentication may be outstanding: the
\* entry is dated after that commit, so that the TTL alone, as documented, is no bound.
StaleAcceptanceBounded ==
  \A t \in Threads :
    pc[t] = "authed" /\ status[key[t]] = "revoked"
      => seen[t] < revokedAt[key[t]] + TTL + MaxLag

\* README.md:128: "revocation in another worker can take up to that TTL to take
\* effect" (docs/INTERVIEW_GUIDE.md:22 and docs/DECISIONS.md:90 say the same), so that
\* no request that begins a TTL after the revoke or later accepts the key.  Not so
\* when an authentication reads the row before the revoke and commits after it.
RevokedWithinTTL ==
  \A t \in Threads :
    pc[t] = "authed" /\ status[key[t]] = "revoked" => seen[t] < revokedAt[key[t]] + TTL

\* A revoke that no authentication of the same key in the same worker overlaps
\* takes effect at once: no later request of that worker accepts the key.
CleanRevokeIsImmediate ==
  \A t \in Threads : pc[t] = "authed" => begun[t] # "clean"

\* A row is deactivated only on the request of a key of the same project.
RevokeStaysInProject ==
  [][\A k \in Keys :
       status[k] = "active" /\ status'[k] = "revoked"
         => \E t \in Threads : pc[t] = "authed" /\ owner[key[t]] = owner[k]]_vars

\* A cached key does not outlive its own expiry: no lookup accepts a key whose
\* row has expired, however long its entry would still be live.
ExpiredKeyNotServed ==
  [][\A t \in Threads :
       pc[t] = "lookup" /\ pc'[t] = "authed" => ~Expired(expiry[key[t]])]_vars

\* docs/AUTHENTICATION.md: "A revoke removes the cached key immediately in the
\* worker handling the request", so that worker accepts it in no later request.
RevokedKeyRefusedHere ==
  \A t \in Threads : pc[t] = "authed" => begun[t] = "before"
=============================================================================
