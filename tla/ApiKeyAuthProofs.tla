-------------------------- MODULE ApiKeyAuthProofs --------------------------
(* Proofs about ApiKeyAuth for any number of keys, projects, workers and       *)
(* threads, any TTL, any cache bound and any horizon.                          *)
EXTENDS ApiKeyAuth, WellFoundedInduction, TLAPS

\* The clocks a thread or a cache holds are not ahead of the clock, a deadline
\* is at most one TTL away, and a commit is outstanding for at most MaxLag.
ClocksInv ==
  /\ \A w \in Workers, k \in Tokens :
       cache[w][k] # Absent => cache[w][k].deadline <= now + TTL
  /\ \A k \in Tokens : revokedAt[k] <= now
  /\ \A t \in Threads :
       /\ seen[t] <= now
       /\ readAt[t] <= now
       /\ pc[t] = "store" => deadline[t] <= now + TTL
       /\ pc[t] = "stamp" /\ found[t] # None => now - readAt[t] <= MaxLag

\* A token that is cached or being served was issued, or will never be.
KnownInv ==
  /\ \A w \in Workers, k \in Tokens :
       cache[w][k] # Absent => k \in Forged \/ status[k] # "none"
  /\ \A t \in Threads :
       key[t] # None => key[t] \in Forged \/ status[key[t]] # "none"

\* A remembered rejection, or one about to be remembered, is of an unusable key.
RejectionInv ==
  /\ \A w \in Workers, k \in Tokens :
       cache[w][k] # Absent /\ cache[w][k].principal = None => ~Usable(k)
  /\ \A t \in Threads :
       (pc[t] \in {"stamp", "store"} /\ found[t] = None) \/ pc[t] = "rejected"
         => ~Usable(key[t])

RowPrincipal(k) == [project |-> owner[k], expires |-> expiry[k]]

\* Every copy of a principal agrees with the row.
PrincipalInv ==
  /\ \A w \in Workers, k \in Tokens :
       cache[w][k] # Absent /\ cache[w][k].principal # None
         => status[k] # "none" /\ cache[w][k].principal = RowPrincipal(k)
  /\ \A t \in Threads :
       pc[t] \in {"stamp", "store", "authed"} /\ found[t] # None
         => status[key[t]] # "none" /\ found[t] = RowPrincipal(key[t])

\* What a revoked key can still be accepted by ends within TTL + MaxLag.
StaleInv ==
  /\ \A w \in Workers, k \in Tokens :
       cache[w][k] # Absent /\ cache[w][k].principal # None /\ status[k] = "revoked"
         => cache[w][k].deadline <= revokedAt[k] + TTL + MaxLag
  /\ \A t \in Threads :
       pc[t] \in {"stamp", "store"} /\ found[t] # None /\ status[key[t]] = "revoked"
         => /\ readAt[t] <= revokedAt[key[t]]
            /\ seen[t] <= revokedAt[key[t]]
            /\ pc[t] = "store" => deadline[t] <= revokedAt[key[t]] + TTL + MaxLag
  /\ StaleAcceptanceBounded

\* After a clean revoke nothing in the worker can bring the key back.
CleanInv ==
  /\ \A t \in Threads : pc[t] = "invalidate" => status[key[t]] = "revoked"
  /\ \A w \in Workers, k \in Tokens : revokedIn[w][k] # "before" => status[k] = "revoked"
  /\ \A w \in Workers, k \in Tokens :
       revokedIn[w][k] = "clean" /\ cache[w][k] # Absent => cache[w][k].principal = None
  /\ \A t \in Threads :
       pc[t] \in {"stamp", "store"} /\ found[t] # None
         => revokedIn[WorkerOf[t]][key[t]] # "clean"
  /\ \A t \in Threads :
       begun[t] = "clean" => pc[t] \notin {"idle", "authed"} /\ revokedIn[WorkerOf[t]][key[t]] = "clean"

-----------------------------------------------------------------------------

LEMMA Numbers ==
  /\ NegativeTTL \in Nat
  /\ NegativeTTL <= TTL
  /\ TTL \in Nat
BY NumberAssumption DEF NegativeTTL, Min2

\* Entries and principals are told from the markers by their types.
LEMMA Records ==
  /\ None \notin Principal
  /\ Absent \notin Entry
  /\ \A p \in Principal : p.project \in Projects /\ p.expires \in Nat \cup {Never}
  /\ \A e \in Entry : e.principal \in Principal \cup {None} /\ e.deadline \in Nat
  /\ \A q \in Projects, x \in Nat \cup {Never} : [project |-> q, expires |-> x] \in Principal
  /\ \A p \in Principal \cup {None}, d \in Nat : [principal |-> p, deadline |-> d] \in Entry
  /\ None \notin Projects
  /\ None \notin Tokens
BY MarkerAssumption DEF Principal, Entry

\* Init satisfies the type invariant.
LEMMA InitTypeOK == Init => TypeOK
<1> SUFFICES ASSUME Init PROVE TypeOK
  OBVIOUS
<1>1. RowsOK
  <2>1. owner \in [Tokens -> Projects \cup {None}] /\ \A k \in Forged : owner[k] = None
    BY KeyAssumption DEF Init, Tokens
  <2>2. status = [k \in Tokens |-> IF owner[k] = None THEN "none" ELSE "active"]
    BY DEF Init
  <2>3. expiry \in [Tokens -> Nat \cup {Never}]
    BY NumberAssumption DEF Init
  <2> QED
    BY <2>1, <2>2, <2>3 DEF RowsOK, Tokens
<1>2. CachesOK
  BY DEF Init, CachesOK
<1>3. ThreadsOK /\ HistoryOK
  BY DEF Init, ThreadsOK, HistoryOK
<1>4. now \in Nat
  BY DEF Init
<1> QED
  BY <1>1, <1>2, <1>3, <1>4 DEF TypeOK

\* A thread past its first step holds a token, and what its lookup finds live
\* is an entry.
LEMMA ServedToken ==
  ASSUME TypeOK, NEW t \in Threads, pc[t] # "idle"
  PROVE  /\ key[t] \in Tokens
         /\ WorkerOf[t] \in Workers
         /\ cache[WorkerOf[t]][key[t]] \in Entry \cup {Absent}
<1>1. key[t] \in Tokens /\ WorkerOf[t] \in Workers
  BY KeyAssumption DEF TypeOK, ThreadsOK
<1> QED
  BY <1>1 DEF TypeOK, CachesOK

LEMMA LiveEntry ==
  ASSUME TypeOK, NEW t \in Threads, pc[t] = "lookup", NEW c,
         Live(cache[WorkerOf[t]][key[t]], c)
  PROVE  /\ cache[WorkerOf[t]][key[t]] \in Entry
         /\ cache[WorkerOf[t]][key[t]].principal \in Principal \cup {None}
<1>1. cache[WorkerOf[t]][key[t]] \in Entry \cup {Absent}
  BY ServedToken
<1>2. cache[WorkerOf[t]][key[t]] # Absent
  BY DEF Live
<1> QED
  BY <1>1, <1>2, Records

\* Every step preserves the type invariant.
LEMMA NextTypeOK == TypeOK /\ [Next]_vars => TypeOK'
<1> SUFFICES ASSUME TypeOK, [Next]_vars PROVE TypeOK'
  OBVIOUS
<1> USE DEF TypeOK
<1>1. ASSUME NEW t \in Threads, NEW k \in Tokens, Begin(t, k)
      PROVE  TypeOK'
  <2>1. ThreadsOK'
    BY <1>1, Records DEF Begin, ThreadsOK
  <2>2. HistoryOK'
    BY <1>1, KeyAssumption DEF Begin, HistoryOK
  <2> QED
    BY <1>1, <2>1, <2>2 DEF Begin, db, RowsOK, CachesOK
<1>2. ASSUME NEW t \in Threads, CacheHit(t)
      PROVE  TypeOK'
  <2>1. cache[WorkerOf[t]][key[t]].principal \in Principal
    BY <1>2, LiveEntry DEF CacheHit
  <2>2. ThreadsOK'
    BY <1>2, <2>1, Records DEF CacheHit, ThreadsOK
  <2> QED
    BY <1>2, <2>2 DEF CacheHit, db, history, RowsOK, CachesOK, HistoryOK
<1>3. ASSUME NEW t \in Threads, CacheReject(t)
      PROVE  TypeOK'
  <2>1. ThreadsOK'
    BY <1>3 DEF CacheReject, locals, ThreadsOK
  <2> QED
    BY <1>3, <2>1 DEF CacheReject, db, history, RowsOK, CachesOK, HistoryOK
<1>4. ASSUME NEW t \in Threads, CacheExpire(t)
      PROVE  TypeOK'
  <2>1. [principal |-> None, deadline |-> seen[t] + NegativeTTL] \in Entry
    BY Numbers, Records DEF ThreadsOK
  <2>2. CachesOK'
    BY <1>4, <2>1 DEF CacheExpire, CachesOK
  <2>3. ThreadsOK'
    BY <1>4 DEF CacheExpire, locals, ThreadsOK
  <2> QED
    BY <1>4, <2>2, <2>3 DEF CacheExpire, db, history, RowsOK, HistoryOK
<1>5. ASSUME NEW t \in Threads, CacheMiss(t)
      PROVE  TypeOK'
  <2>1. CachesOK'
    BY <1>5 DEF CacheMiss, CachesOK
  <2>2. ThreadsOK'
    BY <1>5 DEF CacheMiss, locals, ThreadsOK
  <2> QED
    BY <1>5, <2>1, <2>2 DEF CacheMiss, db, history, RowsOK, HistoryOK
<1>6. ASSUME NEW t \in Threads, SelectRow(t)
      PROVE  TypeOK'
  <2>1. key[t] \in Tokens
    BY <1>6, ServedToken DEF SelectRow
  <2>2. Usable(key[t]) => owner[key[t]] \in Projects /\ expiry[key[t]] \in Nat \cup {Never}
    BY <2>1 DEF Usable, RowsOK
  <2>3. (IF Usable(key[t])
         THEN [project |-> owner[key[t]], expires |-> expiry[key[t]]]
         ELSE None) \in Principal \cup {None}
    BY <2>2, Records
  <2>4. ThreadsOK'
    BY <1>6, <2>3 DEF SelectRow, ThreadsOK
  <2>5. HistoryOK'
    BY <1>6 DEF SelectRow, HistoryOK
  <2> QED
    BY <1>6, <2>4, <2>5 DEF SelectRow, db, RowsOK, CachesOK
<1>7. ASSUME NEW t \in Threads, DatabaseFails(t)
      PROVE  TypeOK'
  <2>1. ThreadsOK'
    BY <1>7 DEF DatabaseFails, ThreadsOK
  <2> QED
    BY <1>7, <2>1 DEF DatabaseFails, db, history, RowsOK, CachesOK, HistoryOK
<1>8. ASSUME NEW t \in Threads, StampEntry(t)
      PROVE  TypeOK'
  <2>1. now + (IF found[t] # None THEN TTL ELSE NegativeTTL) \in Nat
    BY Numbers
  <2>2. ThreadsOK'
    BY <1>8, <2>1 DEF StampEntry, ThreadsOK
  <2> QED
    BY <1>8, <2>2 DEF StampEntry, db, history, RowsOK, CachesOK, HistoryOK
<1>9. ASSUME NEW t \in Threads, Remember(t)
      PROVE  TypeOK'
  <2> DEFINE w == WorkerOf[t]
             filled == [cache[w] EXCEPT ![key[t]] =
                          [principal |-> found[t], deadline |-> deadline[t]]]
  <2>1. filled \in [Tokens -> Entry \cup {Absent}]
    BY <1>9, Records, KeyAssumption DEF ThreadsOK, CachesOK
  <2> HIDE DEF filled
  <2>2. PICK K : cache' = [cache EXCEPT ![w] = [k \in Tokens |-> IF k \in K THEN filled[k] ELSE Absent]]
    BY <1>9 DEF Remember, filled
  <2>3. CachesOK'
    BY <2>1, <2>2 DEF CachesOK
  <2>4. ThreadsOK'
    BY <1>9 DEF Remember, locals, ThreadsOK
  <2> QED
    BY <1>9, <2>3, <2>4 DEF Remember, db, history, RowsOK, HistoryOK
<1>10. ASSUME NEW t \in Threads, Respond(t)
      PROVE  TypeOK'
  <2>1. ThreadsOK' /\ HistoryOK'
    BY <1>10 DEF Respond, Idle, ThreadsOK, HistoryOK
  <2> QED
    BY <1>10, <2>1 DEF Respond, db, RowsOK, CachesOK
<1>11. ASSUME NEW t \in Threads, NEW k \in Keys, NEW life \in Lifetimes, CreateKey(t, k, life)
      PROVE  TypeOK'
  <2>1. found[t].project \in Projects
    BY <1>11, Records DEF CreateKey, ThreadsOK
  <2>2. now + life \in Nat \/ life = Never
    BY NumberAssumption
  <2>3. RowsOK'
    BY <1>11, <2>1, <2>2, Records, KeyAssumption DEF CreateKey, RowsOK, Tokens
  <2>4. ThreadsOK' /\ HistoryOK'
    BY <1>11 DEF CreateKey, Idle, ThreadsOK, HistoryOK
  <2> QED
    BY <1>11, <2>3, <2>4 DEF CreateKey, CachesOK
<1>12. ASSUME NEW t \in Threads, NEW k \in Keys, Revoke(t, k)
      PROVE  TypeOK'
  <2>1. RowsOK'
    BY <1>12, KeyAssumption DEF Revoke, RevokeRow, RowsOK, Tokens
  <2>2. ThreadsOK'
    BY <1>12, Records DEF Revoke, ThreadsOK, Tokens
  <2>3. HistoryOK'
    BY <1>12 DEF Revoke, RevokeRow, HistoryOK
  <2> QED
    BY <1>12, <2>1, <2>2, <2>3 DEF Revoke, CachesOK
<1>13. ASSUME NEW t \in Threads, NEW k \in Keys, RevokeUnacknowledged(t, k)
      PROVE  TypeOK'
  <2>1. RowsOK'
    BY <1>13, KeyAssumption DEF RevokeUnacknowledged, RevokeRow, RowsOK, Tokens
  <2>2. ThreadsOK'
    BY <1>13 DEF RevokeUnacknowledged, Idle, ThreadsOK
  <2>3. HistoryOK'
    BY <1>13 DEF RevokeUnacknowledged, RevokeRow, Idle, HistoryOK
  <2> QED
    BY <1>13, <2>1, <2>2, <2>3 DEF RevokeUnacknowledged, CachesOK
<1>14. ASSUME NEW t \in Threads, Invalidate(t)
      PROVE  TypeOK'
  <2>1. CachesOK'
    BY <1>14 DEF Invalidate, CachesOK
  <2>2. ThreadsOK' /\ HistoryOK'
    BY <1>14 DEF Invalidate, Idle, ThreadsOK, HistoryOK
  <2> QED
    BY <1>14, <2>1, <2>2 DEF Invalidate, db, RowsOK
<1>15. ASSUME NEW w \in Workers, Restart(w)
       PROVE  TypeOK'
  <2>1. CachesOK'
    BY <1>15 DEF Restart, CachesOK
  <2>2. ThreadsOK' /\ HistoryOK'
    BY <1>15 DEF Restart, ThreadsOK, HistoryOK
  <2> QED
    BY <1>15, <2>1, <2>2 DEF Restart, db, RowsOK
<1>16. CASE Tick
  BY <1>16 DEF Tick, db, locals, history, RowsOK, CachesOK, ThreadsOK, HistoryOK
<1>17. CASE UNCHANGED vars
  BY <1>17 DEF vars, db, locals, history, RowsOK, CachesOK, ThreadsOK, HistoryOK
<1> QED
  BY <1>1, <1>2, <1>3, <1>4, <1>5, <1>6, <1>7, <1>8, <1>9, <1>10, <1>11, <1>12, <1>13,
     <1>14, <1>15, <1>16, <1>17 DEF Next, Authenticate, Route

\* Every reachable state is well typed.
THEOREM TypeCorrect == Spec => []TypeOK
<1> QED
  BY InitTypeOK, NextTypeOK, PTL DEF Spec

-----------------------------------------------------------------------------
(* What one step does to a row, to a cached entry and to a thread.            *)

RowUnchanged(k) ==
  /\ status'[k] = status[k]
  /\ owner'[k] = owner[k]
  /\ expiry'[k] = expiry[k]
  /\ revokedAt'[k] = revokedAt[k]

RowCreated(k) ==
  /\ k \notin Forged
  /\ status[k] = "none"
  /\ status'[k] = "active"
  /\ revokedAt'[k] = revokedAt[k]

RowRevoked(k) ==
  /\ status[k] # "none"
  /\ status'[k] = "revoked"
  /\ owner'[k] = owner[k]
  /\ expiry'[k] = expiry[k]
  /\ revokedAt'[k] = IF status[k] = "active" THEN now ELSE revokedAt[k]
  /\ now' = now

\* A row is left alone, created or revoked, and time moves only when no row does.
LEMMA RowStep ==
  ASSUME TypeOK, [Next]_vars, NEW k \in Tokens
  PROVE  /\ now' \in Nat /\ now' >= now
         /\ RowUnchanged(k) \/ RowCreated(k) \/ RowRevoked(k)
<1> USE DEF RowUnchanged, RowCreated, RowRevoked, TypeOK, RowsOK, HistoryOK
<1>1. ASSUME UNCHANGED <<now, db, revokedAt>> PROVE RowUnchanged(k) /\ now' = now
  BY <1>1 DEF db
<1>2. ASSUME NEW t \in Threads, NEW j \in Keys, NEW life \in Lifetimes, CreateKey(t, j, life)
      PROVE  now' = now /\ (RowUnchanged(k) \/ RowCreated(k))
  BY <1>2, KeyAssumption DEF CreateKey
<1>3. ASSUME NEW j \in Keys, status[j] # "none", RevokeRow(j)
      PROVE  now' = now => RowUnchanged(k) \/ RowRevoked(k)
  BY <1>3 DEF RevokeRow
<1>4. ASSUME NEW t \in Threads, NEW j \in Keys, Revoke(t, j) \/ RevokeUnacknowledged(t, j)
      PROVE  now' = now /\ (RowUnchanged(k) \/ RowRevoked(k))
  BY <1>3, <1>4 DEF Revoke, RevokeUnacknowledged
<1>5. ASSUME NEW t \in Threads, Authenticate(t) PROVE UNCHANGED <<now, db, revokedAt>>
  BY <1>5 DEF Authenticate, Begin, CacheHit, CacheReject, CacheExpire, CacheMiss, SelectRow,
              DatabaseFails, StampEntry, Remember, history
<1>6. ASSUME NEW t \in Threads, Respond(t) \/ Invalidate(t)
      PROVE  UNCHANGED <<now, db, revokedAt>>
  BY <1>6 DEF Respond, Invalidate
<1>7. ASSUME NEW w \in Workers, Restart(w) PROVE UNCHANGED <<now, db, revokedAt>>
  BY <1>7 DEF Restart
<1>8. CASE Tick
  BY <1>8 DEF Tick, db, history
<1>9. CASE UNCHANGED vars
  BY <1>9, <1>1 DEF vars, db, history
<1> HIDE DEF RowUnchanged, RowCreated, RowRevoked, RowsOK, HistoryOK
<1> QED
  BY <1>1, <1>2, <1>4, <1>5, <1>6, <1>7, <1>8, <1>9 DEF Next, Route

\* A lookup replaced the live entry of k by a rejection because the key expired.
EntryExpired(w, k) ==
  \E t \in Threads :
    /\ WorkerOf[t] = w /\ key[t] = k
    /\ pc[t] = "lookup"
    /\ Live(cache[w][k], seen[t])
    /\ cache[w][k].principal # None
    /\ Expired(cache[w][k].principal.expires)
    /\ cache'[w][k] = [principal |-> None, deadline |-> seen[t] + NegativeTTL]
    /\ UNCHANGED <<now, db, history>>

\* A thread inserted what it had read.
EntryStored(w, k) ==
  \E t \in Threads :
    /\ WorkerOf[t] = w /\ key[t] = k
    /\ pc[t] = "store"
    /\ cache'[w][k] = [principal |-> found[t], deadline |-> deadline[t]]
    /\ UNCHANGED <<now, db, history>>

\* A cached entry is left alone, dropped, replaced by a rejection, or inserted by
\* a thread of the worker.
LEMMA EntryStep ==
  ASSUME TypeOK, [Next]_vars, NEW w \in Workers, NEW k \in Tokens
  PROVE  \/ cache'[w][k] = cache[w][k]
         \/ cache'[w][k] = Absent
         \/ EntryExpired(w, k)
         \/ EntryStored(w, k)
<1> USE DEF TypeOK, CachesOK
<1>1. ASSUME NEW t \in Threads, CacheExpire(t)
      PROVE  cache'[w][k] = cache[w][k] \/ EntryExpired(w, k)
  <2>1. pc[t] = "lookup" /\ key[t] \in Tokens /\ WorkerOf[t] \in Workers
    BY <1>1, ServedToken DEF CacheExpire
  <2>2. CASE WorkerOf[t] = w /\ key[t] = k
    <3>1. cache'[w][k] = [principal |-> None, deadline |-> seen[t] + NegativeTTL]
      BY <1>1, <2>2 DEF CacheExpire
    <3> QED
      BY <1>1, <2>2, <3>1 DEF CacheExpire, EntryExpired
  <2>3. CASE ~(WorkerOf[t] = w /\ key[t] = k)
    BY <1>1, <2>1, <2>3 DEF CacheExpire
  <2> QED
    BY <2>2, <2>3
<1>2. ASSUME NEW t \in Threads, Remember(t)
      PROVE  cache'[w][k] = cache[w][k] \/ cache'[w][k] = Absent \/ EntryStored(w, k)
  <2> DEFINE v == WorkerOf[t]
             filled == [cache[v] EXCEPT ![key[t]] =
                          [principal |-> found[t], deadline |-> deadline[t]]]
  <2>1. pc[t] = "store" /\ key[t] \in Tokens /\ v \in Workers
    BY <1>2, ServedToken DEF Remember
  <2> HIDE DEF filled
  <2>2. PICK K : cache' = [cache EXCEPT ![v] = [j \in Tokens |-> IF j \in K THEN filled[j] ELSE Absent]]
    BY <1>2 DEF Remember, filled
  <2>3. CASE v # w
    BY <2>1, <2>2, <2>3
  <2>4. CASE v = w
    <3>1. cache'[w][k] = Absent \/ cache'[w][k] = filled[k]
      BY <2>1, <2>2, <2>4
    <3>2. CASE key[t] = k
      <4>1. filled[k] = [principal |-> found[t], deadline |-> deadline[t]]
        BY <2>1, <3>2 DEF filled
      <4> QED
        BY <1>2, <2>1, <2>4, <3>1, <3>2, <4>1 DEF Remember, EntryStored
    <3>3. CASE key[t] # k
      BY <2>1, <2>4, <3>1, <3>3 DEF filled
    <3> QED
      BY <3>2, <3>3
  <2> QED
    BY <2>3, <2>4
<1>3. ASSUME NEW t \in Threads, CacheMiss(t) \/ Invalidate(t)
      PROVE  cache'[w][k] = cache[w][k] \/ cache'[w][k] = Absent
  BY <1>3 DEF CacheMiss, Invalidate
<1>4. ASSUME NEW v \in Workers, Restart(v)
      PROVE  cache'[w][k] = cache[w][k] \/ cache'[w][k] = Absent
  BY <1>4 DEF Restart
<1>5. ASSUME NEW t \in Threads,
             \/ \E j \in Tokens : Begin(t, j)
             \/ CacheHit(t) \/ CacheReject(t) \/ SelectRow(t) \/ DatabaseFails(t)
             \/ StampEntry(t) \/ Respond(t)
             \/ \E j \in Keys, life \in Lifetimes : CreateKey(t, j, life)
             \/ \E j \in Keys : Revoke(t, j) \/ RevokeUnacknowledged(t, j)
      PROVE  cache' = cache
  BY <1>5 DEF Begin, CacheHit, CacheReject, SelectRow, DatabaseFails, StampEntry, Respond,
              CreateKey, Revoke, RevokeUnacknowledged
<1>6. Tick \/ UNCHANGED vars => cache' = cache
  BY DEF Tick, vars
<1> HIDE DEF TypeOK, CachesOK
<1> QED
  BY <1>1, <1>2, <1>3, <1>4, <1>5, <1>6 DEF Next, Authenticate, Route

ThreadUnchanged(t) ==
  /\ pc'[t] = pc[t]
  /\ key'[t] = key[t]
  /\ seen'[t] = seen[t]
  /\ found'[t] = found[t]
  /\ deadline'[t] = deadline[t]
  /\ readAt'[t] = readAt[t]
  /\ begun'[t] = begun[t]

ThreadIdle(t) ==
  /\ pc'[t] = "idle"
  /\ key'[t] = None
  /\ seen'[t] = 0
  /\ readAt'[t] = 0
  /\ begun'[t] = "before"

ThreadMoves(t) ==
  \/ \E k \in Tokens : Begin(t, k)
  \/ CacheHit(t) \/ CacheReject(t) \/ CacheExpire(t) \/ CacheMiss(t)
  \/ SelectRow(t) \/ DatabaseFails(t) \/ StampEntry(t) \/ Remember(t)
  \/ \E k \in Keys : Revoke(t, k)

\* A thread stands still, ends its request, or takes a step of its own.
LEMMA ThreadStep ==
  ASSUME TypeOK, [Next]_vars, NEW t \in Threads
  PROVE  ThreadUnchanged(t) \/ ThreadIdle(t) \/ ThreadMoves(t)
<1> USE DEF TypeOK, ThreadsOK, HistoryOK, ThreadUnchanged, ThreadIdle
<1>1. ASSUME NEW u \in Threads, Idle(u) PROVE ThreadUnchanged(t) \/ ThreadIdle(t)
  BY <1>1 DEF Idle
<1>2. ASSUME NEW u \in Threads, Respond(u) \/ Invalidate(u) PROVE Idle(u)
  BY <1>2 DEF Respond, Invalidate
<1>3. ASSUME NEW u \in Threads, NEW k \in Keys, NEW life \in Lifetimes,
             CreateKey(u, k, life)
      PROVE  Idle(u)
  BY <1>3 DEF CreateKey
<1>4. ASSUME NEW u \in Threads, u # t, NEW k \in Tokens, Begin(u, k) PROVE ThreadUnchanged(t)
  BY <1>4 DEF Begin
<1>5. ASSUME NEW u \in Threads, u # t,
             CacheHit(u) \/ CacheReject(u) \/ CacheExpire(u) \/ CacheMiss(u)
      PROVE  ThreadUnchanged(t)
  BY <1>5 DEF CacheHit, CacheReject, CacheExpire, CacheMiss, locals, history
<1>6. ASSUME NEW u \in Threads, u # t,
             SelectRow(u) \/ DatabaseFails(u) \/ StampEntry(u) \/ Remember(u)
      PROVE  ThreadUnchanged(t)
  BY <1>6 DEF SelectRow, DatabaseFails, StampEntry, Remember, locals, history
<1>7. ASSUME NEW u \in Threads, u # t, NEW k \in Keys, Revoke(u, k) PROVE ThreadUnchanged(t)
  BY <1>7 DEF Revoke
<1>8. ASSUME NEW w \in Workers, Restart(w) PROVE ThreadUnchanged(t) \/ ThreadIdle(t)
  BY <1>8 DEF Restart
<1>9. Tick \/ UNCHANGED vars => ThreadUnchanged(t)
  BY DEF Tick, vars, locals, history
<1>10. ASSUME NEW u \in Threads, NEW k \in Keys, RevokeUnacknowledged(u, k) PROVE Idle(u)
  BY <1>10 DEF RevokeUnacknowledged
<1> HIDE DEF TypeOK, ThreadsOK, HistoryOK, ThreadUnchanged, ThreadIdle
<1>11. ASSUME NEW u \in Threads, Authenticate(u)
       PROVE  ThreadUnchanged(t) \/ ThreadMoves(t)
  <2>1. CASE u = t
    BY <1>11, <2>1 DEF Authenticate, ThreadMoves
  <2>2. CASE u # t
    BY <1>11, <2>2, <1>4, <1>5, <1>6 DEF Authenticate
  <2> QED
    BY <2>1, <2>2
<1>12. ASSUME NEW u \in Threads, Route(u)
       PROVE  ThreadUnchanged(t) \/ ThreadIdle(t) \/ ThreadMoves(t)
  <2>1. ASSUME NEW k \in Keys, Revoke(u, k) PROVE ThreadUnchanged(t) \/ ThreadMoves(t)
    BY <2>1, <1>7 DEF ThreadMoves
  <2> QED
    BY <1>12, <2>1, <1>1, <1>2, <1>3, <1>10 DEF Route
<1> QED
  BY <1>8, <1>9, <1>11, <1>12 DEF Next

\* The clock moves by one tick, and only when no commit is MaxLag old.
LEMMA ClockStep ==
  ASSUME TypeOK, [Next]_vars
  PROVE  \/ now' = now
         \/ /\ now' = now + 1
            /\ \A t \in Threads : pc[t] = "stamp" /\ found[t] # None => now - readAt[t] < MaxLag
<1>1. Tick => now' = now + 1
              /\ \A t \in Threads : pc[t] = "stamp" /\ found[t] # None => now - readAt[t] < MaxLag
  BY DEF Tick
<1>2. ASSUME NEW t \in Threads, Authenticate(t) PROVE now' = now
  BY <1>2 DEF Authenticate, Begin, CacheHit, CacheReject, CacheExpire, CacheMiss, SelectRow,
              DatabaseFails, StampEntry, Remember
<1>3. ASSUME NEW t \in Threads, Route(t) PROVE now' = now
  BY <1>3 DEF Route, Respond, CreateKey, Revoke, RevokeUnacknowledged, Invalidate
<1>4. ASSUME NEW w \in Workers, Restart(w) PROVE now' = now
  BY <1>4 DEF Restart
<1> QED
  BY <1>1, <1>2, <1>3, <1>4 DEF Next, vars

\* Once a token is issued or forged, it never becomes usable again.
LEMMA UnusableForever ==
  ASSUME TypeOK, [Next]_vars, NEW k \in Tokens, k \in Forged \/ status[k] # "none", ~Usable(k)
  PROVE  ~(status'[k] = "active" /\ ~(expiry'[k] # Never /\ expiry'[k] <= now'))
<1>1. expiry[k] \in Nat \cup {Never} /\ now \in Nat
  BY DEF TypeOK, RowsOK
<1> QED
  BY <1>1, RowStep, NumberAssumption DEF Usable, Expired, RowUnchanged, RowCreated, RowRevoked

-----------------------------------------------------------------------------
(* The parts of the inductive invariant, one after the other.                 *)

LEMMA NextKnown ==
  ASSUME TypeOK, KnownInv, [Next]_vars
  PROVE  KnownInv'
<1>1. ASSUME NEW k \in Tokens, k \in Forged \/ status[k] # "none"
      PROVE  k \in Forged \/ status'[k] # "none"
  BY <1>1, RowStep DEF RowUnchanged, RowCreated, RowRevoked
<1>2. ASSUME NEW w \in Workers, NEW k \in Tokens, cache'[w][k] # Absent
      PROVE  k \in Forged \/ status'[k] # "none"
  <2>1. EntryExpired(w, k) \/ EntryStored(w, k) => \E t \in Threads : key[t] = k
    BY DEF EntryExpired, EntryStored
  <2>2. k # None
    BY Records
  <2> QED
    BY <1>1, <1>2, <2>1, <2>2, EntryStep DEF KnownInv
<1>3. ASSUME NEW t \in Threads, key'[t] # None
      PROVE  key'[t] \in Forged \/ status'[key'[t]] # "none"
  <2>1. key[t] \in Tokens \cup {None}
    BY DEF TypeOK, ThreadsOK
  <2>2. CASE key'[t] = key[t]
    BY <1>1, <1>3, <2>1, <2>2 DEF KnownInv
  <2>3. ASSUME NEW k \in Tokens, Begin(t, k) PROVE key'[t] \in Forged \/ status'[key'[t]] # "none"
    BY <2>3 DEF Begin, db, TypeOK, ThreadsOK
  <2>4. ASSUME NEW k \in Keys, Revoke(t, k) PROVE key'[t] \in Forged \/ status'[key'[t]] # "none"
    BY <2>4 DEF Revoke, RevokeRow, TypeOK, ThreadsOK, RowsOK, Tokens
  <2>5. ASSUME \/ CacheHit(t) \/ CacheReject(t) \/ CacheExpire(t) \/ CacheMiss(t)
               \/ SelectRow(t) \/ DatabaseFails(t) \/ StampEntry(t) \/ Remember(t)
        PROVE  key'[t] = key[t]
    BY <2>5 DEF CacheHit, CacheReject, CacheExpire, CacheMiss, SelectRow, DatabaseFails,
                StampEntry, Remember, locals
  <2> QED
    BY <1>3, <2>2, <2>3, <2>4, <2>5, ThreadStep DEF ThreadUnchanged, ThreadIdle, ThreadMoves
<1> QED
  BY <1>2, <1>3 DEF KnownInv

LEMMA NextClocks ==
  ASSUME TypeOK, ClocksInv, [Next]_vars
  PROVE  ClocksInv'
<1> USE Numbers
<1>1. now \in Nat /\ now' \in Nat /\ now' >= now
  BY ClockStep DEF TypeOK
<1>2. ASSUME NEW w \in Workers, NEW k \in Tokens, cache'[w][k] # Absent
      PROVE  cache'[w][k].deadline <= now' + TTL
  <2>1. CASE cache'[w][k] = cache[w][k]
    <3>1. cache[w][k].deadline \in Nat
      BY <1>2, <2>1, Records DEF TypeOK, CachesOK
    <3> QED
      BY <1>1, <1>2, <2>1, <3>1 DEF ClocksInv
  <2>2. CASE EntryExpired(w, k)
    BY <1>1, <2>2 DEF EntryExpired, ClocksInv, TypeOK, ThreadsOK
  <2>3. CASE EntryStored(w, k)
    BY <1>1, <2>3 DEF EntryStored, ClocksInv, TypeOK, ThreadsOK
  <2> QED
    BY <1>2, <2>1, <2>2, <2>3, EntryStep
<1>3. ASSUME NEW k \in Tokens PROVE revokedAt'[k] <= now'
  BY <1>1, RowStep DEF RowUnchanged, RowCreated, RowRevoked, ClocksInv, TypeOK, HistoryOK
<1>4. ASSUME NEW t \in Threads
      PROVE  /\ seen'[t] <= now'
             /\ readAt'[t] <= now'
             /\ pc'[t] = "store" => deadline'[t] <= now' + TTL
             /\ pc'[t] = "stamp" /\ found'[t] # None => now' - readAt'[t] <= MaxLag
  <2>1. /\ seen[t] \in Nat /\ readAt[t] \in Nat /\ deadline[t] \in Nat
        /\ seen[t] <= now /\ readAt[t] <= now
        /\ pc[t] = "store" => deadline[t] <= now + TTL
        /\ pc[t] = "stamp" /\ found[t] # None => now - readAt[t] <= MaxLag
        /\ MaxLag \in Nat
    BY NumberAssumption DEF TypeOK, ThreadsOK, HistoryOK, ClocksInv
  <2>2. CASE ThreadUnchanged(t)
    BY <1>1, <2>1, <2>2, ClockStep DEF ThreadUnchanged
  <2>3. CASE ThreadIdle(t)
    BY <1>1, <2>3 DEF ThreadIdle
  <2>4. ASSUME NEW k \in Tokens, Begin(t, k)
        PROVE  seen'[t] = now' /\ readAt'[t] = readAt[t] /\ pc'[t] = "lookup"
    BY <2>4 DEF Begin, TypeOK, ThreadsOK
  <2>5. ASSUME \/ CacheHit(t) \/ CacheReject(t) \/ CacheExpire(t) \/ CacheMiss(t)
               \/ DatabaseFails(t) \/ Remember(t)
        PROVE  /\ seen'[t] = seen[t] /\ readAt'[t] = readAt[t]
               /\ pc'[t] \in {"authed", "rejected", "select", "unavailable"}
    BY <2>5 DEF CacheHit, CacheReject, CacheExpire, CacheMiss, DatabaseFails, Remember,
                locals, history, TypeOK, ThreadsOK
  <2>6. ASSUME SelectRow(t)
        PROVE  seen'[t] = seen[t] /\ readAt'[t] = now' /\ pc'[t] = "stamp"
    BY <2>6 DEF SelectRow, TypeOK, ThreadsOK, HistoryOK
  <2>7. ASSUME StampEntry(t)
        PROVE  /\ seen'[t] = seen[t] /\ readAt'[t] = readAt[t] /\ pc'[t] = "store"
               /\ deadline'[t] <= now' + TTL
    <3>1. deadline'[t] = now + IF found[t] # None THEN TTL ELSE NegativeTTL
      BY <2>7 DEF StampEntry, TypeOK, ThreadsOK
    <3>2. seen'[t] = seen[t] /\ readAt'[t] = readAt[t] /\ pc'[t] = "store" /\ now' = now
      BY <2>7 DEF StampEntry, history, TypeOK, ThreadsOK
    <3> QED
      BY <1>1, <3>1, <3>2
  <2>8. ASSUME NEW k \in Keys, Revoke(t, k)
        PROVE  seen'[t] = seen[t] /\ readAt'[t] = readAt[t] /\ pc'[t] = "invalidate"
    BY <2>8 DEF Revoke, TypeOK, ThreadsOK
  <2> QED
    BY <1>1, <2>1, <2>2, <2>3, <2>4, <2>5, <2>6, <2>7, <2>8, ThreadStep DEF ThreadMoves
<1> QED
  BY <1>2, <1>3, <1>4 DEF ClocksInv

LEMMA NextPrincipal ==
  ASSUME TypeOK, PrincipalInv, [Next]_vars
  PROVE  PrincipalInv'
<1>1. ASSUME NEW k \in Tokens, status[k] # "none"
      PROVE  /\ status'[k] # "none"
             /\ RowPrincipal(k) = [project |-> owner'[k], expires |-> expiry'[k]]
  BY <1>1, RowStep DEF RowUnchanged, RowCreated, RowRevoked, RowPrincipal
<1>2. ASSUME NEW w \in Workers, NEW k \in Tokens,
             cache'[w][k] # Absent, cache'[w][k].principal # None
      PROVE  /\ status'[k] # "none"
             /\ cache'[w][k].principal = [project |-> owner'[k], expires |-> expiry'[k]]
  <2>1. CASE cache'[w][k] = cache[w][k]
    BY <1>1, <1>2, <2>1 DEF PrincipalInv
  <2>2. CASE EntryExpired(w, k)
    BY <1>2, <2>2 DEF EntryExpired
  <2>3. CASE EntryStored(w, k)
    BY <1>1, <1>2, <2>3 DEF EntryStored, PrincipalInv
  <2> QED
    BY <1>2, <2>1, <2>2, <2>3, EntryStep
<1>3. ASSUME NEW t \in Threads, pc'[t] \in {"stamp", "store", "authed"}, found'[t] # None
      PROVE  /\ status'[key'[t]] # "none"
             /\ found'[t] = [project |-> owner'[key'[t]], expires |-> expiry'[key'[t]]]
  <2>1. CASE ThreadUnchanged(t)
    <3>1. key[t] \in Tokens
      BY <1>3, <2>1, ServedToken DEF ThreadUnchanged
    <3> QED
      BY <1>1, <1>3, <2>1, <3>1 DEF ThreadUnchanged, PrincipalInv
  <2>2. CASE ThreadIdle(t)
    BY <1>3, <2>2 DEF ThreadIdle
  <2>3. ASSUME \/ \E k \in Tokens : Begin(t, k)
               \/ CacheReject(t) \/ CacheExpire(t) \/ CacheMiss(t) \/ DatabaseFails(t)
               \/ \E k \in Keys : Revoke(t, k)
        PROVE  FALSE
    BY <1>3, <2>3 DEF Begin, CacheReject, CacheExpire, CacheMiss, DatabaseFails, Revoke,
                      TypeOK, ThreadsOK
  <2>4. CASE CacheHit(t)
    <3> DEFINE w == WorkerOf[t]
    <3>1. /\ pc[t] = "lookup" /\ cache[w][key[t]] # Absent /\ cache[w][key[t]].principal # None
          /\ found'[t] = cache[w][key[t]].principal /\ key' = key /\ UNCHANGED db
      BY <2>4 DEF CacheHit, Live, locals, TypeOK, ThreadsOK
    <3>2. w \in Workers /\ key[t] \in Tokens
      BY <3>1, ServedToken
    <3>3. status[key[t]] # "none" /\ found'[t] = RowPrincipal(key[t])
      BY <3>1, <3>2 DEF PrincipalInv
    <3> QED
      BY <3>1, <3>3 DEF db, RowPrincipal
  <2>5. CASE SelectRow(t)
    <3>1. Usable(key[t])
      BY <1>3, <2>5 DEF SelectRow, TypeOK, ThreadsOK
    <3>2. found'[t] = RowPrincipal(key[t]) /\ key' = key /\ UNCHANGED db
      BY <2>5, <3>1 DEF SelectRow, RowPrincipal, TypeOK, ThreadsOK
    <3> QED
      BY <3>1, <3>2 DEF Usable, db, RowPrincipal
  <2>6. CASE StampEntry(t) \/ Remember(t)
    <3>1. pc[t] \in {"stamp", "store"} /\ UNCHANGED <<found, key, db>>
      BY <2>6 DEF StampEntry, Remember, locals
    <3>2. status[key[t]] # "none" /\ found[t] = RowPrincipal(key[t])
      BY <1>3, <3>1 DEF PrincipalInv
    <3> QED
      BY <3>1, <3>2 DEF db, RowPrincipal
  <2> QED
    BY <2>1, <2>2, <2>3, <2>4, <2>5, <2>6, ThreadStep DEF ThreadMoves
<1> QED
  BY <1>2, <1>3 DEF PrincipalInv, RowPrincipal

LEMMA NextRejection ==
  ASSUME TypeOK, KnownInv, PrincipalInv, RejectionInv, [Next]_vars
  PROVE  RejectionInv'
<1> DEFINE UsableNext(k) ==
             status'[k] = "active" /\ ~(expiry'[k] # Never /\ expiry'[k] <= now')
<1>1. ASSUME NEW k \in Tokens, k \in Forged \/ status[k] # "none", ~Usable(k)
      PROVE  ~UsableNext(k)
  BY <1>1, UnusableForever
<1>2. ASSUME NEW w \in Workers, NEW k \in Tokens,
             cache'[w][k] # Absent, cache'[w][k].principal = None
      PROVE  ~UsableNext(k)
  <2>1. CASE cache'[w][k] = cache[w][k]
    BY <1>1, <1>2, <2>1 DEF KnownInv, RejectionInv
  <2>2. CASE EntryExpired(w, k)
    <3>1. /\ cache[w][k] # Absent /\ cache[w][k].principal # None
          /\ Expired(cache[w][k].principal.expires)
      BY <2>2 DEF EntryExpired, Live
    <3>2. status[k] # "none" /\ cache[w][k].principal = RowPrincipal(k)
      BY <3>1 DEF PrincipalInv
    <3>3. cache[w][k].principal.expires = expiry[k]
      BY <3>2 DEF RowPrincipal
    <3> QED
      BY <1>1, <3>1, <3>2, <3>3 DEF Usable
  <2>3. CASE EntryStored(w, k)
    <3>1. PICK t \in Threads : key[t] = k /\ pc[t] = "store" /\ found[t] = None
      BY <1>2, <2>3 DEF EntryStored
    <3>2. ~Usable(k) /\ (k \in Forged \/ status[k] # "none")
      BY <3>1, Records DEF RejectionInv, KnownInv
    <3> QED
      BY <1>1, <3>2
  <2> QED
    BY <1>2, <2>1, <2>2, <2>3, EntryStep
<1>3. ASSUME NEW t \in Threads,
             (pc'[t] \in {"stamp", "store"} /\ found'[t] = None) \/ pc'[t] = "rejected"
      PROVE  ~UsableNext(key'[t])
  <2>1. ASSUME key[t] \in Tokens, ~Usable(key[t]), key'[t] = key[t]
        PROVE  ~UsableNext(key'[t])
    BY <1>1, <2>1, Records DEF KnownInv
  <2>2. CASE ThreadUnchanged(t)
    <3>1. key[t] \in Tokens /\ key'[t] = key[t]
      BY <1>3, <2>2, ServedToken DEF ThreadUnchanged
    <3>2. ~Usable(key[t])
      BY <1>3, <2>2 DEF ThreadUnchanged, RejectionInv
    <3> QED
      BY <2>1, <3>1, <3>2
  <2>3. CASE ThreadIdle(t)
    BY <1>3, <2>3 DEF ThreadIdle
  <2>4. ASSUME \/ \E k \in Tokens : Begin(t, k)
               \/ CacheHit(t) \/ CacheMiss(t)
               \/ DatabaseFails(t)
               \/ \E k \in Keys : Revoke(t, k)
        PROVE  FALSE
    BY <1>3, <2>4 DEF Begin, CacheHit, CacheMiss, DatabaseFails, Revoke, TypeOK, ThreadsOK
  <2>5. CASE CacheReject(t) \/ CacheExpire(t)
    <3> DEFINE e == cache[WorkerOf[t]][key[t]]
    <3>1. /\ pc[t] = "lookup" /\ e # Absent /\ key' = key
          /\ e.principal = None \/ (e.principal # None /\ Expired(e.principal.expires))
      BY <2>5 DEF CacheReject, CacheExpire, Live, locals
    <3>2. WorkerOf[t] \in Workers /\ key[t] \in Tokens
      BY <3>1, ServedToken
    <3>3. CASE e.principal = None
      BY <2>1, <3>1, <3>2, <3>3 DEF RejectionInv
    <3>4. CASE e.principal # None
      <4>1. e.principal = RowPrincipal(key[t])
        BY <3>1, <3>2, <3>4 DEF PrincipalInv
      <4>2. e.principal.expires = expiry[key[t]]
        BY <4>1 DEF RowPrincipal
      <4> QED
        BY <2>1, <3>1, <3>2, <3>4, <4>2 DEF Usable
    <3> QED
      BY <3>3, <3>4
  <2>6. CASE SelectRow(t)
    <3>1. key' = key /\ key[t] \in Tokens /\ pc'[t] = "stamp"
      BY <2>6, ServedToken DEF SelectRow, TypeOK, ThreadsOK
    <3>2. Usable(key[t]) => found'[t] = [project |-> owner[key[t]], expires |-> expiry[key[t]]]
      BY <2>6 DEF SelectRow, TypeOK, ThreadsOK
    <3>3. Usable(key[t]) => found'[t] \in Principal
      BY <3>1, <3>2, Records DEF Usable, TypeOK, RowsOK
    <3>4. ~Usable(key[t])
      BY <1>3, <3>1, <3>3, Records
    <3> QED
      BY <2>1, <3>1, <3>4
  <2>7. CASE StampEntry(t) \/ Remember(t)
    <3>1. pc[t] \in {"stamp", "store"} /\ key' = key /\ found' = found
      BY <2>7 DEF StampEntry, Remember, locals
    <3>2. found[t] = None
      BY <1>3, <2>7, <3>1 DEF Remember, StampEntry, TypeOK, ThreadsOK
    <3>3. key[t] \in Tokens /\ ~Usable(key[t])
      BY <3>1, <3>2, ServedToken DEF RejectionInv
    <3> QED
      BY <2>1, <3>1, <3>3
  <2> QED
    BY <2>2, <2>3, <2>4, <2>5, <2>6, <2>7, ThreadStep DEF ThreadMoves
<1> HIDE DEF UsableNext
<1>4. \A k : Usable(k)' <=> UsableNext(k)
  BY DEF Usable, Expired, UsableNext
<1> QED
  BY <1>2, <1>3, <1>4 DEF RejectionInv, Usable, Expired, UsableNext

LEMMA NextClean ==
  ASSUME TypeOK, CleanInv, [Next]_vars
  PROVE  CleanInv'
<1>1. ASSUME NEW k \in Tokens, status[k] = "revoked" PROVE status'[k] = "revoked" /\ ~Usable(k)
  BY <1>1, RowStep DEF RowUnchanged, RowCreated, RowRevoked, Usable
<1>2. ASSUME NEW w \in Workers, NEW k \in Tokens
      PROVE  \/ revokedIn'[w][k] = revokedIn[w][k]
             \/ \E t \in Threads :
                  /\ Invalidate(t) /\ WorkerOf[t] = w /\ key[t] = k /\ pc[t] = "invalidate"
                  /\ \/ revokedIn'[w][k] = "raced"
                     \/ revokedIn'[w][k] = "clean" /\ (InFlight(w, k) = {} \/ revokedIn[w][k] = "clean")
                  /\ cache'[w][k] = Absent
  <2>1. ASSUME NEW t \in Threads, Invalidate(t),
               ~(WorkerOf[t] = w /\ key[t] = k)
        PROVE  revokedIn'[w][k] = revokedIn[w][k]
    BY <2>1 DEF Invalidate, TypeOK, HistoryOK
  <2>2. ASSUME NEW t \in Threads, Invalidate(t), WorkerOf[t] = w, key[t] = k
        PROVE  /\ pc[t] = "invalidate"
               /\ \/ revokedIn'[w][k] = "raced"
                  \/ revokedIn'[w][k] = "clean" /\ (InFlight(w, k) = {} \/ revokedIn[w][k] = "clean")
               /\ cache'[w][k] = Absent
    <3>1. revokedIn'[w][k] = IF InFlight(w, k) = {} \/ revokedIn[w][k] = "clean"
                            THEN "clean" ELSE "raced"
      BY <2>2 DEF Invalidate, TypeOK, HistoryOK
    <3>2. pc[t] = "invalidate" /\ cache'[w][k] = Absent
      BY <2>2 DEF Invalidate, TypeOK, CachesOK
    <3> QED
      BY <3>1, <3>2
  <2>3. ASSUME NEW t \in Threads, Authenticate(t) PROVE revokedIn' = revokedIn
    BY <2>3 DEF Authenticate, Begin, CacheHit, CacheReject, CacheExpire, CacheMiss, SelectRow,
                DatabaseFails, StampEntry, Remember, history
  <2>4. ASSUME NEW t \in Threads, Route(t), ~Invalidate(t) PROVE revokedIn' = revokedIn
    BY <2>4 DEF Route, Respond, CreateKey, Revoke, RevokeUnacknowledged
  <2>5. ASSUME NEW v \in Workers, Restart(v) PROVE revokedIn' = revokedIn
    BY <2>5 DEF Restart
  <2>6. Tick \/ UNCHANGED vars => revokedIn' = revokedIn
    BY DEF Tick, vars, history
  <2> QED
    BY <2>1, <2>2, <2>3, <2>4, <2>5, <2>6 DEF Next
<1>3. ASSUME NEW w \in Workers, NEW k \in Tokens, revokedIn[w][k] = "clean"
      PROVE  revokedIn'[w][k] = "clean"
  <2>1. ASSUME NEW t \in Threads, Invalidate(t), WorkerOf[t] = w, key[t] = k
        PROVE  revokedIn'[w][k] = "clean"
    BY <1>3, <2>1 DEF Invalidate, TypeOK, HistoryOK
  <2> QED
    BY <1>2, <1>3, <2>1
<1>4. ASSUME NEW t \in Threads, pc'[t] = "invalidate"
      PROVE  status'[key'[t]] = "revoked"
  <2>1. CASE ThreadUnchanged(t)
    BY <1>1, <1>4, <2>1, ServedToken DEF ThreadUnchanged, CleanInv
  <2>2. ASSUME NEW k \in Keys, Revoke(t, k) PROVE status'[key'[t]] = "revoked"
    BY <2>2 DEF Revoke, RevokeRow, TypeOK, ThreadsOK, RowsOK, Tokens
  <2>3. ASSUME \/ \E k \in Tokens : Begin(t, k)
               \/ CacheHit(t) \/ CacheReject(t) \/ CacheExpire(t) \/ CacheMiss(t)
               \/ SelectRow(t) \/ DatabaseFails(t) \/ StampEntry(t) \/ Remember(t)
        PROVE  FALSE
    BY <1>4, <2>3 DEF Begin, CacheHit, CacheReject, CacheExpire, CacheMiss, SelectRow,
                      DatabaseFails, StampEntry, Remember, TypeOK, ThreadsOK
  <2> QED
    BY <1>4, <2>1, <2>2, <2>3, ThreadStep DEF ThreadIdle, ThreadMoves
<1>5. ASSUME NEW w \in Workers, NEW k \in Tokens, revokedIn'[w][k] # "before"
      PROVE  status'[k] = "revoked"
  BY <1>1, <1>2, <1>5 DEF CleanInv
<1>6. ASSUME NEW w \in Workers, NEW k \in Tokens, revokedIn'[w][k] = "clean",
             cache'[w][k] # Absent
      PROVE  cache'[w][k].principal = None
  <2>1. revokedIn[w][k] = "clean"
    BY <1>2, <1>6
  <2>2. CASE cache'[w][k] = cache[w][k]
    BY <1>6, <2>1, <2>2 DEF CleanInv
  <2>3. CASE EntryExpired(w, k)
    BY <2>3 DEF EntryExpired
  <2>4. CASE EntryStored(w, k)
    BY <2>1, <2>4 DEF EntryStored, CleanInv
  <2> QED
    BY <1>6, <2>2, <2>3, <2>4, EntryStep
<1>7. ASSUME NEW t \in Threads, pc'[t] \in {"stamp", "store"}, found'[t] # None
      PROVE  revokedIn'[WorkerOf[t]][key'[t]] # "clean"
  <2> DEFINE w == WorkerOf[t]
  <2>1. ASSUME pc[t] \in {"stamp", "store"}, found[t] # None, key'[t] = key[t]
        PROVE  revokedIn'[w][key'[t]] # "clean"
    <3>1. w \in Workers /\ key[t] \in Tokens
      BY <2>1, ServedToken
    <3>2. t \in InFlight(w, key[t])
      BY <2>1 DEF InFlight
    <3>3. revokedIn[w][key[t]] # "clean"
      BY <2>1 DEF CleanInv
    <3> QED
      BY <1>2, <2>1, <3>1, <3>2, <3>3
  <2>2. CASE ThreadUnchanged(t)
    BY <1>7, <2>1, <2>2 DEF ThreadUnchanged
  <2>3. CASE StampEntry(t)
    BY <1>7, <2>1, <2>3 DEF StampEntry
  <2>4. CASE SelectRow(t)
    <3>1. key' = key /\ revokedIn' = revokedIn /\ w \in Workers /\ key[t] \in Tokens
      BY <2>4, ServedToken DEF SelectRow
    <3>2. Usable(key[t])
      BY <1>7, <2>4 DEF SelectRow, TypeOK, ThreadsOK
    <3> QED
      BY <3>1, <3>2 DEF Usable, CleanInv
  <2>5. ASSUME \/ \E k \in Tokens : Begin(t, k)
               \/ CacheHit(t) \/ CacheReject(t) \/ CacheExpire(t) \/ CacheMiss(t)
               \/ DatabaseFails(t) \/ Remember(t)
               \/ \E k \in Keys : Revoke(t, k)
        PROVE  FALSE
    BY <1>7, <2>5 DEF Begin, CacheHit, CacheReject, CacheExpire, CacheMiss, DatabaseFails,
                      Remember, Revoke, TypeOK, ThreadsOK
  <2> QED
    BY <1>7, <2>2, <2>3, <2>4, <2>5, ThreadStep DEF ThreadIdle, ThreadMoves
<1>8. ASSUME NEW t \in Threads, begun'[t] = "clean"
      PROVE  pc'[t] \notin {"idle", "authed"} /\ revokedIn'[WorkerOf[t]][key'[t]] = "clean"
  <2> DEFINE w == WorkerOf[t]
  <2>1. ASSUME begun[t] = "clean", key'[t] = key[t], pc[t] # "idle"
        PROVE  revokedIn'[w][key'[t]] = "clean" /\ w \in Workers /\ key[t] \in Tokens
    BY <1>3, <2>1, ServedToken DEF CleanInv
  <2>2. CASE ThreadUnchanged(t)
    BY <1>8, <2>1, <2>2 DEF ThreadUnchanged, CleanInv
  <2>3. CASE ThreadIdle(t)
    BY <1>8, <2>3 DEF ThreadIdle
  <2>4. ASSUME NEW k \in Tokens, Begin(t, k)
        PROVE  pc'[t] \notin {"idle", "authed"} /\ revokedIn'[WorkerOf[t]][key'[t]] = "clean"
    BY <1>8, <2>4 DEF Begin, TypeOK, ThreadsOK, HistoryOK
  <2>5. CASE CacheReject(t) \/ CacheExpire(t) \/ CacheMiss(t) \/ DatabaseFails(t)
    <3>1. key' = key /\ begun' = begun /\ pc[t] # "idle" /\ pc'[t] \notin {"idle", "authed"}
      BY <2>5 DEF CacheReject, CacheExpire, CacheMiss, DatabaseFails, locals, history,
                  TypeOK, ThreadsOK
    <3> QED
      BY <1>8, <2>1, <3>1
  <2>6. CASE SelectRow(t) \/ StampEntry(t)
    <3>1. key' = key /\ begun' = begun /\ pc[t] # "idle" /\ pc'[t] \notin {"idle", "authed"}
      BY <2>6 DEF SelectRow, StampEntry, history, TypeOK, ThreadsOK
    <3> QED
      BY <1>8, <2>1, <3>1
  <2>7. CASE Remember(t)
    <3>1. /\ key' = key /\ begun' = begun /\ pc[t] = "store"
          /\ pc'[t] = IF found[t] # None THEN "authed" ELSE "rejected"
      BY <2>7 DEF Remember, locals, history, TypeOK, ThreadsOK
    <3>2. found[t] = None
      BY <1>8, <3>1 DEF CleanInv
    <3> QED
      BY <1>8, <2>1, <3>1, <3>2
  <2>8. CASE CacheHit(t)
    <3>1. /\ key' = key /\ begun' = begun /\ pc[t] = "lookup"
          /\ cache[w][key[t]] # Absent /\ cache[w][key[t]].principal # None
      BY <2>8 DEF CacheHit, Live, history
    <3> QED
      BY <1>8, <2>1, <3>1 DEF CleanInv
  <2>9. ASSUME NEW k \in Keys, Revoke(t, k) PROVE FALSE
    BY <1>8, <2>9 DEF Revoke, CleanInv
  <2> QED
    BY <2>2, <2>3, <2>4, <2>5, <2>6, <2>7, <2>8, <2>9, ThreadStep DEF ThreadMoves
<1> QED
  BY <1>4, <1>5, <1>6, <1>7, <1>8 DEF CleanInv

LEMMA NextStale ==
  ASSUME TypeOK, ClocksInv, StaleInv, [Next]_vars
  PROVE  StaleInv'
<1> DEFINE Limit(k)     == revokedAt[k] + TTL + MaxLag
           LimitNext(k) == revokedAt'[k] + TTL + MaxLag
<1> USE Numbers
<1>1. MaxLag \in Nat /\ TTL > 0 /\ now \in Nat
  BY NumberAssumption DEF TypeOK
<1>2. ASSUME NEW k \in Tokens, status'[k] = "revoked"
      PROVE  /\ revokedAt[k] \in Nat /\ revokedAt'[k] \in Nat
             /\ \/ status[k] = "revoked" /\ revokedAt'[k] = revokedAt[k]
                \/ revokedAt'[k] = now /\ now' = now
  BY <1>1, <1>2, RowStep DEF RowUnchanged, RowCreated, RowRevoked, TypeOK, RowsOK, HistoryOK
<1>3. ASSUME NEW w \in Workers, NEW k \in Tokens, cache'[w][k] # Absent,
             cache'[w][k].principal # None, status'[k] = "revoked"
      PROVE  cache'[w][k].deadline <= LimitNext(k)
  <2>1. CASE cache'[w][k] = cache[w][k]
    <3>1. cache[w][k].deadline \in Nat /\ cache[w][k].deadline <= now + TTL
      BY <1>3, <2>1, Records DEF TypeOK, CachesOK, ClocksInv
    <3>2. status[k] = "revoked" => cache[w][k].deadline <= Limit(k)
      BY <1>3, <2>1 DEF StaleInv
    <3> QED
      BY <1>1, <1>2, <1>3, <2>1, <3>1, <3>2
  <2>2. CASE EntryExpired(w, k)
    BY <1>3, <2>2 DEF EntryExpired
  <2>3. CASE EntryStored(w, k)
    <3>1. PICK t \in Threads : /\ key[t] = k /\ pc[t] = "store" /\ found[t] # None
                               /\ cache'[w][k].deadline = deadline[t]
                               /\ UNCHANGED <<db, history>>
      BY <1>3, <2>3 DEF EntryStored
    <3>2. status[k] = "revoked" /\ revokedAt'[k] = revokedAt[k]
      BY <1>3, <3>1 DEF db, history
    <3> QED
      BY <3>1, <3>2 DEF StaleInv
  <2> QED
    BY <1>3, <2>1, <2>2, <2>3, EntryStep
<1>4. ASSUME NEW t \in Threads, pc'[t] \in {"stamp", "store"}, found'[t] # None,
             status'[key'[t]] = "revoked"
      PROVE  /\ readAt'[t] <= revokedAt'[key'[t]]
             /\ seen'[t] <= revokedAt'[key'[t]]
             /\ pc'[t] = "store" => deadline'[t] <= LimitNext(key'[t])
  <2>1. /\ seen[t] \in Nat /\ readAt[t] \in Nat /\ deadline[t] \in Nat
        /\ seen[t] <= now /\ readAt[t] <= now
        /\ pc[t] = "store" => deadline[t] <= now + TTL
    BY DEF TypeOK, ThreadsOK, HistoryOK, ClocksInv
  <2>2. CASE ThreadUnchanged(t)
    <3>1. key[t] \in Tokens /\ key'[t] = key[t]
      BY <1>4, <2>2, ServedToken DEF ThreadUnchanged
    <3>2. CASE revokedAt'[key[t]] = now
      BY <1>1, <1>2, <1>4, <2>1, <2>2, <3>1, <3>2 DEF ThreadUnchanged
    <3>3. CASE status[key[t]] = "revoked" /\ revokedAt'[key[t]] = revokedAt[key[t]]
      BY <1>4, <2>2, <3>1, <3>3 DEF ThreadUnchanged, StaleInv
    <3> QED
      BY <1>2, <1>4, <3>1, <3>2, <3>3
  <2>3. CASE SelectRow(t)
    <3>1. Usable(key[t])
      BY <1>4, <2>3 DEF SelectRow, TypeOK, ThreadsOK
    <3> QED
      BY <1>4, <2>3, <3>1 DEF SelectRow, Usable, db
  <2>4. CASE StampEntry(t)
    <3>1. /\ pc[t] = "stamp" /\ found[t] # None /\ pc'[t] = "store"
          /\ key' = key /\ UNCHANGED <<now, db, history, seen>>
          /\ deadline'[t] = now + TTL
      BY <1>4, <2>4 DEF StampEntry, TypeOK, ThreadsOK
    <3>2. key[t] \in Tokens /\ now - readAt[t] <= MaxLag
      BY <3>1, ServedToken DEF ClocksInv
    <3>3. readAt[t] <= revokedAt[key[t]] /\ seen[t] <= revokedAt[key[t]]
      BY <1>4, <3>1 DEF db, StaleInv
    <3>4. revokedAt[key[t]] \in Nat
      BY <3>2 DEF TypeOK, HistoryOK
    <3>5. now + TTL <= Limit(key[t])
      BY <1>1, <2>1, <3>2, <3>3, <3>4
    <3> QED
      BY <3>1, <3>3, <3>5 DEF history
  <2>5. ASSUME \/ \E k \in Tokens : Begin(t, k)
               \/ CacheHit(t) \/ CacheReject(t) \/ CacheExpire(t) \/ CacheMiss(t)
               \/ DatabaseFails(t) \/ Remember(t)
               \/ \E k \in Keys : Revoke(t, k)
        PROVE  FALSE
    BY <1>4, <2>5 DEF Begin, CacheHit, CacheReject, CacheExpire, CacheMiss, DatabaseFails,
                      Remember, Revoke, TypeOK, ThreadsOK
  <2> QED
    BY <1>4, <2>2, <2>3, <2>4, <2>5, ThreadStep DEF ThreadIdle, ThreadMoves
<1>5. ASSUME NEW t \in Threads, pc'[t] = "authed", status'[key'[t]] = "revoked"
      PROVE  seen'[t] < LimitNext(key'[t])
  <2>1. seen[t] \in Nat /\ seen[t] <= now
    BY DEF TypeOK, ThreadsOK, ClocksInv
  <2>2. CASE ThreadUnchanged(t)
    <3>1. key[t] \in Tokens /\ key'[t] = key[t] /\ pc[t] = "authed" /\ seen'[t] = seen[t]
      BY <1>5, <2>2, ServedToken DEF ThreadUnchanged
    <3>2. status[key[t]] = "revoked" => seen[t] < Limit(key[t])
      BY <3>1 DEF StaleInv, StaleAcceptanceBounded
    <3> QED
      BY <1>1, <1>2, <1>5, <2>1, <3>1, <3>2
  <2>3. CASE CacheHit(t)
    <3> DEFINE e == cache[WorkerOf[t]][key[t]]
    <3>1. /\ pc[t] = "lookup" /\ e # Absent /\ e.deadline > seen[t] /\ e.principal # None
          /\ UNCHANGED <<key, seen, db, history>>
      BY <2>3 DEF CacheHit, Live
    <3>2. key[t] \in Tokens /\ WorkerOf[t] \in Workers
      BY <3>1, ServedToken
    <3>3. e.deadline \in Nat
      BY <3>1, <3>2, Records DEF TypeOK, CachesOK
    <3>4. e.deadline <= Limit(key[t])
      BY <1>5, <3>1, <3>2 DEF StaleInv, db
    <3>5. revokedAt[key[t]] \in Nat
      BY <3>2 DEF TypeOK, HistoryOK
    <3>6. seen[t] < Limit(key[t])
      BY <1>1, <2>1, <3>1, <3>3, <3>4, <3>5
    <3> QED
      BY <3>1, <3>6 DEF history
  <2>4. CASE Remember(t)
    <3>1. /\ pc[t] = "store" /\ found[t] # None
          /\ UNCHANGED <<key, seen, db, history>>
      BY <1>5, <2>4 DEF Remember, locals, TypeOK, ThreadsOK
    <3>2. key[t] \in Tokens
      BY <3>1, ServedToken
    <3>3. seen[t] <= revokedAt[key[t]]
      BY <1>5, <3>1 DEF StaleInv, db
    <3>4. revokedAt[key[t]] \in Nat
      BY <3>2 DEF TypeOK, HistoryOK
    <3>5. seen[t] < Limit(key[t])
      BY <1>1, <2>1, <3>3, <3>4
    <3> QED
      BY <3>1, <3>5 DEF history
  <2>5. ASSUME \/ \E k \in Tokens : Begin(t, k)
               \/ CacheReject(t) \/ CacheExpire(t) \/ CacheMiss(t)
               \/ SelectRow(t) \/ DatabaseFails(t) \/ StampEntry(t)
               \/ \E k \in Keys : Revoke(t, k)
        PROVE  FALSE
    BY <1>5, <2>5 DEF Begin, CacheReject, CacheExpire, CacheMiss, SelectRow, DatabaseFails,
                      StampEntry, Revoke, TypeOK, ThreadsOK
  <2> QED
    BY <1>5, <2>2, <2>3, <2>4, <2>5, ThreadStep DEF ThreadIdle, ThreadMoves
<1> QED
  BY <1>3, <1>4, <1>5 DEF StaleInv, StaleAcceptanceBounded

-----------------------------------------------------------------------------

IInv ==
  /\ TypeOK
  /\ KnownInv
  /\ ClocksInv
  /\ PrincipalInv
  /\ RejectionInv
  /\ StaleInv
  /\ CleanInv

LEMMA InitIInv == Init => IInv
<1> SUFFICES ASSUME Init PROVE IInv
  OBVIOUS
<1>1. \A t \in Threads : pc[t] = "idle" /\ key[t] = None /\ seen[t] = 0 /\ readAt[t] = 0
                         /\ begun[t] = "before"
  BY DEF Init
<1>2. \A w \in Workers, k \in Tokens : cache[w][k] = Absent /\ revokedIn[w][k] = "before"
  BY DEF Init
<1>3. \A k \in Tokens : revokedAt[k] = 0
  BY DEF Init
<1>4. now = 0
  BY DEF Init
<1> QED
  BY <1>1, <1>2, <1>3, <1>4, InitTypeOK
     DEF IInv, KnownInv, ClocksInv, PrincipalInv, RejectionInv, StaleInv, CleanInv,
         StaleAcceptanceBounded

LEMMA NextIInv == IInv /\ [Next]_vars => IInv'
BY NextTypeOK, NextKnown, NextClocks, NextPrincipal, NextRejection, NextStale, NextClean DEF IInv

LEMMA Inductive == Spec => []IInv
BY InitIInv, NextIInv, PTL DEF Spec

\* A valid key is never refused with a 401, whatever the workers remember.
THEOREM NoFalseRejectionCorrect == Spec => []NoFalseRejection
<1>1. IInv => NoFalseRejection
  BY DEF IInv, RejectionInv, NoFalseRejection
<1> QED
  BY <1>1, Inductive, PTL

\* A request runs in the project of the key it presented.
THEOREM PrincipalMatchesRowCorrect == Spec => []PrincipalMatchesRow
<1>1. IInv => PrincipalMatchesRow
  BY DEF IInv, TypeOK, ThreadsOK, PrincipalInv, RowPrincipal, PrincipalMatchesRow
<1> QED
  BY <1>1, Inductive, PTL

\* No worker holds a revoked key beyond the TTL of the revoke plus the time the
\* commit of an authentication may be outstanding.
CopiesEnd ==
  \A w \in Workers, k \in Tokens :
    cache[w][k] # Absent /\ cache[w][k].principal # None /\ status[k] = "revoked"
      => cache[w][k].deadline <= revokedAt[k] + TTL + MaxLag

\* Whatever worker it reaches, a request that accepts a revoked key began before
\* the revoke plus TTL plus MaxLag, and no copy in a cache is live after that.
THEOREM StaleAcceptanceCorrect == Spec => [](StaleAcceptanceBounded /\ CopiesEnd)
<1>1. IInv => StaleAcceptanceBounded /\ CopiesEnd
  BY DEF IInv, StaleInv, CopiesEnd
<1> QED
  BY <1>1, Inductive, PTL

\* What the documents say of another worker, that a revoke takes at most the TTL, would
\* be true if the commit of an authentication took no time (keys.py dates the entry
\* after that commit and not at the SELECT).
COROLLARY DocumentedWithoutLag == MaxLag = 0 => (Spec => []RevokedWithinTTL)
<1> SUFFICES ASSUME MaxLag = 0 PROVE Spec => []RevokedWithinTTL
  OBVIOUS
<1>1. IInv => RevokedWithinTTL
  <2> SUFFICES ASSUME IInv, NEW t \in Threads, pc[t] = "authed", status[key[t]] = "revoked"
               PROVE  seen[t] < revokedAt[key[t]] + TTL
    BY DEF RevokedWithinTTL
  <2>1. seen[t] < revokedAt[key[t]] + TTL + MaxLag
    BY DEF IInv, StaleInv, StaleAcceptanceBounded
  <2>2. key[t] \in Tokens
    BY ServedToken DEF IInv
  <2>3. revokedAt[key[t]] \in Nat /\ seen[t] \in Nat
    BY <2>2 DEF IInv, TypeOK, HistoryOK, ThreadsOK
  <2> QED
    BY <2>1, <2>3, NumberAssumption
<1> QED
  BY <1>1, Inductive, PTL

\* A revoke that no authentication of the same key overlaps is immediate in the
\* worker that served it.
THEOREM CleanRevokeCorrect == Spec => []CleanRevokeIsImmediate
<1>1. IInv => CleanRevokeIsImmediate
  BY DEF IInv, CleanInv, CleanRevokeIsImmediate
<1> QED
  BY <1>1, Inductive, PTL

\* No lookup accepts a key whose row has expired.
THEOREM ExpiredKeyCorrect == Spec => ExpiredKeyNotServed
<1>1. ASSUME IInv, [Next]_vars, NEW t \in Threads, pc[t] = "lookup", pc'[t] = "authed"
      PROVE  ~Expired(expiry[key[t]])
  <2>1. CacheHit(t)
    <3>1. ~ThreadUnchanged(t) /\ ~ThreadIdle(t)
      BY <1>1 DEF ThreadUnchanged, ThreadIdle
    <3>2. ThreadMoves(t)
      BY <1>1, <3>1, ThreadStep DEF IInv
    <3> QED
      BY <1>1, <3>2 DEF ThreadMoves, Begin, CacheReject, CacheExpire, CacheMiss, SelectRow,
                        DatabaseFails, StampEntry, Remember, Revoke, IInv, TypeOK, ThreadsOK
  <2> DEFINE e == cache[WorkerOf[t]][key[t]]
  <2>2. e # Absent /\ e.principal # None /\ ~Expired(e.principal.expires)
    BY <2>1 DEF CacheHit, Live
  <2>3. WorkerOf[t] \in Workers /\ key[t] \in Tokens
    BY <1>1, ServedToken DEF IInv
  <2>4. e.principal = RowPrincipal(key[t])
    BY <1>1, <2>2, <2>3 DEF IInv, PrincipalInv
  <2>5. e.principal.expires = expiry[key[t]]
    BY <2>4 DEF RowPrincipal
  <2> QED
    BY <2>2, <2>5
<1>2. IInv /\ [Next]_vars
        => [\A t \in Threads :
              pc[t] = "lookup" /\ pc'[t] = "authed" => ~Expired(expiry[key[t]])]_vars
  BY <1>1
<1> QED
  BY <1>2, Inductive, PTL DEF Spec, ExpiredKeyNotServed

\* Only a key of the same project deactivates a row.
THEOREM RevokeStaysInProjectCorrect == Spec => RevokeStaysInProject
<1>1. ASSUME IInv, [Next]_vars, NEW k \in Keys, status[k] = "active", status'[k] = "revoked"
      PROVE  \E t \in Threads : pc[t] = "authed" /\ owner[key[t]] = owner[k]
  <2>1. \E t \in Threads : pc[t] = "authed" /\ owner[k] = found[t].project
    <3>1. ASSUME NEW t \in Threads, Authenticate(t) PROVE FALSE
      BY <1>1, <3>1 DEF Authenticate, Begin, CacheHit, CacheReject, CacheExpire, CacheMiss,
                        SelectRow, DatabaseFails, StampEntry, Remember, db
    <3>2. ASSUME NEW t \in Threads, Respond(t) \/ Invalidate(t) PROVE FALSE
      BY <1>1, <3>2 DEF Respond, Invalidate, db
    <3>3. ASSUME NEW t \in Threads, NEW j \in Keys, NEW life \in Lifetimes, CreateKey(t, j, life)
          PROVE  FALSE
      BY <1>1, <3>3 DEF CreateKey, IInv, TypeOK, RowsOK, Tokens
    <3>4. ASSUME NEW t \in Threads, NEW j \in Keys, Revoke(t, j) \/ RevokeUnacknowledged(t, j)
          PROVE  pc[t] = "authed" /\ owner[k] = found[t].project
      BY <1>1, <3>4 DEF Revoke, RevokeUnacknowledged, RevokeRow, IInv, TypeOK, RowsOK, Tokens
    <3>5. ASSUME NEW w \in Workers, Restart(w) PROVE FALSE
      BY <1>1, <3>5 DEF Restart, db
    <3>6. ~Tick /\ ~UNCHANGED vars
      BY <1>1 DEF Tick, vars, db
    <3> QED
      BY <1>1, <3>1, <3>2, <3>3, <3>4, <3>5, <3>6 DEF Next, Route
  <2>2. PICK t \in Threads : pc[t] = "authed" /\ owner[k] = found[t].project
    BY <2>1
  <2>3. found[t] = RowPrincipal(key[t])
    BY <1>1, <2>2 DEF IInv, TypeOK, ThreadsOK, PrincipalInv
  <2>4. found[t].project = owner[key[t]]
    BY <2>3 DEF RowPrincipal
  <2> QED
    BY <2>2, <2>4
<1>2. IInv /\ [Next]_vars
        => [\A k \in Keys :
              status[k] = "active" /\ status'[k] = "revoked"
                => \E t \in Threads : pc[t] = "authed" /\ owner[key[t]] = owner[k]]_vars
  BY <1>1
<1> QED
  BY <1>2, Inductive, PTL DEF Spec, RevokeStaysInProject

-----------------------------------------------------------------------------
(* The OrderedDict                                                            *)

\* What holds of 0, and of each number up to n if of the one before, holds of all.
LEMMA Induction ==
  ASSUME NEW n \in Nat, NEW S, 0 \in S, \A i \in 1 .. n : i - 1 \in S => i \in S
  PROVE  0 .. n \subseteq S
<1> SUFFICES ASSUME (0 .. n) \ S # {} PROVE FALSE
  OBVIOUS
<1> DEFINE R == OpToRel(<, Nat)
<1>1. (0 .. n) \ S \subseteq Nat
  OBVIOUS
<1>2. PICK i \in (0 .. n) \ S : \A j \in (0 .. n) \ S : <<j, i>> \notin R
  <2> HIDE DEF R
  <2> QED
    BY <1>1, WFMin, NatLessThanWellFounded DEF R
<1> HIDE DEF R
<1>3. i \in 1 .. n /\ i - 1 \in (0 .. n) \ S
  BY <1>2
<1>4. <<i - 1, i>> \in R
  BY <1>3 DEF R, OpToRel
<1> QED
  BY <1>2, <1>3, <1>4

\* The recursion of Keep.
Step(s, S, i, kept) == IF s[i] \in S THEN Append(kept, s[i]) ELSE kept

Prefixes(s, S) ==
  CHOOSE upto : upto = [i \in 0 .. Len(s) |-> IF i = 0 THEN <<>>
                                              ELSE IF s[i] \in S THEN Append(upto[i - 1], s[i])
                                              ELSE upto[i - 1]]

LEMMA KeepIsLastPrefix == \A s, S : Keep(s, S) = Prefixes(s, S)[Len(s)]
BY DEF Keep, Prefixes

Computes(g, s, S, n) ==
  /\ g \in [0 .. n -> Seq(Tokens)]
  /\ g[0] = <<>>
  /\ \A i \in 1 .. n : g[i] = Step(s, S, i, g[i - 1])

LEMMA PrefixesComputed ==
  ASSUME NEW s \in Seq(Tokens), NEW S
  PROVE  Computes(Prefixes(s, S), s, S, Len(s))
<1> DEFINE N == {n \in 0 .. Len(s) : \E g : Computes(g, s, S, n)}
           Body(g) == [i \in 0 .. Len(s) |-> IF i = 0 THEN <<>>
                                             ELSE IF s[i] \in S THEN Append(g[i - 1], s[i])
                                             ELSE g[i - 1]]
<1>0. Len(s) \in Nat
  OBVIOUS
<1>1. 0 .. Len(s) \subseteq N
  <2>1. 0 \in N
    <3>1. Computes([i \in 0 .. 0 |-> <<>>], s, S, 0)
      BY DEF Computes
    <3> QED
      BY <3>1
  <2>2. ASSUME NEW n \in 1 .. Len(s), n - 1 \in N PROVE n \in N
    <3>1. PICK g : Computes(g, s, S, n - 1)
      BY <2>2
    <3> DEFINE last == Step(s, S, n, g[n - 1])
               h == [i \in 0 .. n |-> IF i = n THEN last ELSE g[i]]
    <3>2. last \in Seq(Tokens)
      BY <3>1 DEF Computes, Step
    <3> HIDE DEF last
    <3>3. h \in [0 .. n -> Seq(Tokens)] /\ h[0] = <<>>
      BY <3>1, <3>2 DEF Computes
    <3>4. ASSUME NEW i \in 1 .. n PROVE h[i] = Step(s, S, i, h[i - 1])
      <4>1. h[i - 1] = g[i - 1]
        OBVIOUS
      <4>2. CASE i = n
        BY <4>1, <4>2 DEF last
      <4>3. CASE i # n
        <5>1. i \in 1 .. n - 1 /\ h[i] = g[i]
          BY <4>3
        <5> QED
          BY <3>1, <4>1, <5>1 DEF Computes
      <4> QED
        BY <4>2, <4>3
    <3> HIDE DEF h
    <3>5. Computes(h, s, S, n)
      BY <3>3, <3>4 DEF Computes
    <3> QED
      BY <3>5
  <2> HIDE DEF N
  <2> QED
    BY <1>0, <2>1, <2>2, Induction
<1>2. PICK g : Computes(g, s, S, Len(s))
  <2>1. Len(s) \in N
    BY <1>0, <1>1
  <2> QED
    BY <2>1
<1>3. g = Body(g)
  <2>1. g = [i \in 0 .. Len(s) |-> g[i]]
    BY <1>2 DEF Computes
  <2>2. ASSUME NEW i \in 0 .. Len(s) PROVE g[i] = Body(g)[i]
    <3>1. CASE i = 0
      BY <1>2, <3>1 DEF Computes
    <3>2. CASE i # 0
      <4>1. i \in 1 .. Len(s)
        BY <3>2
      <4> QED
        BY <1>2, <4>1 DEF Computes, Step
    <3> QED
      BY <3>1, <3>2
  <2> HIDE DEF Body
  <2>3. Body(g) = [i \in 0 .. Len(s) |-> Body(g)[i]]
    BY DEF Body
  <2> QED
    BY <2>1, <2>2, <2>3
<1>4. Prefixes(s, S) = Body(Prefixes(s, S))
  BY <1>3 DEF Prefixes
<1>5. \A i \in 0 .. Len(s) : Prefixes(s, S)[i] = Body(Prefixes(s, S))[i]
  BY <1>4
<1> DEFINE p == Prefixes(s, S)
<1> HIDE DEF p
<1>6. p[0] = <<>> /\ \A i \in 1 .. Len(s) : p[i] = Step(s, S, i, p[i - 1])
  BY <1>5 DEF p, Step
<1>7. \A i \in 0 .. Len(s) : p[i] \in Seq(Tokens)
  <2> DEFINE M == {i \in 0 .. Len(s) : p[i] \in Seq(Tokens)}
  <2>1. 0 \in M
    <3>1. <<>> \in Seq(Tokens) /\ 0 \in 0 .. Len(s)
      BY <1>0
    <3> QED
      BY <1>6, <3>1
  <2>2. ASSUME NEW i \in 1 .. Len(s), i - 1 \in M PROVE i \in M
    <3>1. s[i] \in Tokens /\ p[i] = Step(s, S, i, p[i - 1]) /\ p[i - 1] \in Seq(Tokens)
      BY <1>6, <2>2
    <3>2. p[i] \in Seq(Tokens)
      BY <3>1 DEF Step
    <3> QED
      BY <3>2
  <2> HIDE DEF M
  <2>3. 0 .. Len(s) \subseteq M
    BY <1>0, <2>1, <2>2, Induction
  <2> QED
    BY <2>3 DEF M
<1>8. p = [i \in 0 .. Len(s) |-> p[i]]
  BY <1>4 DEF p
<1> QED
  BY <1>6, <1>7, <1>8 DEF Computes, p

Distinct(s) == \A i, j \in DOMAIN s : s[i] = s[j] => i = j

\* Keep filters a sequence without repetitions, and is shorter by what it drops.
LEMMA KeepFilters ==
  ASSUME NEW s \in Seq(Tokens), Distinct(s), NEW S
  PROVE  /\ Keep(s, S) \in Seq(Tokens)
         /\ Distinct(Keep(s, S))
         /\ Listed(Keep(s, S)) = Listed(s) \cap S
         /\ Len(Keep(s, S)) <= Len(s)
         /\ (\E x \in Listed(s) : x \notin S) => Len(Keep(s, S)) < Len(s)
<1> DEFINE p == Prefixes(s, S)
           Good(n) == /\ Distinct(p[n])
                      /\ Listed(p[n]) = {s[i] : i \in 1 .. n} \cap S
                      /\ Len(p[n]) <= n
                      /\ (\E i \in 1 .. n : s[i] \notin S) => Len(p[n]) < n
           N == {n \in 0 .. Len(s) : Good(n)}
<1>1. Computes(p, s, S, Len(s))
  BY PrefixesComputed
<1> HIDE DEF p
<1>0. Len(s) \in Nat
  OBVIOUS
<1>2. 0 \in N
  BY <1>1 DEF Computes, Listed, Distinct
<1>3. ASSUME NEW n \in 1 .. Len(s), n - 1 \in N PROVE n \in N
  <2> DEFINE q == p[n - 1]
  <2>1. Good(n - 1)
    BY <1>3
  <2>2. q \in Seq(Tokens) /\ p[n] \in Seq(Tokens) /\ p[n] = Step(s, S, n, q)
    BY <1>1 DEF Computes
  <2>3. {s[i] : i \in 1 .. n} = {s[i] : i \in 1 .. n - 1} \cup {s[n]}
    <3>1. 1 .. n = 1 .. n - 1 \cup {n}
      OBVIOUS
    <3> QED
      BY <3>1
  <2>4. s[n] \notin Listed(q)
    <3>1. \A i \in 1 .. n - 1 : s[i] # s[n]
      BY DEF Distinct
    <3> QED
      BY <2>1, <3>1
  <2>5. CASE s[n] \in S
    <3>1. p[n] = Append(q, s[n])
      BY <2>2, <2>5 DEF Step
    <3> HIDE DEF q
    <3>2. /\ Len(p[n]) = Len(q) + 1 /\ DOMAIN q = 1 .. Len(q) /\ DOMAIN p[n] = 1 .. Len(q) + 1
          /\ \A i \in 1 .. Len(q) : p[n][i] = q[i]
          /\ p[n][Len(q) + 1] = s[n]
      BY <2>2, <3>1
    <3>3. Listed(p[n]) = Listed(q) \cup {s[n]}
      BY <2>2, <3>2 DEF Listed
    <3>4. Distinct(p[n])
      <4> SUFFICES ASSUME NEW i \in 1 .. Len(q) + 1, NEW j \in 1 .. Len(q) + 1, p[n][i] = p[n][j]
                   PROVE  i = j
        BY <3>2 DEF Distinct
      <4>1. Len(q) \in Nat /\ \A a \in 1 .. Len(q) : q[a] # s[n]
        BY <2>2, <2>4, <3>2 DEF Listed
      <4>2. \A a, b \in 1 .. Len(q) : q[a] = q[b] => a = b
        BY <2>1, <3>2 DEF Distinct, q
      <4>3. \A a \in 1 .. Len(q) + 1 : a \in 1 .. Len(q) \/ a = Len(q) + 1
        BY <4>1
      <4> QED
        BY <3>2, <4>1, <4>2, <4>3
    <3>5. Len(p[n]) <= n /\ ((\E i \in 1 .. n : s[i] \notin S) => Len(p[n]) < n)
      <4>1. Len(q) \in Nat /\ n \in Nat
        BY <2>2
      <4>2. (\E i \in 1 .. n : s[i] \notin S) => \E i \in 1 .. n - 1 : s[i] \notin S
        BY <2>5
      <4> QED
        BY <2>1, <3>2, <4>1, <4>2 DEF q
    <3>6. Listed(p[n]) = {s[i] : i \in 1 .. n} \cap S
      BY <2>1, <2>3, <2>5, <3>3 DEF q
    <3> QED
      BY <3>4, <3>5, <3>6
  <2>6. CASE s[n] \notin S
    <3>1. p[n] = q
      BY <2>2, <2>6 DEF Step
    <3> HIDE DEF q
    <3>2. Listed(p[n]) = {s[i] : i \in 1 .. n} \cap S
      BY <2>1, <2>3, <2>6, <3>1 DEF q
    <3>3. Len(p[n]) \in Nat /\ Len(p[n]) <= n - 1 /\ n \in Nat
      BY <2>1, <2>2, <3>1 DEF q
    <3> QED
      BY <2>1, <3>1, <3>2, <3>3 DEF q
  <2> QED
    BY <2>5, <2>6
<1>4. 0 .. Len(s) \subseteq N
  <2> HIDE DEF N
  <2> QED
    BY <1>0, <1>2, <1>3, Induction
<1>5. Good(Len(s)) /\ p[Len(s)] \in Seq(Tokens)
  BY <1>1, <1>4 DEF Computes
<1>6. Keep(s, S) = p[Len(s)]
  BY KeepIsLastPrefix DEF p
<1>7. Listed(s) = {s[i] : i \in 1 .. Len(s)}
  BY DEF Listed
<1> HIDE DEF Good
<1>8. Good(Len(s)) => /\ Distinct(p[Len(s)])
                      /\ Listed(p[Len(s)]) = Listed(s) \cap S
                      /\ Len(p[Len(s)]) <= Len(s)
                      /\ (\E x \in Listed(s) : x \notin S) => Len(p[Len(s)]) < Len(s)
  BY <1>7 DEF Good
<1> QED
  BY <1>5, <1>6, <1>8

LEMMA PopDrops ==
  ASSUME NEW s \in Seq(Tokens), Distinct(s), NEW k \in Tokens
  PROVE  /\ PopKey(s, k) \in Seq(Tokens)
         /\ Distinct(PopKey(s, k))
         /\ Listed(PopKey(s, k)) = Listed(s) \ {k}
         /\ Len(PopKey(s, k)) <= Len(s)
         /\ k \in Listed(s) => Len(PopKey(s, k)) < Len(s)
<1>1. Listed(s) \subseteq Tokens
  BY DEF Listed
<1> QED
  BY <1>1, KeepFilters DEF PopKey

LEMMA MoveAdds ==
  ASSUME NEW s \in Seq(Tokens), Distinct(s), NEW k \in Tokens
  PROVE  /\ MoveToEnd(s, k) \in Seq(Tokens)
         /\ Distinct(MoveToEnd(s, k))
         /\ Listed(MoveToEnd(s, k)) = Listed(s) \cup {k}
         /\ Len(MoveToEnd(s, k)) <= Len(s) + 1
         /\ k \in Listed(s) => Len(MoveToEnd(s, k)) <= Len(s)
<1> DEFINE q == PopKey(s, k)
           m == Append(q, k)
<1>1. /\ q \in Seq(Tokens) /\ Distinct(q) /\ Listed(q) = Listed(s) \ {k}
      /\ Len(q) <= Len(s) /\ (k \in Listed(s) => Len(q) < Len(s))
  BY PopDrops
<1> HIDE DEF q
<1>2. /\ m \in Seq(Tokens) /\ Len(m) = Len(q) + 1 /\ Len(q) \in Nat /\ Len(s) \in Nat
      /\ DOMAIN q = 1 .. Len(q) /\ DOMAIN m = 1 .. Len(q) + 1
      /\ \A i \in 1 .. Len(q) : m[i] = q[i]
      /\ m[Len(q) + 1] = k
  BY <1>1
<1> HIDE DEF m
<1>3. Listed(m) = Listed(q) \cup {k}
  BY <1>2 DEF Listed
<1>4. Distinct(m)
  <2> SUFFICES ASSUME NEW i \in 1 .. Len(q) + 1, NEW j \in 1 .. Len(q) + 1, m[i] = m[j]
               PROVE  i = j
    BY <1>2 DEF Distinct
  <2>1. \A a \in 1 .. Len(q) : q[a] # k
    BY <1>1, <1>2 DEF Listed
  <2>2. \A a, b \in 1 .. Len(q) : q[a] = q[b] => a = b
    BY <1>1, <1>2 DEF Distinct
  <2>3. \A a \in 1 .. Len(q) + 1 : a \in 1 .. Len(q) \/ a = Len(q) + 1
    BY <1>2
  <2> QED
    BY <1>2, <2>1, <2>2, <2>3
<1>5. MoveToEnd(s, k) = m
  BY DEF MoveToEnd, m, q
<1> QED
  BY <1>1, <1>2, <1>3, <1>4, <1>5

LEMMA NewestFits ==
  ASSUME NEW s \in Seq(Tokens), Distinct(s), NEW n \in Nat
  PROVE  /\ Newest(s, n) \in Seq(Tokens)
         /\ Distinct(Newest(s, n))
         /\ Listed(Newest(s, n)) \subseteq Listed(s)
         /\ Len(Newest(s, n)) <= n
<1>1. CASE Len(s) <= n
  BY <1>1 DEF Newest
<1>2. CASE ~(Len(s) <= n)
  <2> DEFINE c == SubSeq(s, Len(s) - n + 1, Len(s))
  <2>1. /\ c \in Seq(Tokens) /\ Len(c) = n /\ DOMAIN c = 1 .. n
        /\ \A i \in 1 .. n : Len(s) - n + i \in DOMAIN s /\ c[i] = s[Len(s) - n + i]
    BY <1>2
  <2> HIDE DEF c
  <2>2. Listed(c) \subseteq Listed(s)
    BY <2>1 DEF Listed
  <2>3. Distinct(c)
    <3> SUFFICES ASSUME NEW i \in 1 .. n, NEW j \in 1 .. n, c[i] = c[j] PROVE i = j
      BY <2>1 DEF Distinct
    <3> DEFINE at(k) == Len(s) - n + k
    <3>1. at(i) \in DOMAIN s /\ at(j) \in DOMAIN s /\ s[at(i)] = s[at(j)]
      BY <2>1
    <3>2. at(i) = at(j)
      BY <3>1, Zenon DEF Distinct
    <3>3. Len(s) \in Nat /\ i \in Nat /\ j \in Nat
      OBVIOUS
    <3> QED
      BY <3>2, <3>3
  <2>4. Newest(s, n) = c
    BY <1>2 DEF Newest, c
  <2> QED
    BY <2>1, <2>2, <2>3, <2>4
<1> QED
  BY <1>1, <1>2

\* The order of a worker's cache lists its entries, each once.
Fits(entries, s) ==
  /\ s \in Seq(Tokens)
  /\ Len(s) <= MaxEntries
  /\ Listed(s) = {k \in Tokens : entries[k] # Absent}
  /\ Distinct(s)

OrderInv ==
  /\ order \in [Workers -> Seq(Tokens)]
  /\ \A w \in Workers : Fits(cache[w], order[w])

\* A hit moves its key within the order, an expired key included.
LEMMA HitFits ==
  ASSUME NEW e \in [Tokens -> Entry \cup {Absent}], NEW s, Fits(e, s),
         NEW k \in Tokens, e[k] # Absent, NEW x, x # Absent
  PROVE  Fits(e, MoveToEnd(s, k)) /\ Fits([e EXCEPT ![k] = x], MoveToEnd(s, k))
<1>1. k \in Listed(s)
  BY DEF Fits
<1>2. Len(MoveToEnd(s, k)) \in Nat /\ Len(s) \in Nat /\ Len(MoveToEnd(s, k)) <= MaxEntries
  BY <1>1, MoveAdds, NumberAssumption DEF Fits
<1>3. /\ MoveToEnd(s, k) \in Seq(Tokens) /\ Distinct(MoveToEnd(s, k))
      /\ Listed(MoveToEnd(s, k)) = Listed(s)
  BY <1>1, MoveAdds DEF Fits
<1>4. {j \in Tokens : [e EXCEPT ![k] = x][j] # Absent} = {j \in Tokens : e[j] # Absent}
  OBVIOUS
<1> QED
  BY <1>2, <1>3, <1>4 DEF Fits

\* A key that is dropped leaves the order.
LEMMA DropFits ==
  ASSUME NEW e \in [Tokens -> Entry \cup {Absent}], NEW s, Fits(e, s), NEW k \in Tokens
  PROVE  Fits([e EXCEPT ![k] = Absent], PopKey(s, k))
<1>1. Len(PopKey(s, k)) \in Nat /\ Len(s) \in Nat /\ Len(PopKey(s, k)) <= MaxEntries
  BY PopDrops, NumberAssumption DEF Fits
<1>2. {j \in Tokens : [e EXCEPT ![k] = Absent][j] # Absent} = {j \in Tokens : e[j] # Absent} \ {k}
  OBVIOUS
<1> QED
  BY <1>1, <1>2, PopDrops DEF Fits

\* An insertion leaves the newest of what is live.
LEMMA InsertFits ==
  ASSUME NEW e \in [Tokens -> Entry \cup {Absent}], NEW s, Fits(e, s), NEW k \in Tokens,
         NEW filled, NEW live \in SUBSET Tokens, \A j \in live : filled[j] # Absent,
         NEW kept, kept = Newest(Keep(MoveToEnd(s, k), live), MaxEntries)
  PROVE  Fits([j \in Tokens |-> IF j \in Listed(kept) THEN filled[j] ELSE Absent], kept)
<1> DEFINE moved == MoveToEnd(s, k)
           fresh == Keep(moved, live)
           after == [j \in Tokens |-> IF j \in Listed(kept) THEN filled[j] ELSE Absent]
<1>1. moved \in Seq(Tokens) /\ Distinct(moved)
  BY MoveAdds DEF Fits
<1> HIDE DEF moved
<1>2. fresh \in Seq(Tokens) /\ Distinct(fresh) /\ Listed(fresh) \subseteq live
  BY <1>1, KeepFilters
<1>3. kept = Newest(fresh, MaxEntries)
  BY DEF moved
<1> HIDE DEF fresh
<1>4. /\ kept \in Seq(Tokens) /\ Distinct(kept) /\ Len(kept) <= MaxEntries
      /\ Listed(kept) \subseteq live
  BY <1>2, <1>3, NewestFits, NumberAssumption
<1>5. Listed(kept) = {j \in Tokens : after[j] # Absent}
  BY <1>4
<1> QED
  BY <1>4, <1>5 DEF Fits

LEMMA InitOrder == Init => OrderInv
<1> SUFFICES ASSUME Init PROVE OrderInv
  OBVIOUS
<1>1. \A w \in Workers : order[w] = <<>> /\ \A k \in Tokens : cache[w][k] = Absent
  BY DEF Init
<1>2. <<>> \in Seq(Tokens) /\ Len(<<>>) = 0 /\ Listed(<<>>) = {} /\ Distinct(<<>>)
  BY DEF Listed, Distinct
<1>3. order \in [Workers -> Seq(Tokens)]
  BY <1>2 DEF Init
<1> QED
  BY <1>1, <1>2, <1>3, NumberAssumption DEF OrderInv, Fits

\* Only one worker's cache changes in a step, and it stays in order.
LEMMA NextOrder == TypeOK /\ OrderInv /\ [Next]_vars => OrderInv'
<1> SUFFICES ASSUME TypeOK, OrderInv, [Next]_vars PROVE OrderInv'
  OBVIOUS
<1> DEFINE Becomes(w, entries, s) ==
             /\ Fits(entries, s)
             /\ cache' = [cache EXCEPT ![w] = entries]
             /\ order' = [order EXCEPT ![w] = s]
<1>1. ASSUME NEW w \in Workers, NEW entries, NEW s, Becomes(w, entries, s)
      PROVE  OrderInv'
  <2>1. order' \in [Workers -> Seq(Tokens)]
    BY <1>1 DEF OrderInv, Fits
  <2>2. ASSUME NEW v \in Workers PROVE Fits(cache[v], order[v])'
    <3>1. CASE v = w
      <4>1. cache'[v] = entries /\ order'[v] = s
        BY <1>1, <3>1 DEF TypeOK, CachesOK, OrderInv
      <4> QED
        BY <1>1, <4>1 DEF Fits
    <3>2. CASE v # w
      <4>1. cache'[v] = cache[v] /\ order'[v] = order[v]
        BY <1>1, <3>2 DEF TypeOK, CachesOK, OrderInv
      <4> QED
        BY <4>1 DEF OrderInv, Fits
    <3> QED
      BY <3>1, <3>2
  <2> QED
    BY <2>1, <2>2 DEF OrderInv
<1>2. ASSUME UNCHANGED <<cache, order>>
      PROVE  OrderInv'
  BY <1>2 DEF OrderInv, Fits
<1>3. ASSUME NEW t \in Threads, pc[t] # "idle"
      PROVE  /\ WorkerOf[t] \in Workers /\ key[t] \in Tokens
             /\ cache[WorkerOf[t]] \in [Tokens -> Entry \cup {Absent}]
             /\ Fits(cache[WorkerOf[t]], order[WorkerOf[t]])
  BY <1>3, ServedToken DEF TypeOK, CachesOK, OrderInv
<1>4. \A w \in Workers : cache = [cache EXCEPT ![w] = cache[w]]
  BY DEF TypeOK, CachesOK
<1>5. ASSUME NEW t \in Threads, CacheHit(t) \/ CacheReject(t)
      PROVE  OrderInv'
  <2> DEFINE w == WorkerOf[t]
  <2>1. pc[t] # "idle" /\ cache[w][key[t]] # Absent
    BY <1>5 DEF CacheHit, CacheReject, Live
  <2>2. cache[w][key[t]] \in Entry
    BY <1>3, <2>1
  <2>3. Fits(cache[w], MoveToEnd(order[w], key[t]))
    BY <1>3, <2>1, HitFits
  <2>4. Becomes(w, cache[w], MoveToEnd(order[w], key[t]))
    <3>1. cache' = [cache EXCEPT ![w] = cache[w]]
      BY <1>3, <1>4, <1>5, <2>1 DEF CacheHit, CacheReject
    <3>2. order' = [order EXCEPT ![w] = MoveToEnd(order[w], key[t])]
      BY <1>5 DEF CacheHit, CacheReject
    <3> QED
      BY <2>3, <3>1, <3>2
  <2> QED
    BY <1>1, <1>3, <2>1, <2>4
<1>6. ASSUME NEW t \in Threads, CacheExpire(t)
      PROVE  OrderInv'
  <2> DEFINE w == WorkerOf[t]
             x == [principal |-> None, deadline |-> seen[t] + NegativeTTL]
             entries == [cache[w] EXCEPT ![key[t]] = x]
  <2>1. pc[t] # "idle" /\ cache[w][key[t]] # Absent
    BY <1>6 DEF CacheExpire, Live
  <2>2. x # Absent
    BY Numbers, Records DEF TypeOK, ThreadsOK
  <2>3. Fits(entries, MoveToEnd(order[w], key[t]))
    BY <1>3, <2>1, <2>2, HitFits
  <2>4. cache' = [cache EXCEPT ![w] = entries]
    BY <1>6 DEF CacheExpire
  <2>5. order' = [order EXCEPT ![w] = MoveToEnd(order[w], key[t])]
    BY <1>6 DEF CacheExpire
  <2> HIDE DEF entries
  <2> QED
    BY <1>1, <1>3, <2>1, <2>3, <2>4, <2>5
<1>7. ASSUME NEW t \in Threads, CacheMiss(t) \/ Invalidate(t)
      PROVE  OrderInv'
  <2> DEFINE w == WorkerOf[t]
             entries == [cache[w] EXCEPT ![key[t]] = Absent]
  <2>1. pc[t] # "idle"
    BY <1>7 DEF CacheMiss, Invalidate
  <2>2. Fits(entries, PopKey(order[w], key[t]))
    BY <1>3, <2>1, DropFits
  <2>3. cache' = [cache EXCEPT ![w] = entries]
    BY <1>7 DEF CacheMiss, Invalidate
  <2>4. order' = [order EXCEPT ![w] = PopKey(order[w], key[t])]
    BY <1>7 DEF CacheMiss, Invalidate
  <2> HIDE DEF entries
  <2> QED
    BY <1>1, <1>3, <2>1, <2>2, <2>3, <2>4
<1>8. ASSUME NEW t \in Threads, Remember(t)
      PROVE  OrderInv'
  <2> DEFINE w == WorkerOf[t]
             filled == [cache[w] EXCEPT ![key[t]] =
                          [principal |-> found[t], deadline |-> deadline[t]]]
             live == {k \in Tokens : Live(filled[k], now)}
             kept == Newest(Keep(MoveToEnd(order[w], key[t]), live), MaxEntries)
             entries == [k \in Tokens |-> IF k \in Listed(kept) THEN filled[k] ELSE Absent]
  <2>1. pc[t] # "idle"
    BY <1>8 DEF Remember
  <2>2. cache' = [cache EXCEPT ![w] = entries] /\ order' = [order EXCEPT ![w] = kept]
    BY <1>8 DEF Remember
  <2>3. live \in SUBSET Tokens /\ \A k \in live : filled[k] # Absent
    BY DEF Live
  <2> HIDE DEF filled, live
  <2>4. Fits(entries, kept)
    BY <1>3, <2>1, <2>3, InsertFits
  <2> HIDE DEF entries, kept
  <2> QED
    BY <1>1, <1>3, <2>1, <2>2, <2>4
<1>9. ASSUME NEW w \in Workers, Restart(w)
      PROVE  OrderInv'
  <2> DEFINE entries == [k \in Tokens |-> Absent]
  <2>1. <<>> \in Seq(Tokens) /\ Len(<<>>) = 0 /\ Listed(<<>>) = {} /\ Distinct(<<>>)
    BY DEF Listed, Distinct
  <2>2. Fits(entries, <<>>)
    BY <2>1, NumberAssumption DEF Fits
  <2>3. cache' = [cache EXCEPT ![w] = entries] /\ order' = [order EXCEPT ![w] = <<>>]
    BY <1>9 DEF Restart
  <2> HIDE DEF entries
  <2> QED
    BY <1>1, <2>2, <2>3
<1>10. ASSUME NEW t \in Threads,
              \/ \E j \in Tokens : Begin(t, j)
              \/ SelectRow(t) \/ DatabaseFails(t) \/ StampEntry(t) \/ Respond(t)
              \/ \E j \in Keys, life \in Lifetimes : CreateKey(t, j, life)
              \/ \E j \in Keys : Revoke(t, j) \/ RevokeUnacknowledged(t, j)
       PROVE  UNCHANGED <<cache, order>>
  BY <1>10 DEF Begin, SelectRow, DatabaseFails, StampEntry, Respond, CreateKey, Revoke,
               RevokeUnacknowledged
<1>11. Tick \/ UNCHANGED vars => UNCHANGED <<cache, order>>
  BY DEF Tick, vars
<1> QED
  BY <1>2, <1>5, <1>6, <1>7, <1>8, <1>9, <1>10, <1>11 DEF Next, Authenticate, Route

\* The cache of every worker stays within max_entries and its order lists each entry
\* once, for any bound and any number of keys and threads.
THEOREM CacheBoundedCorrect == Spec => []CacheBounded
<1>1. OrderInv => CacheBounded
  BY DEF OrderInv, Fits, Distinct, CacheBounded
<1> QED
  BY <1>1, InitTypeOK, NextTypeOK, InitOrder, NextOrder, PTL DEF Spec
=============================================================================
