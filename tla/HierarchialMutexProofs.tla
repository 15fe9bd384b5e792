----------------------- MODULE HierarchialMutexProofs -----------------------
(***************************************************************************)
(* Proofs that the hierarchy rules deadlock out, for any threads, mutexes  *)
(* and levels.  The inductive invariant IInv adds to CursorFollowsScopes   *)
(* that a mutex is owned by a thread exactly while it is in one of its     *)
(* scopes, and that a thread waits only for a mutex below its cursor.      *)
(***************************************************************************)
EXTENDS HierarchialMutex, SequenceTheorems, WellFoundedInduction, TLAPS

\* All levels a thread holds descend, not only neighbours.
Descending ==
  \A t \in Threads : \A i, j \in 1 .. Len(held[t]) :
    i < j => Level[held[t][j]] < Level[held[t][i]]

Owned ==
  \A t \in Threads : \A m \in Mutexes :
    owner[m] = t => \E i \in 1 .. Len(held[t]) : held[t][i] = m

WaitsBelow ==
  \A t \in Threads : Waiting(t) => want[t] \in Mutexes /\ Level[want[t]] < cursor[t]

IInv == TypeOK /\ CursorFollowsScopes /\ NoTerminate /\ Descending /\ Owned /\ WaitsBelow

----------------------------------------------------------------------------
\* What the invariant says of the scopes of one thread.
LEMMA HeldFacts ==
  ASSUME IInv, NEW t \in Threads
  PROVE  /\ held[t] \in Seq(Mutexes) /\ Len(held[t]) \in Nat
         /\ held[t] # <<>> <=> Len(held[t]) # 0
         /\ \A i \in 1 .. Len(held[t]) :
              /\ held[t][i] \in Mutexes
              /\ Level[held[t][i]] \in Nat
              /\ owner[held[t][i]] = t
              /\ cursor[t] <= Level[held[t][i]]
         /\ cursor[t] \in Nat
         /\ \A i, j \in 1 .. Len(held[t]) : i # j => held[t][i] # held[t][j]
<1>. DEFINE s == held[t]
<1>1. s \in Seq(Mutexes) /\ Len(s) \in Nat /\ cursor[t] \in Nat
  BY HierarchyAssumption DEF IInv, TypeOK
<1>2. \A i \in 1 .. Len(s) : s[i] \in Mutexes /\ Level[s[i]] \in Nat
  BY <1>1, HierarchyAssumption
<1>3. \A i \in 1 .. Len(s) : owner[s[i]] = t
  BY DEF IInv, CursorFollowsScopes, ScopesOf
<1>4. \A i, j \in 1 .. Len(s) : i < j => Level[s[j]] < Level[s[i]]
  BY DEF IInv, Descending
<1>5. s # <<>> <=> Len(s) # 0
  BY <1>1, EmptySeq
<1>6. s # <<>> => cursor[t] = Level[s[Len(s)]]
  BY DEF IInv, CursorFollowsScopes, ScopesOf, Innermost
<1>7. \A i \in 1 .. Len(s) : cursor[t] <= Level[s[i]]
  <2>. SUFFICES ASSUME NEW i \in 1 .. Len(s) PROVE cursor[t] <= Level[s[i]]
    OBVIOUS
  <2>1. Len(s) \in 1 .. Len(s) /\ cursor[t] = Level[s[Len(s)]]
    BY <1>1, <1>5, <1>6
  <2>2. i = Len(s) \/ i < Len(s)
    BY <1>1
  <2>. QED
    BY <1>2, <1>4, <2>1, <2>2
<1>8. \A i, j \in 1 .. Len(s) : i # j => s[i] # s[j]
  <2>. SUFFICES ASSUME NEW i \in 1 .. Len(s), NEW j \in 1 .. Len(s), i < j PROVE s[i] # s[j]
    BY <1>1
  <2>. QED
    BY <1>2, <1>4
<1>. QED
  BY <1>1, <1>2, <1>3, <1>5, <1>7, <1>8

\* A thread keeps its scopes while others lock and unlock mutexes it has not.
LEMMA OtherScopes ==
  ASSUME IInv, NEW u \in Threads, NEW m \in Mutexes, owner[m] # u,
         held'[u] = held[u], cursor'[u] = cursor[u],
         \A k \in Mutexes \ {m} : owner'[k] = owner[k] /\ previous'[k] = previous[k]
  PROVE  ScopesOf(u)'
<1>1. \A i \in 1 .. Len(held[u]) : /\ held[u][i] # m
                                  /\ owner'[held[u][i]] = owner[held[u][i]]
                                  /\ previous'[held[u][i]] = previous[held[u][i]]
  BY HeldFacts
<1>2. \A i \in 1 .. Len(held[u]) - 1 : i \in 1 .. Len(held[u]) /\ i + 1 \in 1 .. Len(held[u])
  BY HeldFacts
<1>3. held[u] # <<>> => 1 \in 1 .. Len(held[u])
  BY HeldFacts
<1>4. ScopesOf(u)
  BY DEF IInv, CursorFollowsScopes
<1>5. \A i \in 1 .. Len(held[u]) : owner'[held[u][i]] = u
  BY <1>1, <1>4 DEF ScopesOf
<1>6. \A i \in 1 .. Len(held[u]) - 1 : /\ Level[held[u][i + 1]] < Level[held[u][i]]
                                      /\ previous'[held[u][i + 1]] = Level[held[u][i]]
  BY <1>1, <1>2, <1>4 DEF ScopesOf
<1>7. held[u] # <<>> => previous'[held[u][1]] = Top
  BY <1>1, <1>3, <1>4 DEF ScopesOf
<1>8. cursor[u] = IF held[u] = <<>> THEN Top ELSE Level[held[u][Len(held[u])]]
  BY <1>4 DEF ScopesOf, Innermost
<1>. QED
  BY <1>5, <1>6, <1>7, <1>8 DEF ScopesOf, Innermost

\* A mutex enters the innermost scope: the cursor was above it.
LEMMA LockStep ==
  ASSUME IInv, NEW t \in Threads, NEW m \in Mutexes, Level[m] < cursor[t], Lock(t, m),
         todo' \in [Threads -> Nat], want' \in [Threads -> Mutexes \cup {NONE}],
         \A u \in Threads \ {t} : want'[u] = want[u]
  PROVE  IInv'
<1>. DEFINE s == held[t]
            r == held'[t]
<1>1. /\ owner[m] = NONE
      /\ owner' = [owner EXCEPT ![m] = t]
      /\ previous' = [previous EXCEPT ![m] = cursor[t]]
      /\ cursor' = [cursor EXCEPT ![t] = Level[m]]
      /\ held' = [held EXCEPT ![t] = Append(held[t], m)]
      /\ pc' = [pc EXCEPT ![t] = "run"]
  BY DEF Lock, Goto
<1>2. TypeOK'
  <2>1. cursor[t] \in 0 .. Top /\ Level[m] \in 0 .. Top /\ Append(held[t], m) \in Seq(Mutexes)
    BY HierarchyAssumption, AppendProperties DEF IInv, TypeOK
  <2>2. /\ owner' \in [Mutexes -> Threads \cup {NONE}]
        /\ previous' \in [Mutexes -> 0 .. Top]
        /\ cursor' \in [Threads -> 0 .. Top]
    BY <1>1, <2>1 DEF IInv, TypeOK
  <2>3. held' \in [Threads -> Seq(Mutexes)]
    BY <1>1, <2>1 DEF IInv, TypeOK
  <2>4. pc' \in [Threads -> {"run", "acquire", "throw", "terminate"}]
    BY <1>1 DEF IInv, TypeOK
  <2>. QED
    BY <2>2, <2>3, <2>4 DEF TypeOK
<1>3. \A u \in Threads \ {t} : held'[u] = held[u] /\ cursor'[u] = cursor[u] /\ pc'[u] = pc[u]
  BY <1>1 DEF IInv, TypeOK
<1>4. r = Append(s, m) /\ cursor'[t] = Level[m] /\ pc'[t] = "run"
  BY <1>1 DEF IInv, TypeOK
<1>5. /\ Len(s) \in Nat /\ Len(r) = Len(s) + 1
      /\ \A i \in 1 .. Len(s) : r[i] = s[i]
      /\ r[Len(s) + 1] = m
      /\ r # <<>>
  BY <1>4, HeldFacts, AppendProperties
<1>6. /\ \A k \in Mutexes \ {m} : owner'[k] = owner[k] /\ previous'[k] = previous[k]
      /\ owner'[m] = t /\ previous'[m] = cursor[t]
  BY <1>1 DEF IInv, TypeOK
<1>7. NONE \notin Threads
  BY HierarchyAssumption
<1>8. \A i \in 1 .. Len(s) : s[i] \in Mutexes \ {m} /\ Level[m] < Level[s[i]]
  <2>1. Level[m] \in Nat /\ cursor[t] \in Nat
    BY HierarchyAssumption, HeldFacts
  <2>. SUFFICES ASSUME NEW i \in 1 .. Len(s)
                PROVE  s[i] \in Mutexes \ {m} /\ Level[m] < Level[s[i]]
    OBVIOUS
  <2>2. s[i] \in Mutexes /\ Level[s[i]] \in Nat /\ owner[s[i]] = t /\ cursor[t] <= Level[s[i]]
    BY HeldFacts
  <2>. QED
    BY <1>1, <1>7, <2>1, <2>2
<1>9. Descending'
  <2>1. \A i, j \in 1 .. Len(r) : i < j => Level[r[j]] < Level[r[i]]
    <3>. SUFFICES ASSUME NEW i \in 1 .. Len(r), NEW j \in 1 .. Len(r), i < j
                  PROVE  Level[r[j]] < Level[r[i]]
      OBVIOUS
    <3>1. i \in 1 .. Len(s) /\ (j \in 1 .. Len(s) \/ j = Len(s) + 1)
      BY <1>5
    <3>. QED
      BY <1>5, <1>8, <3>1 DEF IInv, Descending
  <2>. QED
    BY <1>3, <2>1 DEF IInv, Descending
<1>10. ScopesOf(t)'
  <2>1. \A i \in 1 .. Len(r) : owner'[r[i]] = t
    <3>1. \A i \in 1 .. Len(r) : i \in 1 .. Len(s) \/ i = Len(s) + 1
      BY <1>5
    <3>2. \A i \in 1 .. Len(s) : owner'[s[i]] = t
      BY <1>6, <1>8, HeldFacts
    <3>3. \A i \in 1 .. Len(s) : owner'[r[i]] = t
      BY <1>5, <3>2
    <3>4. owner'[r[Len(s) + 1]] = t
      BY <1>5, <1>6
    <3>. QED
      BY <3>1, <3>3, <3>4
  <2>2. \A i \in 1 .. Len(r) - 1 : Level[r[i + 1]] < Level[r[i]]
    <3>. SUFFICES ASSUME NEW i \in 1 .. Len(r) - 1 PROVE Level[r[i + 1]] < Level[r[i]]
      OBVIOUS
    <3>1. i \in 1 .. Len(r) /\ i + 1 \in 1 .. Len(r) /\ i < i + 1
      BY <1>5
    <3>. QED
      BY <1>9, <3>1 DEF Descending
  <2>3. \A i \in 1 .. Len(r) - 1 : previous'[r[i + 1]] = Level[r[i]]
    <3>. SUFFICES ASSUME NEW i \in 1 .. Len(s) PROVE previous'[r[i + 1]] = Level[r[i]]
      BY <1>5
    <3>1. CASE i = Len(s)
      <4>1. s # <<>> /\ cursor[t] = Level[s[Len(s)]]
        BY HeldFacts, <3>1 DEF IInv, CursorFollowsScopes, ScopesOf, Innermost
      <4>. QED
        BY <1>5, <1>6, <3>1, <4>1
    <3>2. CASE i < Len(s)
      <4>1. i \in 1 .. Len(s) - 1 /\ i + 1 \in 1 .. Len(s)
        BY <1>5, <3>2
      <4>2. previous[s[i + 1]] = Level[s[i]]
        BY <4>1 DEF IInv, CursorFollowsScopes, ScopesOf
      <4>. QED
        <5>1. r[i + 1] = s[i + 1] /\ r[i] = s[i]
          BY <1>5, <3>2, <4>1
        <5>2. s[i + 1] \in Mutexes \ {m}
          BY <1>8, <4>1
        <5>. QED
          BY <1>6, <4>2, <5>1, <5>2
    <3>. QED
      BY <1>5, <3>1, <3>2
  <2>4. previous'[r[1]] = Top
    <3>1. CASE s = <<>>
      <4>1. cursor[t] = Top /\ Len(s) = 0
        BY <3>1, HeldFacts DEF IInv, CursorFollowsScopes, ScopesOf
      <4>. QED
        BY <1>5, <1>6, <4>1
    <3>2. CASE s # <<>>
      <4>1. previous[s[1]] = Top /\ 1 \in 1 .. Len(s)
        BY <3>2, HeldFacts DEF IInv, CursorFollowsScopes, ScopesOf
      <4>. QED
        BY <1>5, <1>6, <1>8, <4>1
    <3>. QED
      BY <3>1, <3>2
  <2>5. cursor'[t] = Level[r[Len(r)]]
    BY <1>4, <1>5
  <2>. QED
    BY <1>5, <2>1, <2>2, <2>3, <2>4, <2>5 DEF ScopesOf, Innermost
<1>11. CursorFollowsScopes'
  <2>1. ASSUME NEW u \in Threads \ {t} PROVE ScopesOf(u)'
    BY <1>1, <1>3, <1>6, <1>7, OtherScopes
  <2>. QED
    BY <1>10, <2>1 DEF CursorFollowsScopes
<1>12. Owned'
  <2>1. \A k \in Mutexes : owner'[k] = t => \E i \in 1 .. Len(r) : r[i] = k
    <3>. SUFFICES ASSUME NEW k \in Mutexes, owner'[k] = t PROVE \E i \in 1 .. Len(r) : r[i] = k
      OBVIOUS
    <3>1. CASE k = m
      <4>1. Len(s) + 1 \in 1 .. Len(r)
        BY <1>5
      <4>. QED
        BY <1>5, <3>1, <4>1
    <3>2. CASE k # m
      <4>1. PICK i \in 1 .. Len(s) : s[i] = k
        BY <1>6, <3>2 DEF IInv, Owned
      <4>2. i \in 1 .. Len(r)
        BY <1>5
      <4>. QED
        BY <1>5, <4>1, <4>2
    <3>. QED
      BY <3>1, <3>2
  <2>2. \A u \in Threads \ {t} : \A k \in Mutexes : owner'[k] = u => owner[k] = u
    BY <1>6
  <2>. QED
    BY <1>3, <2>1, <2>2, SMTT(30) DEF IInv, Owned
<1>13. NoTerminate' /\ WaitsBelow'
  BY <1>3, <1>4 DEF IInv, NoTerminate, WaitsBelow, Waiting
<1>. QED
  BY <1>2, <1>9, <1>11, <1>12, <1>13 DEF IInv

\* The innermost scope ends: the cursor goes back to the level around it.
LEMMA UnlockStep ==
  ASSUME IInv, NEW t \in Threads, Unlock(t)
  PROVE  IInv'
<1>. DEFINE s == held[t]
            n == Len(held[t])
            m == held[t][n]
            r == held'[t]
<1>1. s \in Seq(Mutexes) /\ n \in Nat \ {0} /\ n \in 1 .. n /\ s # <<>>
  BY HeldFacts DEF Unlock
<1>2. m \in Mutexes /\ cursor[t] = Level[m] /\ owner[m] = t
  BY <1>1, HeldFacts DEF IInv, CursorFollowsScopes, ScopesOf, Innermost
<1>3. /\ owner' = [owner EXCEPT ![m] = NONE]
      /\ cursor' = [cursor EXCEPT ![t] = previous[m]]
      /\ held' = [held EXCEPT ![t] = SubSeq(held[t], 1, n - 1)]
      /\ UNCHANGED <<previous, pc, want, todo>>
      /\ pc[t] \in {"run", "throw"}
  BY <1>2 DEF Unlock, Innermost, Restored
<1>4. /\ r = SubSeq(s, 1, n - 1) /\ cursor'[t] = previous[m]
      /\ \A u \in Threads \ {t} : held'[u] = held[u] /\ cursor'[u] = cursor[u]
      /\ \A k \in Mutexes \ {m} : owner'[k] = owner[k]
      /\ owner'[m] = NONE
  BY <1>2, <1>3 DEF IInv, TypeOK
<1>5. /\ r \in Seq(Mutexes) /\ Len(r) = n - 1
      /\ \A i \in 1 .. n - 1 : r[i] = s[i]
  <2>1. n - 1 \in Int /\ \A i \in 1 .. n - 1 : s[i] \in Mutexes
    BY <1>1, HeldFacts
  <2>2. /\ SubSeq(s, 1, n - 1) \in Seq(Mutexes)
        /\ Len(SubSeq(s, 1, n - 1)) = IF 1 <= n - 1 THEN n - 1 - 1 + 1 ELSE 0
        /\ \A i \in 1 .. n - 1 - 1 + 1 : SubSeq(s, 1, n - 1)[i] = s[1 + i - 1]
    BY <2>1, SubSeqProperties
  <2>. QED
    BY <1>1, <1>4, <2>2
<1>6. TypeOK'
  <2>1. owner' \in [Mutexes -> Threads \cup {NONE}]
    BY <1>2, <1>3 DEF IInv, TypeOK
  <2>2. cursor' \in [Threads -> 0 .. Top]
    BY <1>2, <1>3 DEF IInv, TypeOK
  <2>3. held' \in [Threads -> Seq(Mutexes)]
    BY <1>3, <1>5 DEF IInv, TypeOK
  <2>4. UNCHANGED <<previous, pc, want, todo>>
    BY <1>3
  <2>. QED
    BY <2>1, <2>2, <2>3, <2>4 DEF IInv, TypeOK
<1>7. \A i \in 1 .. n - 1 : i \in 1 .. n /\ s[i] \in Mutexes \ {m}
  BY <1>1, HeldFacts
<1>8. Descending'
  <2>1. \A i, j \in 1 .. Len(r) : i < j => Level[r[j]] < Level[r[i]]
    <3>1. \A i, j \in 1 .. n : i < j => Level[s[j]] < Level[s[i]]
      BY DEF IInv, Descending
    <3>. SUFFICES ASSUME NEW i \in 1 .. n - 1, NEW j \in 1 .. n - 1, i < j
                  PROVE  Level[r[j]] < Level[r[i]]
      BY <1>5
    <3>2. r[i] = s[i] /\ r[j] = s[j] /\ i \in 1 .. n /\ j \in 1 .. n
      BY <1>5, <1>7
    <3>. QED
      BY <3>1, <3>2
  <2>2. \A u \in Threads \ {t} : \A i, j \in 1 .. Len(held'[u]) :
          i < j => Level[held'[u][j]] < Level[held'[u][i]]
    BY <1>4 DEF IInv, Descending
  <2>. QED
    BY <2>1, <2>2 DEF Descending
<1>9. ScopesOf(t)'
  <2>1. \A i \in 1 .. Len(r) : owner'[r[i]] = t
    BY <1>4, <1>5, <1>7, HeldFacts
  <2>2. \A i \in 1 .. Len(r) - 1 : /\ Level[r[i + 1]] < Level[r[i]]
                                   /\ previous'[r[i + 1]] = Level[r[i]]
    <3>. SUFFICES ASSUME NEW i \in 1 .. n - 2
                  PROVE  Level[r[i + 1]] < Level[r[i]] /\ previous[r[i + 1]] = Level[r[i]]
      BY <1>1, <1>3, <1>5
    <3>1. i \in 1 .. n - 1 /\ i + 1 \in 1 .. n - 1
      BY <1>1
    <3>2. Level[s[i + 1]] < Level[s[i]] /\ previous[s[i + 1]] = Level[s[i]]
      BY <3>1 DEF IInv, CursorFollowsScopes, ScopesOf
    <3>. QED
      BY <1>5, <3>1, <3>2
  <2>3. r # <<>> <=> n # 1
    <3>1. Len(r) = 0 <=> r = <<>>
      BY <1>5, EmptySeq
    <3>. QED
      BY <1>1, <1>5, <3>1
  <2>4. r # <<>> => previous'[r[1]] = Top
    BY <1>1, <1>3, <1>5, <2>3 DEF IInv, CursorFollowsScopes, ScopesOf
  <2>5. CASE n = 1
    BY <1>1, <1>4, <2>1, <2>2, <2>3, <2>4, <2>5 DEF IInv, CursorFollowsScopes, ScopesOf, Innermost
  <2>6. CASE n # 1
    <3>1. n - 1 \in 1 .. n - 1 /\ (n - 1) + 1 = n
      <4>1. \A k \in Nat \ {0} : k # 1 => k - 1 \in 1 .. k - 1 /\ (k - 1) + 1 = k
        OBVIOUS
      <4>. QED
        BY <1>1, <2>6, <4>1
    <3>2. previous[s[n]] = Level[s[n - 1]]
      BY <3>1 DEF IInv, CursorFollowsScopes, ScopesOf
    <3>. QED
      BY <1>4, <1>5, <2>1, <2>2, <2>3, <2>4, <2>6, <3>1, <3>2 DEF ScopesOf, Innermost
  <2>. QED
    BY <2>5, <2>6
<1>10. CursorFollowsScopes'
  <2>1. ASSUME NEW u \in Threads \ {t} PROVE ScopesOf(u)'
    BY <1>2, <1>3, <1>4, OtherScopes
  <2>. QED
    BY <1>9, <2>1 DEF CursorFollowsScopes
<1>11. Owned'
  <2>1. \A k \in Mutexes : owner'[k] = t => \E i \in 1 .. Len(r) : r[i] = k
    <3>. SUFFICES ASSUME NEW k \in Mutexes, owner'[k] = t PROVE \E i \in 1 .. Len(r) : r[i] = k
      OBVIOUS
    <3>1. k # m
      BY <1>4, HierarchyAssumption
    <3>2. PICK i \in 1 .. n : s[i] = k
      BY <1>4, <3>1 DEF IInv, Owned
    <3>3. i \in 1 .. n - 1
      BY <1>1, <3>1, <3>2
    <3>. QED
      BY <1>5, <3>2, <3>3
  <2>2. \A u \in Threads \ {t} : \A k \in Mutexes : owner'[k] = u => owner[k] = u
    BY <1>4, HierarchyAssumption
  <2>3. \A u \in Threads \ {t} : \A k \in Mutexes :
          owner'[k] = u => \E i \in 1 .. Len(held'[u]) : held'[u][i] = k
    BY <1>4, <2>2 DEF IInv, Owned
  <2>. QED
    BY <2>1, <2>3 DEF Owned
<1>12. NoTerminate' /\ WaitsBelow'
  BY <1>3, <1>4 DEF IInv, NoTerminate, WaitsBelow, Waiting
<1>. QED
  BY <1>6, <1>8, <1>10, <1>11, <1>12 DEF IInv

\* The steps that lock and unlock nothing.
LEMMA OtherStep ==
  ASSUME IInv, NEW t \in Threads,
         \/ \E m \in Mutexes : LockCall(t, m) \/ TryLockFails(t, m) \/ LockThrows(t, m)
         \/ Catch(t)
  PROVE  IInv'
<1>1. UNCHANGED <<owner, previous, cursor, held>>
  BY DEF LockCall, TryLockFails, LockThrows, Catch, mutex
<1>2. CursorFollowsScopes' /\ Descending' /\ Owned'
  BY <1>1 DEF IInv, CursorFollowsScopes, ScopesOf, Innermost, Descending, Owned
<1>3. /\ todo' \in [Threads -> Nat]
      /\ want' \in [Threads -> Mutexes \cup {NONE}]
      /\ pc' \in [Threads -> {"run", "acquire", "throw", "terminate"}]
      /\ \A u \in Threads : pc'[u] = "terminate" => pc[u] = "terminate"
      /\ \A u \in Threads \ {t} : pc'[u] = pc[u] /\ want'[u] = want[u]
  <2>1. CASE Catch(t)
    BY <2>1 DEF Catch, Wants, Goto, IInv, TypeOK
  <2>2. ASSUME NEW m \in Mutexes, LockCall(t, m) \/ TryLockFails(t, m) \/ LockThrows(t, m)
        PROVE  <1>3!1 /\ <1>3!2 /\ <1>3!3 /\ <1>3!4 /\ <1>3!5
    <3>1. todo' = [todo EXCEPT ![t] = todo[t] - 1] /\ todo[t] > 0
      BY <2>2 DEF LockCall, TryLockFails, LockThrows, Call
    <3>2. todo' \in [Threads -> Nat]
      <4>1. todo \in [Threads -> Nat] /\ todo[t] - 1 \in Nat
        BY <3>1 DEF IInv, TypeOK
      <4>. QED
        BY <3>1, <4>1
    <3>3. want' = want \/ want' = [want EXCEPT ![t] = m]
      BY <2>2 DEF LockCall, TryLockFails, LockThrows, Wants
    <3>4. pc' = pc \/ pc' = [pc EXCEPT ![t] = "acquire"] \/ pc' = [pc EXCEPT ![t] = "throw"]
      BY <2>2 DEF LockCall, TryLockFails, LockThrows, Goto
    <3>. QED
      BY <3>2, <3>3, <3>4 DEF IInv, TypeOK
  <2>. QED
    BY <2>1, <2>2
<1>4. TypeOK' /\ NoTerminate'
  BY <1>1, <1>3 DEF IInv, TypeOK, NoTerminate
<1>5. pc'[t] = "acquire" => want'[t] \in Mutexes /\ Level[want'[t]] < cursor[t]
  <2>1. ASSUME NEW m \in Mutexes, LockCall(t, m) PROVE want'[t] = m /\ Level[m] < cursor[t]
    BY <2>1, HierarchyAssumption DEF LockCall, Violates, Wants, IInv, TypeOK
  <2>2. ASSUME NEW m \in Mutexes, TryLockFails(t, m) \/ LockThrows(t, m) PROVE pc'[t] # "acquire"
    BY <2>2 DEF TryLockFails, LockThrows, Call, Goto, IInv, TypeOK
  <2>3. CASE Catch(t)
    BY <2>3 DEF Catch, Goto, IInv, TypeOK
  <2>. QED
    BY <2>1, <2>2, <2>3
<1>6. WaitsBelow'
  BY <1>1, <1>3, <1>5 DEF IInv, WaitsBelow, Waiting
<1>. QED
  BY <1>2, <1>4, <1>6 DEF IInv

LEMMA InitIInv == Init => IInv
<1>. SUFFICES ASSUME Init PROVE IInv
  OBVIOUS
<1>1. \A t \in Threads : held[t] = <<>> /\ Len(held[t]) = 0 /\ cursor[t] = Top /\ pc[t] = "run"
  BY DEF Init
<1>2. TypeOK
  <2>1. <<>> \in Seq(Mutexes) /\ Top \in 0 .. Top /\ 0 \in 0 .. Top
    BY HierarchyAssumption
  <2>. QED
    BY <2>1, HierarchyAssumption DEF Init, TypeOK
<1>3. CursorFollowsScopes
  BY <1>1 DEF CursorFollowsScopes, ScopesOf
<1>4. NoTerminate /\ Descending /\ WaitsBelow
  BY <1>1 DEF NoTerminate, Descending, WaitsBelow, Waiting
<1>5. Owned
  BY HierarchyAssumption DEF Init, Owned
<1>. QED
  BY <1>2, <1>3, <1>4, <1>5 DEF IInv

LEMMA IInvStep == IInv /\ [Next]_vars => IInv'
<1>. SUFFICES ASSUME IInv, [Next]_vars PROVE IInv'
  OBVIOUS
<1>1. CASE UNCHANGED vars
  BY <1>1 DEF IInv, TypeOK, CursorFollowsScopes, ScopesOf, Innermost, NoTerminate, Descending, Owned,
              WaitsBelow, Waiting, vars, mutex
<1>2. ASSUME NEW t \in Threads, Acquire(t) PROVE IInv'
  <2>1. want[t] \in Mutexes /\ Level[want[t]] < cursor[t]
    BY <1>2 DEF Acquire, IInv, WaitsBelow, Waiting
  <2>. QED
    BY <1>2, <2>1, LockStep, HierarchyAssumption DEF Acquire, Wants, IInv, TypeOK
<1>3. ASSUME NEW t \in Threads, NEW m \in Mutexes, TryLock(t, m) PROVE IInv'
  <2>1. Level[m] < cursor[t]
    BY <1>3, HierarchyAssumption DEF TryLock, Violates, IInv, TypeOK
  <2>2. todo' \in [Threads -> Nat] /\ want' = want /\ Lock(t, m)
    BY <1>3 DEF TryLock, Call, IInv, TypeOK
  <2>. QED
    BY <2>1, <2>2, LockStep DEF IInv, TypeOK
<1>. QED
  BY <1>1, <1>2, <1>3, UnlockStep, OtherStep DEF Next, Step, Ended

THEOREM Invariance == Spec => []IInv
BY InitIInv, IInvStep, PTL DEF Spec

\* Every variable always holds a value of its C++ type.
THEOREM TypeCorrect == Spec => []TypeOK
BY Invariance, PTL DEF IInv

\* The cursor is the level of the innermost scope that is still open, whatever
\* scopes the threads open and whatever exceptions leave them.
THEOREM CursorInStep == Spec => []CursorFollowsScopes
BY Invariance, PTL DEF IInv

\* Hence lock_guards that nest never make unlock throw (line 33).
THEOREM UnlocksNeverThrow == Spec => []NoTerminate
BY Invariance, PTL DEF IInv

\* The hierarchy keeps any number of threads from waiting in a circle: of any
\* set of threads that wait for each other, the one that wants the lowest
\* level wants a mutex whose holder's cursor is no higher than that.
THEOREM DeadlockFree == Spec => []NoDeadlock
<1>1. IInv => NoDeadlock
  <2>. SUFFICES ASSUME IInv, NEW S \in SUBSET Threads, S # {},
                       \A t \in S : Waiting(t) /\ owner[want[t]] \in S
                PROVE  FALSE
    BY DEF NoDeadlock
  <2>. DEFINE wanted == {Level[want[t]] : t \in S}
              below  == {ss \in Nat \X Nat : ss[1] < ss[2]}
  <2>1. \A t \in S : want[t] \in Mutexes /\ Level[want[t]] < cursor[t] /\ Level[want[t]] \in Nat
    BY HierarchyAssumption DEF IInv, WaitsBelow
  <2>2. wanted \subseteq Nat /\ wanted # {}
    BY <2>1
  <2>3. IsWellFoundedOn(below, Nat)
    BY NatLessThanWellFounded DEF OpToRel
  <2>4. PICK l \in wanted : \A k \in wanted : <<k, l>> \notin below
    BY <2>2, <2>3, WFMin
  <2>5. PICK t \in S : l = Level[want[t]]
    OBVIOUS
  <2>6. PICK u \in S : owner[want[t]] = u
    OBVIOUS
  <2>7. cursor[u] <= Level[want[t]]
    <3>1. u \in Threads /\ want[t] \in Mutexes
      BY <2>1, <2>6
    <3>2. PICK i \in 1 .. Len(held[u]) : held[u][i] = want[t]
      BY <2>6, <3>1 DEF IInv, Owned
    <3>3. \A j \in 1 .. Len(held[u]) : cursor[u] <= Level[held[u][j]]
      BY <3>1, HeldFacts
    <3>. QED
      BY <3>2, <3>3
  <2>8. Level[want[u]] < Level[want[t]]
    <3>1. u \in S /\ u \in Threads
      BY <2>6
    <3>2. cursor[u] \in Nat /\ Level[want[u]] \in Nat /\ Level[want[t]] \in Nat
      BY <2>1, <3>1, HeldFacts
    <3>3. Level[want[u]] < cursor[u]
      BY <2>1, <3>1
    <3>. QED
      BY <2>7, <3>2, <3>3
  <2>9. <<Level[want[u]], l>> \in below
    BY <2>1, <2>5, <2>8
  <2>. QED
    BY <2>4, <2>9
<1>. QED
  BY <1>1, Invariance, PTL
=============================================================================
