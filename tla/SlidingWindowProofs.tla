------------------------ MODULE SlidingWindowProofs ------------------------
(***************************************************************************)
(* What pruning a list of grant times leaves, for every list.              *)
(***************************************************************************)
EXTENDS SlidingWindow, FiniteSetTheorems, WellFoundedInduction, TLAPS

(* Every non-empty set of naturals has a least element.                     *)
LEMMA LeastNatural ==
  ASSUME NEW T \in SUBSET Nat, T # {}
  PROVE  \E x \in T : \A y \in T : x <= y
  <1>1. PICK x \in T : \A y \in T : ~ (<<y, x>> \in OpToRel(<, Nat))
    BY NatLessThanWellFounded, WFMin
  <1>2. \A y \in T : ~ (y < x)
    BY <1>1 DEF OpToRel
  <1> QED BY <1>2

(* FirstFresh is defined for every list: only expired times come before it, *)
(* and the time it points at is fresh.                                      *)
LEMMA FirstFreshFacts ==
  ASSUME NEW ts \in Seq(Nat), NEW cutoff \in Int
  PROVE  LET k == FirstFresh(ts, cutoff) IN
         /\ k \in 1 .. Len(ts) + 1
         /\ k <= Len(ts) => ts[k] > cutoff
         /\ \A i \in 1 .. k - 1 : ts[i] <= cutoff
  <1> DEFINE T == {k \in 1 .. Len(ts) + 1 : k <= Len(ts) => ts[k] > cutoff}
  <1>1. T \in SUBSET Nat /\ T # {}
    <2>1. Len(ts) + 1 \in T  OBVIOUS
    <2> QED BY <2>1
  <1>2. PICK x \in T : \A y \in T : x <= y
    BY <1>1, LeastNatural
  <1>3. \A i \in 1 .. x - 1 : ts[i] <= cutoff
    <2> TAKE i \in 1 .. x - 1
    <2>1. i \notin T  BY <1>2
    <2>2. i \in 1 .. Len(ts) /\ ts[i] \in Nat  BY <1>2
    <2> QED BY <2>1, <2>2
  <1> QED BY <1>2, <1>3 DEF FirstFresh

(* The pruned list is a suffix: the times before it have left the window,   *)
(* and its first time has not.                                              *)
LEMMA PruneFacts ==
  ASSUME NEW ts \in Seq(Nat), NEW cutoff \in Int
  PROVE  LET fresh == prune(ts, cutoff)
             d == Len(ts) - Len(fresh) IN
         /\ fresh \in Seq(Nat)
         /\ d \in 0 .. Len(ts)
         /\ \A i \in 1 .. Len(fresh) : fresh[i] = ts[d + i]
         /\ \A i \in 1 .. d : ts[i] <= cutoff
         /\ Len(fresh) > 0 => fresh[1] > cutoff
  <1> DEFINE k == FirstFresh(ts, cutoff)
             fresh == prune(ts, cutoff)
  <1>1. /\ k \in 1 .. Len(ts) + 1
        /\ k <= Len(ts) => ts[k] > cutoff
        /\ \A i \in 1 .. k - 1 : ts[i] <= cutoff
    BY FirstFreshFacts
  <1>2. fresh = SubSeq(ts, k, Len(ts))
    BY DEF prune
  <1> HIDE DEF k, fresh
  <1>3. /\ fresh \in Seq(Nat)
        /\ Len(fresh) = Len(ts) - k + 1
        /\ \A i \in 1 .. Len(ts) - k + 1 : fresh[i] = ts[k + i - 1]
    BY <1>1, <1>2
  <1>4. /\ Len(ts) - Len(fresh) \in 0 .. Len(ts)
        /\ \A i \in 1 .. Len(fresh) : fresh[i] = ts[(Len(ts) - Len(fresh)) + i]
        /\ \A i \in 1 .. Len(ts) - Len(fresh) : ts[i] <= cutoff
    BY <1>1, <1>3
  <1>5. ASSUME Len(fresh) > 0 PROVE fresh[1] > cutoff
    <2>1. k <= Len(ts) /\ 1 \in 1 .. Len(ts) - k + 1 /\ k + 1 - 1 = k  BY <1>1, <1>3, <1>5
    <2>2. fresh[1] = ts[k]  BY <1>3, <2>1
    <2> QED BY <1>1, <2>1, <2>2
  <1> QED BY <1>3, <1>4, <1>5 DEF fresh

(* Grants and the list of the last of them: the list ends where the grants  *)
(* end, no window holds more than M grants, and the list is complete: the   *)
(* grants before it have left the window.                                   *)
IsTail(ts, g) ==
    Len(ts) <= Len(g) /\ \A i \in 1 .. Len(ts) : ts[i] = g[(Len(g) - Len(ts)) + i]
Spaced(g, M, W) == \A i \in 1 .. Len(g) - M : g[i + M] - g[i] >= W
Kept(ts, g, M, W, now) ==
    /\ IsTail(ts, g) /\ Len(ts) <= M
    /\ \A i \in 1 .. Len(g) - Len(ts) : g[i] + W <= now

LEMMA ElementType ==
  ASSUME NEW S, NEW s \in Seq(S), NEW i \in 1 .. Len(s)
  PROVE  s[i] \in S
  OBVIOUS

(* One more grant keeps the grants spaced if those before the last M - 1    *)
(* have left the window.                                                    *)
LEMMA SpacedAppend ==
  ASSUME NEW g \in Seq(Nat), NEW M \in Nat \ {0}, NEW W \in Nat, NEW now \in Nat, Spaced(g, M, W),
         NEW d \in Nat, d <= Len(g), Len(g) - d < M,
         \A i \in 1 .. d : g[i] + W <= now
  PROVE  Spaced(Append(g, now), M, W)
  <1> DEFINE h == Append(g, now)
  <1>1. Len(g) \in Nat /\ Len(h) = Len(g) + 1 /\ h[Len(g) + 1] = now /\ \A i \in 1 .. Len(g) : h[i] = g[i]
    OBVIOUS
  <1> HIDE DEF h
  <1>2. ASSUME NEW i \in 1 .. Len(h) - M PROVE h[i + M] - h[i] >= W
    <2>1. i \in 1 .. Len(g) /\ g[i] \in Nat
      <3>1. Len(h) \in Nat /\ Len(h) = Len(g) + 1 /\ Len(g) \in Nat  BY <1>1
      <3>2. i \in 1 .. Len(g)  BY <3>1
      <3> QED BY <3>2, ElementType
    <2>2. CASE i + M = Len(g) + 1
      <3>1. i \in 1 .. d  BY <2>2
      <3>2. h[i + M] = now /\ h[i] = g[i]  BY <1>1, <2>1, <2>2
      <3> QED BY SMTT(30), <2>1, <3>1, <3>2
    <2>3. CASE i + M # Len(g) + 1
      <3>1. i \in 1 .. Len(g) - M /\ i + M \in 1 .. Len(g)
        <4>1. i \in Int /\ 1 <= i /\ i <= (Len(g) + 1) - M  BY <1>1, <1>2
        <4>2. \A L, K \in Nat, j \in Int :
                1 <= j /\ j <= (L + 1) - K /\ j + K # L + 1 => j \in 1 .. L - K /\ j + K \in 1 .. L
          OBVIOUS
        <4> QED BY <1>1, <2>3, <4>1, <4>2
      <3>2. h[i + M] = g[i + M] /\ h[i] = g[i]  BY <1>1, <2>1, <3>1
      <3> QED BY <3>1, <3>2 DEF Spaced
    <2> QED BY <2>2, <2>3
  <1> QED BY <1>2 DEF Spaced, h

(* Appending the same grant to both lists keeps the one a tail of the other.*)
LEMMA TailAppend ==
  ASSUME NEW ts \in Seq(Nat), NEW g \in Seq(Nat), IsTail(ts, g), NEW x \in Nat
  PROVE  IsTail(Append(ts, x), Append(g, x))
  <1> DEFINE us == Append(ts, x)
             h == Append(g, x)
  <1>1. /\ Len(us) = Len(ts) + 1 /\ us[Len(ts) + 1] = x /\ \A i \in 1 .. Len(ts) : us[i] = ts[i]
        /\ Len(h) = Len(g) + 1 /\ h[Len(g) + 1] = x /\ \A i \in 1 .. Len(g) : h[i] = g[i]
    OBVIOUS
  <1> HIDE DEF us, h
  <1>2. Len(ts) <= Len(g) /\ Len(ts) \in Nat /\ Len(g) \in Nat
    BY DEF IsTail
  <1>3. ASSUME NEW i \in 1 .. Len(us) PROVE us[i] = h[(Len(h) - Len(us)) + i]
    <2>1. CASE i = Len(ts) + 1  BY <1>1, <1>2, <2>1
    <2>2. CASE i # Len(ts) + 1
      <3>1. /\ i \in 1 .. Len(ts) /\ (Len(g) - Len(ts)) + i \in 1 .. Len(g)
            /\ (Len(h) - Len(us)) + i = (Len(g) - Len(ts)) + i
        BY <1>1, <1>2, <2>2
      <3> QED BY <1>1, <3>1 DEF IsTail
    <2> QED BY <2>1, <2>2
  <1>4. IsTail(us, h)
    BY <1>1, <1>2, <1>3 DEF IsTail
  <1> QED BY <1>4 DEF us, h

(* What pruning leaves of the last grants: the last grants still, and all   *)
(* before them have left the window.                                        *)
LEMMA PruneTail ==
  ASSUME NEW ts \in Seq(Nat), NEW g \in Seq(Nat), NEW now \in Nat, NEW W \in Nat, NEW M \in Nat,
         Kept(ts, g, M, W, now)
  PROVE  LET fresh == prune(ts, now - W) IN
         /\ fresh \in Seq(Nat) /\ Kept(fresh, g, M, W, now)
         /\ Len(fresh) > 0 => fresh[1] + W > now
  <1> DEFINE fresh == prune(ts, now - W)
             e == Len(ts) - Len(fresh)
  <1>1. Len(ts) \in Nat /\ Len(g) \in Nat /\ now - W \in Int
    OBVIOUS
  <1>2. /\ fresh \in Seq(Nat) /\ e \in 0 .. Len(ts)
        /\ \A i \in 1 .. Len(fresh) : fresh[i] = ts[e + i]
        /\ \A i \in 1 .. e : ts[i] <= now - W
        /\ Len(fresh) > 0 => fresh[1] > now - W
    BY <1>1, PruneFacts
  <1>3. /\ Len(ts) <= Len(g) /\ \A i \in 1 .. Len(ts) : ts[i] = g[(Len(g) - Len(ts)) + i]
        /\ Len(ts) <= M
        /\ \A i \in 1 .. Len(g) - Len(ts) : g[i] + W <= now
    BY DEF Kept, IsTail
  <1> HIDE DEF fresh
  <1>4. Len(fresh) <= Len(ts) /\ Len(fresh) \in Nat /\ Len(ts) \in Nat /\ Len(g) \in Nat
    BY <1>1, <1>2
  <1>5. ASSUME NEW i \in 1 .. Len(fresh) PROVE fresh[i] = g[(Len(g) - Len(fresh)) + i]
    <2>1. /\ e + i \in 1 .. Len(ts)
          /\ (Len(g) - Len(ts)) + (e + i) = (Len(g) - Len(fresh)) + i
      BY <1>2, <1>4
    <2> QED BY <1>2, <1>3, <2>1
  <1>6. ASSUME NEW i \in 1 .. Len(g) - Len(fresh) PROVE g[i] + W <= now
    <2>1. CASE i <= Len(g) - Len(ts)  BY <1>3, <1>4, <2>1
    <2>2. CASE i > Len(g) - Len(ts)
      <3> DEFINE k == i - (Len(g) - Len(ts))
      <3>1. k \in 1 .. e /\ k \in 1 .. Len(ts) /\ (Len(g) - Len(ts)) + k = i
        BY SMTT(30), <1>3, <1>4, <2>2
      <3>2. ts[k] = g[i] /\ ts[k] <= now - W /\ ts[k] \in Nat
        BY <1>1, <1>2, <1>3, <3>1, ElementType
      <3>3. g[i] \in Nat /\ g[i] <= now - W  BY <3>2
      <3> HIDE DEF k, e
      <3> QED BY <1>1, <3>3
    <2> QED BY <1>4, <2>1, <2>2
  <1>7. Len(fresh) > 0 => fresh[1] + W > now
    BY <1>1, <1>2, <1>4
  <1>8. IsTail(fresh, g) /\ Len(fresh) <= M
    BY <1>1, <1>3, <1>4, <1>5 DEF IsTail
  <1> QED BY <1>2, <1>6, <1>7, <1>8 DEF fresh, Kept

(* A limiter that prunes, finds room and grants keeps what it must.         *)
LEMMA GrantKeeps ==
  ASSUME NEW ts \in Seq(Nat), NEW g \in Seq(Nat), NEW now \in Nat, NEW W \in Nat, NEW M \in Nat,
         Kept(ts, g, M, W, now), Spaced(g, M, W), Len(prune(ts, now - W)) < M
  PROVE  /\ Kept(Append(prune(ts, now - W), now), Append(g, now), M, W, now)
         /\ Spaced(Append(g, now), M, W)
  <1> DEFINE fresh == prune(ts, now - W)
             d == Len(g) - Len(fresh)
  <1>1. fresh \in Seq(Nat) /\ Kept(fresh, g, M, W, now) /\ Len(fresh) < M
    BY PruneTail
  <1> HIDE DEF fresh
  <1>2. IsTail(fresh, g) /\ \A i \in 1 .. d : g[i] + W <= now
    BY <1>1 DEF Kept
  <1>3. /\ d \in Nat /\ d <= Len(g) /\ Len(g) - d < M /\ M \in Nat \ {0}
        /\ Len(fresh) \in Nat /\ Len(g) \in Nat
    BY <1>1, <1>2 DEF IsTail
  <1>4. Spaced(Append(g, now), M, W)
    BY <1>2, <1>3, SpacedAppend
  <1>5. IsTail(Append(fresh, now), Append(g, now))
    BY <1>1, <1>2, TailAppend
  <1>6. /\ Len(Append(fresh, now)) = Len(fresh) + 1 /\ Len(Append(g, now)) = Len(g) + 1
        /\ \A i \in 1 .. d : Append(g, now)[i] = g[i]
    BY <1>1, <1>3
  <1>7. \A i \in 1 .. (Len(g) + 1) - (Len(fresh) + 1) : Append(g, now)[i] + W <= now
    <2>1. (Len(g) + 1) - (Len(fresh) + 1) = d  BY <1>3
    <2> QED BY <1>2, <1>6, <2>1
  <1>8. Len(fresh) + 1 <= M
    BY <1>1, <1>3
  <1>9. Kept(Append(fresh, now), Append(g, now), M, W, now)
    BY <1>5, <1>6, <1>7, <1>8 DEF Kept
  <1> QED BY <1>4, <1>9 DEF fresh
(* The grants that are still in the window.                                 *)
InWindow(g, t, W) == {i \in DOMAIN g : g[i] > t - W}

(* Once the first d grants have left the window, only the others count.     *)
LEMMA OthersCount ==
  ASSUME NEW g \in Seq(Nat), NEW t \in Nat, NEW W \in Nat, NEW d \in Nat, d <= Len(g),
         \A i \in 1 .. d : g[i] + W <= t
  PROVE  /\ Cardinality(InWindow(g, t, W)) \in Nat
         /\ Cardinality(InWindow(g, t, W)) <= Len(g) - d
  <1>1. Len(g) \in Nat /\ DOMAIN g = 1 .. Len(g)
    OBVIOUS
  <1>2. ASSUME NEW i \in InWindow(g, t, W) PROVE i \in d + 1 .. Len(g)
    <2>1. i \in 1 .. Len(g) /\ g[i] > t - W
      BY <1>1 DEF InWindow
    <2>2. g[i] \in Nat
      BY <2>1, ElementType
    <2>3. ~ (i \in 1 .. d)
      BY <2>1, <2>2
    <2> QED BY <1>1, <2>1, <2>3
  <1>3. IsFiniteSet(d + 1 .. Len(g)) /\ Cardinality(d + 1 .. Len(g)) = Len(g) - d
    <2> DEFINE a == d + 1
               b == Len(g)
    <2>1. a \in Int /\ b \in Int /\ a <= b + 1
      BY <1>1
    <2> HIDE DEF a, b
    <2>2. IsFiniteSet(a .. b) /\ Cardinality(a .. b) = IF a > b THEN 0 ELSE b - a + 1
      BY <2>1, FS_Interval
    <2>3. Cardinality(a .. b) = (b - a) + 1
      BY <2>1, <2>2
    <2>4. (b - a) + 1 = Len(g) - d
      BY <1>1 DEF a, b
    <2> QED BY <2>2, <2>3, <2>4 DEF a, b
  <1>4. InWindow(g, t, W) \in SUBSET (d + 1 .. Len(g))
    BY <1>2
  <1> QED BY <1>3, <1>4, FS_Subset, FS_CardinalityType

(* A limiter that finds room in its pruned list has not spent its limit.    *)
LEMMA RoomInWindow ==
  ASSUME NEW ts \in Seq(Nat), NEW g \in Seq(Nat), NEW now \in Nat, NEW W \in Nat, NEW M \in Nat,
         Kept(ts, g, M, W, now), Len(prune(ts, now - W)) < M
  PROVE  Cardinality(InWindow(g, now, W)) < M
  <1> DEFINE fresh == prune(ts, now - W)
             d == Len(g) - Len(fresh)
  <1>1. fresh \in Seq(Nat) /\ Kept(fresh, g, M, W, now) /\ Len(fresh) < M
    BY PruneTail
  <1> HIDE DEF fresh
  <1>2. Len(fresh) \in Nat /\ Len(g) \in Nat /\ d \in Nat /\ d <= Len(g)
    BY <1>1 DEF Kept, IsTail
  <1>3. \A i \in 1 .. d : g[i] + W <= now
    BY <1>1 DEF Kept
  <1> DEFINE n == Cardinality(InWindow(g, now, W))
  <1>4. n \in Nat /\ n <= Len(g) - d
    <2> HIDE DEF d
    <2> QED BY <1>2, <1>3, OthersCount
  <1> HIDE DEF n
  <1>5. n < M
    BY <1>1, <1>2, <1>4
  <1> QED BY <1>5 DEF n
=============================================================================
