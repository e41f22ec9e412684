-------------------------- MODULE LoginLimiterProofs --------------------------
(* What the limiters keep whatever the number of requests, addresses and accounts. *)
EXTENDS LoginLimiter, FiniteSetTheorems, TLAPS

-----------------------------------------------------------------------------
(* The inductive invariant *)

\* What a limiter knows at time t of a key with these attempts.  The live window began
\* with an attempt and has counted those since; before it, and where there is none,
\* the last window as long as this one has left room for one attempt more.
Accounted(m, k, recent, limit, t) ==
    LET age == t - m[k].start
        last == recent[Window - 1]
    IN  /\ \A a, b \in Ages : a <= b => recent[a] <= recent[b]
        /\ k \in LiveKeys(m, t) =>
              /\ m[k].count = recent[age]
              /\ age > 0 => recent[age - 1] < recent[age]
              /\ last - recent[age] < limit
        /\ k \notin LiveKeys(m, t) => recent[0] = 0 /\ last < limit

\* What was forgotten of its attempts.  Where nothing was, all are accounted for; where
\* something was, less than twice the limit the first time and the limit at most each
\* time after, and what came since is all in the live window.
Settled(m, k, history, limit, t) ==
    \A a \in Ages :
        LET past == history.passed[a] - history.since[a]
        IN  /\ history.forgotten[a] = 0 => past = 0
            /\ history.forgotten[a] > 0 =>
                  /\ past < (history.forgotten[a] + 1) * limit
                  /\ k \in LiveKeys(m, t) => history.since[a] = m[k].count
                  /\ k \notin LiveKeys(m, t) => history.since[a] = 0

Known(m, k, history, limit, t) ==
    /\ Accounted(m, k, history.since, limit, t)
    /\ Settled(m, k, history, limit, t)

\* A limiter of these keys at time t: no more entries than there is room for.
Bounded(m, keys, limit, t) ==
    /\ DOMAIN m \subseteq keys
    /\ m = [k \in DOMAIN m |-> m[k]]
    /\ \A k \in DOMAIN m : m[k] \in [count : 1..limit, start : 0..t]
    /\ IsFiniteSet(DOMAIN m)
    /\ Cardinality(DOMAIN m) <= MaxEntries

\* Both limiters are bounded, and account for every key there is.
LimiterInv ==
    /\ TypeOK
    /\ Bounded(source, Sources, SourceLimit, now)
    /\ Bounded(login, Keys, LoginLimit, now)
    /\ \A s \in Sources : Known(source, s, sourceChecks[s], SourceLimit, now)
    /\ \A k \in Keys : Known(login, k, loginChecks[k], LoginLimit, now)

-----------------------------------------------------------------------------

\* A bounded limiter with room for k.
RoomFor(m, keys, limit, t, k) ==
    /\ Bounded(m, keys, limit, t)
    /\ k \in DOMAIN m \/ Cardinality(DOMAIN m) < MaxEntries

\* A limiter that forgets some keys is as bounded as before.
LEMMA RestrictBounded ==
    ASSUME NEW m, NEW keys, NEW limit, NEW t, NEW D,
           Bounded(m, keys, limit, t), D \subseteq DOMAIN m
    PROVE  /\ Bounded(Restrict(m, D), keys, limit, t)
           /\ DOMAIN Restrict(m, D) = D
           /\ Cardinality(D) \in Nat
           /\ Cardinality(D) <= Cardinality(DOMAIN m)
<1>1. /\ IsFiniteSet(D)
      /\ Cardinality(D) <= Cardinality(DOMAIN m)
  BY FS_Subset DEF Bounded
<1>2. Cardinality(D) \in Nat /\ Cardinality(DOMAIN m) \in Nat
  BY <1>1, FS_CardinalityType DEF Bounded
<1>3. Cardinality(D) <= MaxEntries
  BY <1>1, <1>2, LimiterAssumptions DEF Bounded
<1> QED BY <1>1, <1>2, <1>3 DEF Bounded, Restrict

\* Making room for a key leaves room for it.
LEMMA EvictMakesRoom ==
    ASSUME NEW m, NEW keys, NEW limit, NEW t, NEW k,
           Bounded(m, keys, limit, t)
    PROVE  \A e \in Evict(m, k, t) : RoomFor(e, keys, limit, t, k)
<1> SUFFICES ASSUME NEW e \in Evict(m, k, t)
             PROVE  RoomFor(e, keys, limit, t, k)
  OBVIOUS
<1> DEFINE live == LiveKeys(m, t)
<1>1. live \subseteq DOMAIN m
  BY DEF LiveKeys
<1>2. CASE k \in DOMAIN m \/ Cardinality(DOMAIN m) < MaxEntries
  BY <1>2 DEF Evict, RoomFor
<1>3. CASE /\ ~(k \in DOMAIN m \/ Cardinality(DOMAIN m) < MaxEntries)
           /\ Cardinality(live) < MaxEntries
  <2>1. e = Restrict(m, live)
    BY <1>3 DEF Evict
  <2> QED BY <1>1, <1>3, <2>1, RestrictBounded DEF RoomFor
<1>4. CASE /\ ~(k \in DOMAIN m \/ Cardinality(DOMAIN m) < MaxEntries)
           /\ ~(Cardinality(live) < MaxEntries)
  <2>1. PICK old \in Oldest(m, t) : e = Restrict(m, live \ {old})
    BY <1>4 DEF Evict
  <2>2. old \in live
    BY DEF Oldest
  <2>3. /\ Bounded(e, keys, limit, t)
        /\ DOMAIN e = live \ {old}
    <3>1. live \ {old} \subseteq DOMAIN m
      BY <1>1
    <3> QED BY <2>1, <3>1, RestrictBounded
  <2>4. /\ IsFiniteSet(live)
        /\ Cardinality(live) \in Nat
        /\ Cardinality(live) <= MaxEntries
    <3>1. IsFiniteSet(live) /\ Cardinality(live) <= Cardinality(DOMAIN m)
      BY <1>1, FS_Subset DEF Bounded
    <3>2. Cardinality(live) \in Nat /\ Cardinality(DOMAIN m) \in Nat
      BY <3>1, FS_CardinalityType DEF Bounded
    <3> QED BY <3>1, <3>2, LimiterAssumptions DEF Bounded
  <2>5. Cardinality(live \ {old}) = Cardinality(live) - 1
    BY <2>2, <2>4, FS_RemoveElement
  <2>6. Cardinality(DOMAIN e) < MaxEntries
    BY <2>3, <2>4, <2>5, LimiterAssumptions
  <2> QED BY <2>3, <2>6 DEF RoomFor
<1> QED BY <1>2, <1>3, <1>4

\* Counting an attempt there is room and allowance for keeps the limiter bounded.
LEMMA CountedBounded ==
    ASSUME NEW m, NEW keys, NEW limit \in Nat \ {0}, NEW t \in Nat, NEW k \in keys,
           RoomFor(m, keys, limit, t, k), Allowed(m, k, t, limit)
    PROVE  Bounded(Counted(m, k, t), keys, limit, t)
<1> DEFINE a == Attempt(m, k, t)
           new == [a EXCEPT !.count = @ + 1]
<1>1. /\ a \in [count : 0..limit, start : 0..t]
      /\ a.count < limit
  <2>1. a.count < limit
    BY DEF Allowed
  <2>2. CASE k \in DOMAIN m /\ Live(m[k], t)
    <3>1. a = m[k] /\ m[k] \in [count : 1..limit, start : 0..t]
      BY <2>2 DEF Attempt, RoomFor, Bounded
    <3> QED BY <2>1, <3>1
  <2>3. CASE ~(k \in DOMAIN m /\ Live(m[k], t))
    <3>1. a = [count |-> 0, start |-> t]
      BY <2>3 DEF Attempt
    <3> QED BY <2>1, <3>1
  <2> QED BY <2>2, <2>3
<1>2. new \in [count : 1..limit, start : 0..t]
  BY <1>1
<1> HIDE DEF a, new
<1>3. Counted(m, k, t) = [l \in DOMAIN m \cup {k} |-> IF l = k THEN new ELSE m[l]]
  BY DEF Counted, Put, a, new
<1>4. /\ IsFiniteSet(DOMAIN m)
      /\ Cardinality(DOMAIN m) \in Nat
  BY FS_CardinalityType DEF RoomFor, Bounded
<1>5. /\ IsFiniteSet(DOMAIN m \cup {k})
      /\ Cardinality(DOMAIN m \cup {k}) <= MaxEntries
  <2>1. CASE k \in DOMAIN m
    <3>1. DOMAIN m \cup {k} = DOMAIN m
      BY <2>1
    <3> QED BY <1>4, <3>1 DEF RoomFor, Bounded
  <2>2. CASE k \notin DOMAIN m
    <3>1. /\ IsFiniteSet(DOMAIN m \cup {k})
          /\ Cardinality(DOMAIN m \cup {k}) = Cardinality(DOMAIN m) + 1
      BY <1>4, <2>2, FS_AddElement
    <3> QED BY <1>4, <2>2, <3>1, LimiterAssumptions DEF RoomFor
  <2> QED BY <2>1, <2>2
<1> QED BY <1>2, <1>3, <1>5 DEF RoomFor, Bounded

\* Whatever Allow answers, the limiter it leaves is bounded.
LEMMA AllowBounded ==
    ASSUME NEW m, NEW keys, NEW limit \in Nat \ {0}, NEW t \in Nat, NEW k \in keys,
           Bounded(m, keys, limit, t)
    PROVE  \A answer \in Allow(m, k, t, limit) :
               /\ Bounded(answer.limiter, keys, limit, t)
               /\ answer.ok \in BOOLEAN
<1> SUFFICES ASSUME NEW answer \in Allow(m, k, t, limit)
             PROVE  /\ Bounded(answer.limiter, keys, limit, t)
                    /\ answer.ok \in BOOLEAN
  OBVIOUS
<1>1. PICK e \in Evict(m, k, t) :
          answer = IF Allowed(e, k, t, limit)
                   THEN [ok |-> TRUE,  limiter |-> Counted(e, k, t)]
                   ELSE [ok |-> FALSE, limiter |-> e]
  BY DEF Allow
<1>2. RoomFor(e, keys, limit, t, k)
  BY EvictMakesRoom
<1>3. CASE Allowed(e, k, t, limit)
  <2>1. Bounded(Counted(e, k, t), keys, limit, t)
    BY <1>2, <1>3, CountedBounded
  <2> QED BY <1>1, <1>3, <2>1
<1>4. CASE ~Allowed(e, k, t, limit)
  <2>1. Bounded(e, keys, limit, t)
    BY <1>2 DEF RoomFor
  <2> QED BY <1>1, <1>4, <2>1
<1> QED BY <1>3, <1>4

-----------------------------------------------------------------------------
(* What a limiter accounts for *)

\* A key that is not live and has no attempts is accounted for.
LEMMA NeverAccounted ==
    ASSUME NEW m, NEW k, NEW limit \in Nat \ {0}, NEW t \in Nat, k \notin LiveKeys(m, t)
    PROVE  Accounted(m, k, None, limit, t)
<1>1. 0 \in Ages /\ Window - 1 \in Ages
  BY LimiterAssumptions DEF Ages
<1> QED
  BY <1>1 DEF Accounted, None

\* What a limiter knows of a key depends on its entry only.
LEMMA EntryAccounted ==
    ASSUME NEW m, NEW e, NEW k, NEW recent, NEW limit, NEW t,
           Accounted(m, k, recent, limit, t),
           k \in LiveKeys(e, t) <=> k \in LiveKeys(m, t),
           k \in LiveKeys(e, t) => e[k] = m[k]
    PROVE  Accounted(e, k, recent, limit, t)
  BY DEF Accounted

\* What there is to show of a key with a live entry, and of one without.
LEMMA LiveAccounted ==
    ASSUME NEW m, NEW k, NEW recent, NEW limit, NEW t \in Nat, NEW age \in Nat,
           k \in LiveKeys(m, t), age = t - m[k].start,
           \A a, b \in Ages : a <= b => recent[a] <= recent[b],
           m[k].count = recent[age],
           age > 0 => recent[age - 1] < recent[age],
           recent[Window - 1] - recent[age] < limit
    PROVE  Accounted(m, k, recent, limit, t)
  BY Zenon DEF Accounted

LEMMA DeadAccounted ==
    ASSUME NEW m, NEW k, NEW recent, NEW limit, NEW t,
           k \notin LiveKeys(m, t),
           \A a, b \in Ages : a <= b => recent[a] <= recent[b],
           recent[0] = 0, recent[Window - 1] < limit
    PROVE  Accounted(m, k, recent, limit, t)
  BY Zenon DEF Accounted

\* An attempt that is allowed is counted, in the live window or as the first of a new one.
LEMMA AttemptAccounted ==
    ASSUME NEW m, NEW keys, NEW k \in keys, NEW recent \in [Ages -> Nat],
           NEW limit \in Nat \ {0}, NEW t \in Nat,
           Bounded(m, keys, limit, t), Accounted(m, k, recent, limit, t)
    PROVE  Accounted(Counted(m, k, t), k, [a \in Ages |-> recent[a] + 1], limit, t)
<1> DEFINE e == Counted(m, k, t)
           more == [a \in Ages |-> recent[a] + 1]
<1>1. /\ 0 \in Ages /\ Window - 1 \in Ages
      /\ \A a \in Ages : more[a] = recent[a] + 1 /\ recent[a] \in Nat
      /\ \A a \in Ages : a > 0 => a - 1 \in Ages
  BY LimiterAssumptions DEF Ages
<1>2. \A a, b \in Ages : a <= b => more[a] <= more[b]
  BY <1>1 DEF Accounted
<1>3. e[k] = [Attempt(m, k, t) EXCEPT !.count = @ + 1] /\ k \in DOMAIN e
  BY DEF Counted, Put
<1>4. CASE k \in LiveKeys(m, t)
  <2>1. m[k] \in [count : 1..limit, start : 0..t] /\ t - m[k].start < Window
    BY <1>4 DEF LiveKeys, Live, Bounded
  <2>2. /\ e[k].start = m[k].start /\ e[k].count = m[k].count + 1
        /\ t - m[k].start \in Ages
    BY <1>3, <1>4, <2>1, LimiterAssumptions DEF Attempt, LiveKeys, Live, Ages
  <2>3. k \in LiveKeys(e, t)
    BY <1>3, <2>1, <2>2 DEF LiveKeys, Live
  <2> DEFINE age == t - m[k].start
  <2>4. /\ m[k].count = recent[age]
        /\ age > 0 => recent[age - 1] < recent[age]
        /\ recent[Window - 1] - recent[age] < limit
    BY <1>4 DEF Accounted
  <2>5. /\ e[k].count = more[age]
        /\ age > 0 => more[age - 1] < more[age]
        /\ more[Window - 1] - more[age] < limit
    <3> HIDE DEF e, more, age
    <3> QED
      BY <1>1, <2>2, <2>4 DEF age
  <2>6. age = t - e[k].start /\ age \in Nat
    BY <2>2 DEF Ages
  <2> HIDE DEF e, more, age
  <2>7. Accounted(e, k, more, limit, t)
    BY <1>2, <2>3, <2>5, <2>6, LiveAccounted
  <2> QED
    BY <2>7 DEF e, more
<1>5. CASE k \notin LiveKeys(m, t)
  <2>1. e[k] = [count |-> 1, start |-> t]
    BY <1>3, <1>5 DEF Attempt, LiveKeys
  <2>2. k \in LiveKeys(e, t)
    BY <1>3, <2>1, LimiterAssumptions DEF LiveKeys, Live
  <2>3. recent[0] = 0 /\ recent[Window - 1] < limit
    BY <1>5 DEF Accounted
  <2>4. t - e[k].start = 0
    BY <2>1
  <2>5. e[k].count = more[0] /\ more[Window - 1] - more[0] < limit
    BY <1>1, <2>1, <2>3
  <2> HIDE DEF e, more
  <2> QED
    BY <1>2, <2>2, <2>4, <2>5, LiveAccounted DEF e, more
<1> QED
  BY <1>4, <1>5

\* A tick makes attempts older; a window that ends leaves out its first attempt.
LEMMA TickAccounted ==
    ASSUME NEW m, NEW keys, NEW k \in keys, NEW recent \in [Ages -> Nat],
           NEW limit \in Nat \ {0}, NEW t \in Nat,
           Bounded(m, keys, limit, t), Accounted(m, k, recent, limit, t)
    PROVE  Accounted(m, k, [a \in Ages |-> IF a = 0 THEN 0 ELSE recent[a - 1]], limit, t + 1)
<1> DEFINE older == [a \in Ages |-> IF a = 0 THEN 0 ELSE recent[a - 1]]
           age == t - m[k].start
<1>1. /\ Window \in Nat \ {0} /\ 0 \in Ages /\ Window - 1 \in Ages
      /\ \A a \in Ages : recent[a] \in Nat /\ older[a] \in Nat
      /\ older[0] = 0
      /\ \A a \in Ages : a > 0 => a - 1 \in Ages /\ older[a] = recent[a - 1]
      /\ \A a : a \in Ages <=> a \in Nat /\ a < Window
  BY LimiterAssumptions DEF Ages
<1>2. \A a, b \in Ages : a <= b => recent[a] <= recent[b]
  BY DEF Accounted
<1> HIDE DEF older
<1>3. \A a, b \in Ages : a <= b => older[a] <= older[b]
  BY <1>1, <1>2
<1>4. older[Window - 1] <= recent[Window - 1]
  BY <1>1, <1>2
<1>5. CASE k \in LiveKeys(m, t)
  <2>1. m[k] \in [count : 1..limit, start : 0..t]
    BY <1>5 DEF LiveKeys, Bounded
  <2>2. /\ age \in Ages /\ m[k].count \in 1..limit
        /\ m[k].count = recent[age]
        /\ age > 0 => recent[age - 1] < recent[age]
        /\ recent[Window - 1] - recent[age] < limit
    BY <1>1, <1>5, <2>1 DEF LiveKeys, Live, Accounted
  <2>3. k \in LiveKeys(m, t + 1) <=> age + 1 < Window
    BY <1>5, <2>1 DEF LiveKeys, Live
  <2>4. t + 1 - m[k].start = age + 1
    BY <2>1
  <2> HIDE DEF age
  <2>5. CASE age + 1 < Window
    <3>1. PICK next \in Ages : next = age + 1
      BY <1>1, <2>2, <2>5
    <3>2. /\ m[k].count = older[next]
          /\ older[next - 1] < older[next]
          /\ older[Window - 1] - older[next] < limit
      <4>1. older[next] = recent[age]
        BY <1>1, <2>2, <3>1
      <4>2. older[age] < recent[age]
        BY <1>1, <2>2
      <4>3. next - 1 = age
        BY <1>1, <2>2, <3>1
      <4> QED
        BY <1>1, <1>4, <2>2, <4>1, <4>2, <4>3
    <3>3. PICK u \in Nat : u = t + 1
      OBVIOUS
    <3>4. next \in Nat /\ next = u - m[k].start /\ k \in LiveKeys(m, u)
      BY <1>1, <2>1, <2>2, <2>3, <2>4, <2>5, <3>1, <3>3
    <3>5. Accounted(m, k, older, limit, u)
      BY <1>3, <3>2, <3>4, LiveAccounted
    <3> QED
      BY <3>3, <3>5 DEF older
  <2>6. CASE ~(age + 1 < Window)
    <3>1. age = Window - 1
      BY <1>1, <2>2, <2>6
    <3>2. older[Window - 1] < limit
      BY <1>1, <2>2, <3>1
    <3> QED
      BY <1>1, <1>3, <2>3, <2>6, <3>2, DeadAccounted DEF older
  <2> QED
    BY <2>5, <2>6
<1>6. CASE k \notin LiveKeys(m, t)
  <2>1. k \notin LiveKeys(m, t + 1)
    <3>1. CASE k \notin DOMAIN m
      BY <3>1 DEF LiveKeys
    <3>2. CASE k \in DOMAIN m
      <4>1. m[k].start \in 0..t /\ ~(t - m[k].start < Window)
        BY <1>6, <3>2 DEF Bounded, LiveKeys, Live
      <4> QED
        BY <1>1, <4>1 DEF LiveKeys, Live
    <3> QED
      BY <3>1, <3>2
  <2>2. older[Window - 1] < limit
    BY <1>1, <1>4, <1>6 DEF Accounted
  <2> QED
    BY <1>1, <1>3, <2>1, <2>2, DeadAccounted DEF older
<1> QED
  BY <1>5, <1>6

\* What is accounted for stays under twice the limit in the last window: at most the
\* limit since the live window began, and less than it before.
LEMMA AccountedSlides ==
    ASSUME NEW m, NEW keys, NEW k \in keys, NEW recent \in [Ages -> Nat],
           NEW limit \in Nat \ {0}, NEW t \in Nat,
           Bounded(m, keys, limit, t), Accounted(m, k, recent, limit, t)
    PROVE  \A a \in Ages : recent[a] < 2 * limit
<1>1. Window - 1 \in Ages /\ \A a \in Ages : a <= Window - 1
  BY LimiterAssumptions DEF Ages
<1>2. recent[Window - 1] \in Nat
  BY <1>1
<1>3. recent[Window - 1] < 2 * limit
  <2>1. CASE k \in LiveKeys(m, t)
    <3>1. m[k].count \in 1..limit
      BY <2>1 DEF LiveKeys, Bounded
    <3>2. recent[Window - 1] - m[k].count < limit
      BY <2>1 DEF Accounted
    <3> QED BY <1>2, <3>1, <3>2
  <2>2. CASE k \notin LiveKeys(m, t)
    BY <1>2, <2>2 DEF Accounted
  <2> QED BY <2>1, <2>2
<1>4. \A a \in Ages : recent[a] \in Nat /\ recent[a] <= recent[Window - 1]
  BY <1>1 DEF Accounted
<1> QED BY <1>2, <1>3, <1>4

-----------------------------------------------------------------------------
(* The history of a key, step by step *)

\* The histories keep their types.
LEMMA HistoryTypes ==
    /\ Never \in History
    /\ \A h \in History : Pass(h) \in History /\ Forget(h) \in History /\ Age(h) \in History
<1>1. None \in Counts
  BY DEF None, Counts
<1>2. \A c \in Counts : OneMore(c) \in Counts
  BY DEF OneMore, Counts
<1>3. \A c \in Counts : Aged(c) \in Counts
  <2>1. \A a \in Ages : a # 0 => a - 1 \in Ages
    BY LimiterAssumptions DEF Ages
  <2> QED BY <2>1 DEF Aged, Counts
<1> QED BY <1>1, <1>2, <1>3 DEF Never, Pass, Forget, Age, History

\* Before there is an entry.
LEMMA KnownNever ==
    ASSUME NEW m, NEW k, NEW limit \in Nat \ {0}, NEW t \in Nat, k \notin LiveKeys(m, t)
    PROVE  Known(m, k, Never, limit, t)
<1>1. Accounted(m, k, Never.since, limit, t)
  BY NeverAccounted DEF Never
<1>2. Settled(m, k, Never, limit, t)
  BY DEF Settled, Never, None
<1> QED BY <1>1, <1>2 DEF Known

\* As long as the entry stays as it is.
LEMMA KnownEntry ==
    ASSUME NEW m, NEW e, NEW k, NEW h, NEW limit, NEW t,
           Known(m, k, h, limit, t),
           k \in LiveKeys(e, t) <=> k \in LiveKeys(m, t),
           k \in LiveKeys(e, t) => e[k] = m[k]
    PROVE  Known(e, k, h, limit, t)
<1>1. Accounted(e, k, h.since, limit, t)
  BY EntryAccounted DEF Known
<1>2. Settled(e, k, h, limit, t)
  BY DEF Known, Settled
<1> QED BY <1>1, <1>2 DEF Known

\* An attempt that is let through.
LEMMA KnownPass ==
    ASSUME NEW m, NEW keys, NEW k \in keys, NEW h \in History,
           NEW limit \in Nat \ {0}, NEW t \in Nat,
           Bounded(m, keys, limit, t), Known(m, k, h, limit, t)
    PROVE  Known(Counted(m, k, t), k, Pass(h), limit, t)
<1> DEFINE e == Counted(m, k, t)
<1>1. /\ h.since \in [Ages -> Nat] /\ h.passed \in [Ages -> Nat]
      /\ h.forgotten \in [Ages -> Nat]
      /\ Pass(h).since = [a \in Ages |-> h.since[a] + 1]
      /\ Pass(h).passed = [a \in Ages |-> h.passed[a] + 1]
      /\ Pass(h).forgotten = h.forgotten
  BY DEF History, Counts, Pass, OneMore
<1>2. Accounted(e, k, Pass(h).since, limit, t)
  BY <1>1, AttemptAccounted DEF Known
<1>3. /\ k \in LiveKeys(e, t)
      /\ k \in LiveKeys(m, t) => e[k].count = m[k].count + 1
      /\ k \notin LiveKeys(m, t) => e[k].count = 1
  <2>1. e[k] = [Attempt(m, k, t) EXCEPT !.count = @ + 1] /\ k \in DOMAIN e
    BY DEF Counted, Put
  <2>2. CASE k \in LiveKeys(m, t)
    <3>1. m[k] \in [count : 1..limit, start : 0..t] /\ t - m[k].start < Window
      BY <2>2 DEF LiveKeys, Live, Bounded
    <3>2. e[k].start = m[k].start /\ e[k].count = m[k].count + 1
      BY <2>1, <2>2, <3>1 DEF Attempt, LiveKeys
    <3> QED BY <2>1, <2>2, <3>1, <3>2 DEF LiveKeys, Live
  <2>3. CASE k \notin LiveKeys(m, t)
    <3>1. e[k] = [count |-> 1, start |-> t]
      BY <2>1, <2>3 DEF Attempt, LiveKeys
    <3> QED BY <2>1, <2>3, <3>1, LimiterAssumptions DEF LiveKeys, Live
  <2> QED BY <2>2, <2>3
<1>4. Settled(m, k, h, limit, t)
  BY DEF Known
<1> HIDE DEF e
<1>5. Settled(e, k, Pass(h), limit, t)
  <2> SUFFICES ASSUME NEW a \in Ages
               PROVE  LET past == Pass(h).passed[a] - Pass(h).since[a]
                      IN  /\ Pass(h).forgotten[a] = 0 => past = 0
                          /\ Pass(h).forgotten[a] > 0 =>
                                /\ past < (Pass(h).forgotten[a] + 1) * limit
                                /\ Pass(h).since[a] = e[k].count
    BY <1>3 DEF Settled
  <2>1. /\ Pass(h).passed[a] - Pass(h).since[a] = h.passed[a] - h.since[a]
        /\ Pass(h).since[a] = h.since[a] + 1
    BY <1>1
  <2>2. h.forgotten[a] > 0 => h.since[a] + 1 = e[k].count
    <3>1. CASE k \in LiveKeys(m, t)
      BY <1>3, <1>4, <3>1 DEF Settled
    <3>2. CASE k \notin LiveKeys(m, t)
      BY <1>3, <1>4, <3>2 DEF Settled
    <3> QED BY <3>1, <3>2
  <2> QED BY <1>1, <1>4, <2>1, <2>2 DEF Settled
<1> QED BY <1>2, <1>5 DEF Known, e

\* What a history has let through since a live entry was forgotten last, and in all.
LEMMA SettledSlides ==
    ASSUME NEW m, NEW keys, NEW k \in keys, NEW h \in History,
           NEW limit \in Nat \ {0}, NEW t \in Nat,
           Bounded(m, keys, limit, t), Known(m, k, h, limit, t), NEW a \in Ages
    PROVE  h.passed[a] < (2 + h.forgotten[a]) * limit
<1>1. /\ h.since \in [Ages -> Nat]
      /\ h.passed[a] \in Nat /\ h.since[a] \in Nat /\ h.forgotten[a] \in Nat
  BY DEF History, Counts
<1>2. CASE h.forgotten[a] = 0
  <2>1. h.passed[a] = h.since[a]
    BY <1>1, <1>2 DEF Known, Settled
  <2>2. h.since[a] < 2 * limit
    BY <1>1, AccountedSlides DEF Known
  <2> QED BY <1>2, <2>1, <2>2
<1>3. CASE h.forgotten[a] > 0
  <2>1. h.passed[a] - h.since[a] < (h.forgotten[a] + 1) * limit
    BY <1>3 DEF Known, Settled
  <2>2. h.since[a] <= limit
    <3>1. CASE k \in LiveKeys(m, t)
      <4>1. h.since[a] = m[k].count
        BY <1>3, <3>1 DEF Known, Settled
      <4> QED BY <3>1, <4>1 DEF LiveKeys, Bounded
    <3>2. CASE k \notin LiveKeys(m, t)
      BY <1>3, <3>2 DEF Known, Settled
    <3> QED BY <3>1, <3>2
  <2>3. (h.forgotten[a] + 1) * limit + limit = (2 + h.forgotten[a]) * limit
    BY <1>1
  <2>4. (h.forgotten[a] + 1) * limit \in Nat /\ (2 + h.forgotten[a]) * limit \in Nat
    BY <1>1
  <2> QED BY <1>1, <2>1, <2>2, <2>3, <2>4
<1> QED BY <1>1, <1>2, <1>3

\* A live entry that is forgotten.
LEMMA KnownForget ==
    ASSUME NEW m, NEW keys, NEW e, NEW k \in keys, NEW h \in History,
           NEW limit \in Nat \ {0}, NEW t \in Nat,
           Bounded(m, keys, limit, t), Known(m, k, h, limit, t), k \notin LiveKeys(e, t)
    PROVE  Known(e, k, Forget(h), limit, t)
<1>1. /\ Forget(h).since = None /\ Forget(h).passed = h.passed
      /\ \A a \in Ages : Forget(h).forgotten[a] = h.forgotten[a] + 1
      /\ \A a \in Ages : h.forgotten[a] \in Nat /\ h.passed[a] \in Nat /\ None[a] = 0
  BY DEF History, Counts, Forget, OneMore, None
<1>2. Accounted(e, k, Forget(h).since, limit, t)
  BY <1>1, NeverAccounted
<1>3. Settled(e, k, Forget(h), limit, t)
  <2> SUFFICES ASSUME NEW a \in Ages
               PROVE  h.passed[a] < (h.forgotten[a] + 1 + 1) * limit
    BY <1>1 DEF Settled
  <2>1. h.passed[a] < (2 + h.forgotten[a]) * limit
    BY SettledSlides
  <2>2. 2 + h.forgotten[a] = h.forgotten[a] + 1 + 1
    BY <1>1
  <2> QED BY <2>1, <2>2
<1> QED BY <1>2, <1>3 DEF Known

\* A tick.
LEMMA KnownAged ==
    ASSUME NEW m, NEW keys, NEW k \in keys, NEW h \in History,
           NEW limit \in Nat \ {0}, NEW t \in Nat,
           Bounded(m, keys, limit, t), Known(m, k, h, limit, t)
    PROVE  Known(m, k, Age(h), limit, t + 1)
<1>1. /\ h.since \in [Ages -> Nat] /\ h.passed \in [Ages -> Nat]
      /\ h.forgotten \in [Ages -> Nat]
      /\ Age(h).since = [a \in Ages |-> IF a = 0 THEN 0 ELSE h.since[a - 1]]
      /\ Age(h).passed = [a \in Ages |-> IF a = 0 THEN 0 ELSE h.passed[a - 1]]
      /\ Age(h).forgotten = [a \in Ages |-> IF a = 0 THEN 0 ELSE h.forgotten[a - 1]]
  BY DEF History, Counts, Age, Aged
<1>2. Accounted(m, k, Age(h).since, limit, t + 1)
  BY <1>1, TickAccounted DEF Known
<1>3. \A a \in Ages : a # 0 => a - 1 \in Ages
  BY LimiterAssumptions DEF Ages
<1>4. k \in LiveKeys(m, t + 1) => k \in LiveKeys(m, t)
  <2>1. k \in DOMAIN m => m[k].start \in 0..t
    BY DEF Bounded
  <2> QED BY <2>1, LimiterAssumptions DEF LiveKeys, Live
<1>5. ASSUME NEW b \in Ages, b + 1 \in Ages, h.forgotten[b] > 0, k \in LiveKeys(m, t)
      PROVE  k \in LiveKeys(m, t + 1)
  <2> DEFINE age == t - m[k].start
  <2>1. m[k] \in [count : 1..limit, start : 0..t] /\ age < Window /\ k \in DOMAIN m
    BY <1>5 DEF LiveKeys, Live, Bounded
  <2>2. age \in Ages
    BY <2>1, LimiterAssumptions DEF Ages
  <2>3. /\ m[k].count = h.since[age]
        /\ age > 0 => h.since[age - 1] < h.since[age]
        /\ h.since[b] = m[k].count
        /\ \A c, d \in Ages : c <= d => h.since[c] <= h.since[d]
    BY <1>5 DEF Known, Accounted, Settled
  <2>4. age + 1 < Window
    <3> SUFFICES ASSUME age = Window - 1 PROVE FALSE
      BY <2>1, <2>2, LimiterAssumptions DEF Ages
    <3>1. age > 0 /\ age - 1 \in Ages /\ b <= age - 1
      BY <1>5, <2>2, LimiterAssumptions DEF Ages
    <3> HIDE DEF age
    <3>2. h.since[b] \in Nat /\ h.since[age] \in Nat /\ h.since[age - 1] \in Nat
      BY <1>1, <2>2, <3>1
    <3> QED BY <2>3, <3>1, <3>2
  <2> QED BY <2>1, <2>4 DEF LiveKeys, Live
<1>6. Settled(m, k, Age(h), limit, t + 1)
  <2> SUFFICES ASSUME NEW a \in Ages
               PROVE  LET past == Age(h).passed[a] - Age(h).since[a]
                      IN  /\ Age(h).forgotten[a] = 0 => past = 0
                          /\ Age(h).forgotten[a] > 0 =>
                                /\ past < (Age(h).forgotten[a] + 1) * limit
                                /\ k \in LiveKeys(m, t + 1) => Age(h).since[a] = m[k].count
                                /\ k \notin LiveKeys(m, t + 1) => Age(h).since[a] = 0
    BY DEF Settled
  <2>1. CASE a = 0
    BY <1>1, <2>1
  <2>2. CASE a # 0
    <3>1. PICK b \in Ages : b = a - 1 /\ b + 1 = a
      BY <1>3, <2>2 DEF Ages
    <3>2. /\ Age(h).passed[a] = h.passed[b] /\ Age(h).since[a] = h.since[b]
          /\ Age(h).forgotten[a] = h.forgotten[b]
      BY <1>1, <2>2, <3>1
    <3>3. h.forgotten[b] > 0 => (k \in LiveKeys(m, t + 1) <=> k \in LiveKeys(m, t))
      BY <1>4, <1>5, <3>1
    <3>4. Settled(m, k, h, limit, t)
      BY DEF Known
    <3> QED BY <3>2, <3>3, <3>4 DEF Settled
  <2> QED BY <2>1, <2>2
<1> QED BY <1>2, <1>6 DEF Known

-----------------------------------------------------------------------------
(* The histories of a limiter *)

\* Making room keeps entries as they are, and does not touch the key it is for.
LEMMA EvictKeeps ==
    ASSUME NEW m, NEW k, NEW t, NEW e \in Evict(m, k, t)
    PROVE  /\ DOMAIN e \subseteq DOMAIN m
           /\ \A l \in DOMAIN e : e[l] = m[l]
           /\ k \in DOMAIN e <=> k \in DOMAIN m
<1>1. LiveKeys(m, t) \subseteq DOMAIN m
  BY DEF LiveKeys
<1>2. CASE e = m
  BY <1>2
<1>3. CASE k \notin DOMAIN m /\ \E D \in SUBSET LiveKeys(m, t) : e = Restrict(m, D)
  BY <1>1, <1>3 DEF Restrict
<1> QED
  BY <1>2, <1>3 DEF Evict

\* Whatever Allow answers, it leaves what is known of every key.
LEMMA AllowKnown ==
    ASSUME NEW m, NEW keys, NEW checks \in [keys -> History], NEW limit \in Nat \ {0},
           NEW t \in Nat, NEW k \in keys, NEW answer \in Allow(m, k, t, limit),
           Bounded(m, keys, limit, t),
           \A l \in keys : Known(m, l, checks[l], limit, t)
    PROVE  \A l \in keys :
               Known(answer.limiter, l,
                     Note(checks, m, answer.limiter, Passing(answer, k), t)[l], limit, t)
<1> DEFINE next == Note(checks, m, answer.limiter, Passing(answer, k), t)
<1> SUFFICES ASSUME NEW l \in keys
             PROVE  Known(answer.limiter, l, next[l], limit, t)
  OBVIOUS
<1>1. PICK e \in Evict(m, k, t) :
          answer = IF Allowed(e, k, t, limit)
                   THEN [ok |-> TRUE,  limiter |-> Counted(e, k, t)]
                   ELSE [ok |-> FALSE, limiter |-> e]
  BY DEF Allow
<1>2. /\ DOMAIN e \subseteq DOMAIN m
      /\ \A x \in DOMAIN e : e[x] = m[x]
      /\ k \in DOMAIN e <=> k \in DOMAIN m
  BY EvictKeeps
<1>3. Bounded(e, keys, limit, t)
  BY EvictMakesRoom DEF RoomFor
<1>4. /\ DOMAIN answer.limiter = IF answer.ok THEN DOMAIN e \cup {k} ELSE DOMAIN e
      /\ \A x \in DOMAIN e : x # k \/ ~answer.ok => answer.limiter[x] = m[x]
      /\ answer.ok => answer.limiter = Counted(e, k, t)
      /\ answer.ok \in BOOLEAN
  BY <1>1, <1>2 DEF Counted, Put
<1>5. CASE l \in LiveKeys(m, t) \ DOMAIN answer.limiter
  <2>1. next[l] = Forget(checks[l])
    BY <1>5 DEF Note
  <2>2. l \notin LiveKeys(answer.limiter, t)
    BY <1>5 DEF LiveKeys
  <2> HIDE DEF next
  <2> QED
    BY <2>1, <2>2, KnownForget
<1>6. CASE l \notin LiveKeys(m, t) \ DOMAIN answer.limiter /\ l = k /\ answer.ok
  <2>1. next[l] = Pass(checks[k])
    BY <1>6 DEF Note, Passing
  <2>2. Known(e, k, checks[k], limit, t)
    <3>1. k \in LiveKeys(e, t) <=> k \in LiveKeys(m, t)
      BY <1>2 DEF LiveKeys
    <3> QED
      BY <1>2, <3>1, KnownEntry DEF LiveKeys
  <2> HIDE DEF next
  <2> QED
    BY <1>3, <1>4, <1>6, <2>1, <2>2, KnownPass
<1>7. CASE l \notin LiveKeys(m, t) \ DOMAIN answer.limiter /\ ~(l = k /\ answer.ok)
  <2>1. next[l] = checks[l]
    BY <1>4, <1>7 DEF Note, Passing
  <2>2. l \in DOMAIN answer.limiter => l \in DOMAIN e /\ answer.limiter[l] = m[l]
    BY <1>4, <1>7
  <2>3. l \in LiveKeys(answer.limiter, t) <=> l \in LiveKeys(m, t)
    BY <1>2, <1>7, <2>2 DEF LiveKeys
  <2> HIDE DEF next
  <2> QED
    BY <2>1, <2>2, <2>3, KnownEntry DEF LiveKeys
<1> QED
  BY <1>5, <1>6, <1>7

\* Forgetting a key leaves what is known of every key, whether it was live or not.
LEMMA ForgetKnown ==
    ASSUME NEW m, NEW keys, NEW checks \in [keys -> History], NEW limit \in Nat \ {0},
           NEW t \in Nat, NEW k \in keys, Bounded(m, keys, limit, t),
           \A l \in keys : Known(m, l, checks[l], limit, t)
    PROVE  \A l \in keys :
               Known(Restrict(m, DOMAIN m \ {k}), l,
                     Note(checks, m, Restrict(m, DOMAIN m \ {k}), {}, t)[l], limit, t)
<1> DEFINE e == Restrict(m, DOMAIN m \ {k})
           next == Note(checks, m, e, {}, t)
<1> SUFFICES ASSUME NEW l \in keys
             PROVE  Known(e, l, next[l], limit, t)
  OBVIOUS
<1>1. DOMAIN e = DOMAIN m \ {k} /\ \A x \in DOMAIN e : e[x] = m[x]
  BY DEF Restrict
<1>2. next[l] = IF l \in LiveKeys(m, t) \ DOMAIN e THEN Forget(checks[l]) ELSE checks[l]
  BY DEF Note
<1> HIDE DEF e, next
<1>3. CASE l \in LiveKeys(m, t) \ DOMAIN e
  <2>1. l \notin LiveKeys(e, t)
    BY <1>3 DEF LiveKeys
  <2> QED BY <1>2, <1>3, <2>1, KnownForget
<1>4. CASE l \notin LiveKeys(m, t) \ DOMAIN e
  <2>1. l \in LiveKeys(e, t) <=> l \in LiveKeys(m, t)
    BY <1>1, <1>4 DEF LiveKeys
  <2>2. l \in LiveKeys(e, t) => e[l] = m[l]
    BY <1>1 DEF LiveKeys
  <2> QED BY <1>2, <1>4, <2>1, <2>2, KnownEntry
<1> QED BY <1>3, <1>4

\* The histories of the keys after a tick.
LEMMA OlderKnown ==
    ASSUME NEW keys, NEW checks \in [keys -> History], NEW m,
           NEW limit \in Nat \ {0}, NEW t \in Nat,
           Bounded(m, keys, limit, t),
           \A k \in keys : Known(m, k, checks[k], limit, t)
    PROVE  \A k \in keys : Known(m, k, Older(checks)[k], limit, t + 1)
<1> SUFFICES ASSUME NEW k \in keys
             PROVE  Known(m, k, Older(checks)[k], limit, t + 1)
  OBVIOUS
<1>1. Older(checks)[k] = Age(checks[k])
  BY DEF Older
<1> QED BY <1>1, KnownAged

-----------------------------------------------------------------------------
(* The inductive invariant *)

LEMMA InvInit == Init => LimiterInv
<1> SUFFICES ASSUME Init PROVE LimiterInv
  OBVIOUS
<1>1. now = 0 /\ DOMAIN source = {} /\ DOMAIN login = {}
  BY DEF Init
<1>2. source = [k \in DOMAIN source |-> source[k]] /\ login = [k \in DOMAIN login |-> login[k]]
  BY DEF Init
<1>3. IsFiniteSet({}) /\ Cardinality({}) = 0
  BY FS_EmptySet
<1>4. Never \in History
  BY HistoryTypes
<1>5. TypeOK
  BY <1>1, <1>4 DEF Init, TypeOK, Entries
<1>6. /\ \A s \in Sources : Known(source, s, sourceChecks[s], SourceLimit, now)
      /\ \A k \in Keys : Known(login, k, loginChecks[k], LoginLimit, now)
  <2>1. /\ \A s \in Sources : s \notin LiveKeys(source, now) /\ sourceChecks[s] = Never
        /\ \A k \in Keys : k \notin LiveKeys(login, now) /\ loginChecks[k] = Never
    BY <1>1 DEF Init, LiveKeys
  <2>2. SourceLimit \in Nat \ {0} /\ LoginLimit \in Nat \ {0}
    BY LimiterAssumptions
  <2>3. ASSUME NEW s \in Sources
        PROVE  Known(source, s, sourceChecks[s], SourceLimit, now)
    <3>1. Known(source, s, Never, SourceLimit, now)
      BY <1>1, <2>1, <2>2, KnownNever
    <3> QED BY <2>1, <3>1
  <2>4. ASSUME NEW k \in Keys
        PROVE  Known(login, k, loginChecks[k], LoginLimit, now)
    <3>1. Known(login, k, Never, LoginLimit, now)
      BY <1>1, <2>1, <2>2, KnownNever
    <3> QED BY <2>1, <3>1
  <2> QED BY <2>3, <2>4
<1>7. /\ Bounded(source, Sources, SourceLimit, now)
      /\ Bounded(login, Keys, LoginLimit, now)
  BY <1>1, <1>2, <1>3, LimiterAssumptions DEF Bounded
<1> QED BY <1>5, <1>6, <1>7 DEF LimiterInv

\* The histories of all keys keep their types.
LEMMA ChecksTypes ==
    ASSUME NEW keys, NEW checks \in [keys -> History], NEW m, NEW next, NEW passing, NEW t
    PROVE  /\ Note(checks, m, next, passing, t) \in [keys -> History]
           /\ Older(checks) \in [keys -> History]
  BY HistoryTypes DEF Note, Older

\* Every step of the limiters keeps the invariant.
LEMMA InvNext == LimiterInv /\ [Next]_vars => LimiterInv'
<1> SUFFICES ASSUME LimiterInv, [Next]_vars PROVE LimiterInv'
  OBVIOUS
<1> USE DEF LimiterInv
<1> DEFINE Stages == {Idle} \cup [stage : {"admitted", "checking"}, key : Keys]
<1>0. /\ now \in Nat
      /\ request \in [Requests -> Stages]
      /\ sourceChecks \in [Sources -> History]
      /\ loginChecks \in [Keys -> History]
      /\ SourceLimit \in Nat \ {0}
      /\ LoginLimit \in Nat \ {0}
  BY LimiterAssumptions DEF TypeOK
<1>7. ASSUME now' \in Nat,
             request' \in [Requests -> Stages],
             sourceChecks' \in [Sources -> History],
             loginChecks' \in [Keys -> History],
             Bounded(source', Sources, SourceLimit, now'),
             Bounded(login', Keys, LoginLimit, now'),
             \A s \in Sources : Known(source', s, sourceChecks'[s], SourceLimit, now'),
             \A k \in Keys : Known(login', k, loginChecks'[k], LoginLimit, now')
      PROVE  LimiterInv'
  <2>1. Entries(source, Sources, SourceLimit)' /\ Entries(login, Keys, LoginLimit)'
    BY <1>7 DEF Bounded, Entries
  <2>2. TypeOK'
    BY <1>7, <2>1 DEF TypeOK
  <2>3. Bounded(source, Sources, SourceLimit, now)' /\ Bounded(login, Keys, LoginLimit, now)'
    BY <1>7 DEF Bounded
  <2>4. /\ \A s \in Sources : Known(source, s, sourceChecks[s], SourceLimit, now)'
        /\ \A k \in Keys : Known(login, k, loginChecks[k], LoginLimit, now)'
    BY <1>7 DEF Known, Accounted, Settled, LiveKeys
  <2> QED BY <2>2, <2>3, <2>4
<1>1. ASSUME NEW q \in Requests, AllowSource(q) PROVE LimiterInv'
  <2>1. PICK k \in Keys : \E answer \in Allow(source, k[1], now, SourceLimit) :
            /\ source' = answer.limiter
            /\ sourceChecks' = Note(sourceChecks, source, source', Passing(answer, k[1]), now)
            /\ Answered(q, answer, "admitted", k)
    BY <1>1 DEF AllowSource
  <2>2. PICK answer \in Allow(source, k[1], now, SourceLimit) :
            /\ source' = answer.limiter
            /\ sourceChecks' = Note(sourceChecks, source, source', Passing(answer, k[1]), now)
            /\ Answered(q, answer, "admitted", k)
    BY <2>1
  <2>3. Bounded(source', Sources, SourceLimit, now)
    BY <1>0, <2>2, AllowBounded DEF Keys
  <2>4. request' \in [Requests -> Stages]
    BY <1>0, <2>2 DEF Answered
  <2>5. sourceChecks' \in [Sources -> History]
    BY <1>0, <2>2, ChecksTypes
  <2>6. UNCHANGED <<now, login, loginChecks>>
    BY <1>1 DEF AllowSource
  <2>7. \A s \in Sources : Known(source', s, sourceChecks'[s], SourceLimit, now)
    BY <1>0, <2>2, AllowKnown DEF Keys
  <2> QED BY <1>0, <1>7, <2>3, <2>4, <2>5, <2>6, <2>7
<1>2. ASSUME NEW q \in Requests, AllowLogin(q) PROVE LimiterInv'
  <2> DEFINE k == request[q].key
  <2>1. k \in Keys
    BY <1>0, <1>2 DEF AllowLogin, Idle
  <2>2. PICK answer \in Allow(login, k, now, LoginLimit) :
            /\ login' = answer.limiter
            /\ loginChecks' = Note(loginChecks, login, login', Passing(answer, k), now)
            /\ Answered(q, answer, "checking", k)
    BY <1>2 DEF AllowLogin
  <2> HIDE DEF k
  <2>3. Bounded(login', Keys, LoginLimit, now)
    BY <1>0, <2>1, <2>2, AllowBounded
  <2>4. request' \in [Requests -> Stages]
    BY <1>0, <2>1, <2>2 DEF Answered
  <2>5. loginChecks' \in [Keys -> History]
    BY <1>0, <2>2, ChecksTypes
  <2>6. UNCHANGED <<now, source, sourceChecks>>
    BY <1>2 DEF AllowLogin
  <2>7. \A l \in Keys : Known(login', l, loginChecks'[l], LoginLimit, now)
    BY <1>0, <2>1, <2>2, AllowKnown
  <2> QED BY <1>0, <1>7, <2>3, <2>4, <2>5, <2>6, <2>7
<1>3. ASSUME NEW q \in Requests, LoginFails(q) PROVE LimiterInv'
  <2>1. request' \in [Requests -> Stages]
    BY <1>0, <1>3 DEF LoginFails
  <2> QED BY <1>0, <1>3, <1>7, <2>1 DEF LoginFails
<1>4. ASSUME NEW q \in Requests, Reset(q) PROVE LimiterInv'
  <2>1. request' \in [Requests -> Stages]
    BY <1>0, <1>4 DEF Reset
  <2>2. Bounded(login', Keys, LoginLimit, now)
    BY <1>4, RestrictBounded DEF Reset
  <2>3. loginChecks' \in [Keys -> History]
    BY <1>0, <1>4, ChecksTypes DEF Reset
  <2>4. request[q].key \in Keys
    BY <1>0, <1>4 DEF Reset, Idle
  <2>5. \A k \in Keys : Known(login', k, loginChecks'[k], LoginLimit, now)
    BY <1>0, <1>4, <2>4, ForgetKnown DEF Reset
  <2> QED BY <1>0, <1>4, <1>7, <2>1, <2>2, <2>3, <2>5 DEF Reset
<1>5. ASSUME Tick PROVE LimiterInv'
  <2>1. now' = now + 1 /\ UNCHANGED <<request, source, login>>
    BY <1>5 DEF Tick
  <2>2. 0..now \subseteq 0..now'
    BY <1>0, <2>1
  <2>3. /\ Bounded(source', Sources, SourceLimit, now')
        /\ Bounded(login', Keys, LoginLimit, now')
    BY <2>1, <2>2 DEF Bounded
  <2>4. /\ sourceChecks' \in [Sources -> History]
        /\ loginChecks' \in [Keys -> History]
    BY <1>0, <1>5, ChecksTypes DEF Tick
  <2>5. /\ \A s \in Sources : Known(source', s, sourceChecks'[s], SourceLimit, now')
        /\ \A k \in Keys : Known(login', k, loginChecks'[k], LoginLimit, now')
    <3>1. /\ \A s \in Sources :
                 Known(source, s, Older(sourceChecks)[s], SourceLimit, now + 1)
          /\ \A k \in Keys :
                 Known(login, k, Older(loginChecks)[k], LoginLimit, now + 1)
      BY <1>0, OlderKnown
    <3>2. source' = source /\ login' = login
      BY <2>1
    <3> QED BY <1>5, <2>1, <3>1, <3>2 DEF Tick
  <2> QED BY <1>0, <1>7, <2>1, <2>3, <2>4, <2>5
<1>6. CASE UNCHANGED vars
  BY <1>0, <1>6, <1>7 DEF vars
<1> QED BY <1>1, <1>2, <1>3, <1>4, <1>5, <1>6 DEF Next

\* The types of the limiters, for any number of requests, addresses and accounts.
THEOREM LimiterTypes == Spec => []TypeOK
<1>1. LimiterInv => TypeOK
  BY DEF LimiterInv
<1> QED BY <1>1, InvInit, InvNext, PTL DEF Spec

\* Neither limiter ever holds more than MaxEntries keys.
THEOREM LimiterMemory == Spec => []MemoryBounded
<1>1. LimiterInv => MemoryBounded
  BY DEF LimiterInv, Bounded, MemoryBounded
<1> QED BY <1>1, InvInit, InvNext, PTL DEF Spec

\* A live entry counts the attempts since its window began, for every key there is.
THEOREM LimiterCounts == Spec => []CountHonest
<1>1. LimiterInv => CountHonest
  <2> SUFFICES ASSUME LimiterInv PROVE CountHonest
    OBVIOUS
  <2>1. LiveKeys(source, now) \subseteq Sources /\ LiveKeys(login, now) \subseteq Keys
    BY DEF LimiterInv, Bounded, LiveKeys
  <2> QED BY <2>1 DEF LimiterInv, Known, Accounted, CountHonest
<1> QED BY <1>1, InvInit, InvNext, PTL DEF Spec

\* The fixed windows bound every sliding one: fewer attempts than twice the limit, and
\* the limit more for each live entry forgotten, are let through for a key within any
\* interval as long as the window, successful logins and evictions included.
THEOREM LimiterSlidingBound == Spec => []SlidingBound
<1>1. LimiterInv => SlidingBound
  <2> SUFFICES ASSUME LimiterInv PROVE SlidingBound
    OBVIOUS
  <2>1. /\ now \in Nat /\ Window - 1 \in Ages
        /\ sourceChecks \in [Sources -> History]
        /\ loginChecks \in [Keys -> History]
        /\ SourceLimit \in Nat \ {0} /\ LoginLimit \in Nat \ {0}
    BY LimiterAssumptions DEF LimiterInv, TypeOK, Ages
  <2>2. ASSUME NEW s \in Sources PROVE Slides(sourceChecks[s], SourceLimit)
    <3>1. sourceChecks[s] \in History
      BY <2>1
    <3> QED BY <2>1, <3>1, SettledSlides DEF LimiterInv, Slides
  <2>3. ASSUME NEW k \in Keys PROVE Slides(loginChecks[k], LoginLimit)
    <3>1. loginChecks[k] \in History
      BY <2>1
    <3> QED BY <2>1, <3>1, SettledSlides DEF LimiterInv, Slides
  <2> QED BY <2>2, <2>3 DEF SlidingBound
<1> QED BY <1>1, InvInit, InvNext, PTL DEF Spec

\* A live entry that making room drops is the oldest of a limiter full of live ones,
\* and no other goes with it.
LEMMA AllowDropsOne ==
    ASSUME NEW m, NEW keys, NEW limit \in Nat \ {0}, NEW k \in keys,
           NEW answer \in Allow(m, k, now, limit), Bounded(m, keys, limit, now)
    PROVE  DropsOne(m, answer.limiter, {})
<1> DEFINE live == LiveKeys(m, now)
           dropped == live \ DOMAIN answer.limiter
<1> SUFFICES ASSUME NEW l \in dropped
             PROVE  /\ dropped = {l}
                    /\ Cardinality(live) = MaxEntries /\ l \in Oldest(m, now)
  BY DEF DropsOne
<1>1. PICK e \in Evict(m, k, now) :
          answer = IF Allowed(e, k, now, limit)
                   THEN [ok |-> TRUE,  limiter |-> Counted(e, k, now)]
                   ELSE [ok |-> FALSE, limiter |-> e]
  BY DEF Allow
<1>2. DOMAIN e \subseteq DOMAIN answer.limiter
  BY <1>1 DEF Counted, Put
<1>3. live \subseteq DOMAIN m
  BY DEF LiveKeys
<1>4. /\ ~(k \in DOMAIN m \/ Cardinality(DOMAIN m) < MaxEntries)
      /\ ~(Cardinality(live) < MaxEntries)
      /\ \E old \in Oldest(m, now) : e = Restrict(m, live \ {old})
  <2>1. e # m /\ e # Restrict(m, live)
    BY <1>2, <1>3 DEF Restrict
  <2> QED BY <2>1 DEF Evict
<1>5. dropped = {l} /\ l \in Oldest(m, now)
  <2>1. PICK old \in Oldest(m, now) : e = Restrict(m, live \ {old})
    BY <1>4
  <2>2. DOMAIN e = live \ {old}
    BY <2>1 DEF Restrict
  <2> QED BY <1>2, <2>1, <2>2
<1>6. Cardinality(live) \in Nat /\ Cardinality(live) <= MaxEntries
  <2>1. IsFiniteSet(live) /\ Cardinality(live) <= Cardinality(DOMAIN m)
    BY <1>3, FS_Subset DEF Bounded
  <2>2. Cardinality(live) \in Nat /\ Cardinality(DOMAIN m) \in Nat
    BY <2>1, FS_CardinalityType DEF Bounded
  <2> QED BY <2>1, <2>2, LimiterAssumptions DEF Bounded
<1> QED BY <1>4, <1>5, <1>6, LimiterAssumptions

\* A limiter that stays as it is drops nothing.
LEMMA KeepsAll == \A m, succeeded : DropsOne(m, m, succeeded)
  BY DEF DropsOne, LiveKeys

\* Only a login that succeeds, or an attempt that finds the limiter full of live
\* entries none of which is older, drops a live entry, and only one.
THEOREM LimiterEvictsOldest == Spec => EvictsOldest
<1> DEFINE Dropping == DropsOne(source, source', {}) /\ DropsOne(login, login', Ended)
<1>1. LimiterInv /\ [Next]_vars => [Dropping]_vars
  <2> SUFFICES ASSUME LimiterInv, Next PROVE Dropping
    OBVIOUS
  <2>1. /\ SourceLimit \in Nat \ {0} /\ LoginLimit \in Nat \ {0}
        /\ request \in [Requests -> {Idle} \cup [stage : {"admitted", "checking"}, key : Keys]]
        /\ Bounded(source, Sources, SourceLimit, now)
        /\ Bounded(login, Keys, LoginLimit, now)
    BY LimiterAssumptions DEF LimiterInv, TypeOK
  <2>2. ASSUME NEW q \in Requests, AllowSource(q) PROVE Dropping
    <3>1. PICK k \in Keys : \E answer \in Allow(source, k[1], now, SourceLimit) :
              source' = answer.limiter
      BY <2>2 DEF AllowSource
    <3>2. DropsOne(source, source', {})
      BY <2>1, <3>1, AllowDropsOne DEF Keys
    <3>3. login' = login
      BY <2>2 DEF AllowSource
    <3> QED BY <3>2, <3>3, KeepsAll
  <2>3. ASSUME NEW q \in Requests, AllowLogin(q) PROVE Dropping
    <3>1. request[q].key \in Keys
      BY <2>1, <2>3 DEF AllowLogin, Idle
    <3>2. PICK answer \in Allow(login, request[q].key, now, LoginLimit) :
              login' = answer.limiter
      BY <2>3 DEF AllowLogin
    <3>3. DropsOne(login, login', {})
      BY <2>1, <3>1, <3>2, AllowDropsOne
    <3>4. source' = source
      BY <2>3 DEF AllowLogin
    <3>5. DropsOne(login, login', Ended)
      BY <3>3 DEF DropsOne
    <3> QED BY <3>4, <3>5, KeepsAll
  <2>4. ASSUME NEW q \in Requests, Reset(q) PROVE Dropping
    <3>1. DOMAIN login' = DOMAIN login \ {request[q].key} /\ source' = source
      BY <2>4 DEF Reset, Restrict
    <3>2. request[q].key \in Ended
      BY <2>1, <2>4 DEF Reset, Ended
    <3>3. DropsOne(login, login', Ended)
      BY <3>1, <3>2 DEF DropsOne, LiveKeys
    <3> QED BY <3>1, <3>3, KeepsAll
  <2>5. ASSUME NEW q \in Requests, LoginFails(q) PROVE Dropping
    BY <2>5, KeepsAll DEF LoginFails
  <2>6. ASSUME Tick PROVE Dropping
    BY <2>6, KeepsAll DEF Tick
  <2> QED BY <2>2, <2>3, <2>4, <2>5, <2>6 DEF Next
<1> QED BY <1>1, InvInit, InvNext, PTL DEF Spec, EvictsOldest

=============================================================================
