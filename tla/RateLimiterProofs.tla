-------------------------- MODULE RateLimiterProofs --------------------------
(***************************************************************************)
(* Proofs about RateLimiter, for any number of threads and of callers:     *)
(* types, the bound on the table of callers, the bounds on the work and on *)
(* what one sender is let through; and, when checks do not overlap, that   *)
(* they decide as one sliding window would and that a caller who waits as  *)
(* long as it was told is let in.                                          *)
(***************************************************************************)
EXTENDS RateLimiter, TLAPS, FiniteSetTheorems, SequenceTheorems, WellFoundedInduction

-----------------------------------------------------------------------------
(* Windows *)

\* A set of indexes has a first one: the shortest of the intervals that end in it.
LEMMA OldestIsFirst ==
    ASSUME NEW S \in SUBSET Nat, S # {}
    PROVE  Oldest(S) \in S /\ \A j \in S : Oldest(S) <= j
<1> DEFINE T == {1..i : i \in S}
<1>1. T \subseteq FiniteSubsetsOf(Nat)
    BY FS_Interval DEF FiniteSubsetsOf
<1>2. IsWellFoundedOn(StrictSubsetOrdering(Nat), FiniteSubsetsOf(Nat))
    BY FS_StrictSubsetOrderingWellFounded
<1>3. T # {}
    OBVIOUS
<1>4. \E x \in T : \A y \in T : ~(<<y, x>> \in StrictSubsetOrdering(Nat))
    <2> HIDE DEF T
    <2> QED BY <1>1, <1>2, <1>3, WFMin
<1>5. PICK i \in S : \A j \in S : ~(<<1..j, 1..i>> \in StrictSubsetOrdering(Nat))
    BY <1>4
<1>6. \A j \in S : i <= j
  <2> SUFFICES ASSUME NEW j \in S, j < i  PROVE  FALSE
      OBVIOUS
  <2>1. i \in 1..i /\ i \notin 1..j
      OBVIOUS
  <2>2. 1..j \subseteq 1..i /\ 1..j # 1..i
      BY <2>1
  <2>3. 1..j \in SUBSET Nat /\ 1..i \in SUBSET Nat
      OBVIOUS
  <2>4. <<1..j, 1..i>> \in StrictSubsetOrdering(Nat)
      BY <2>2, <2>3 DEF StrictSubsetOrdering
  <2> QED BY <1>5, <2>4
<1> QED BY <1>6 DEF Oldest

\* A part of a sequence from an index on.
LEMMA FromIndexOn ==
    ASSUME NEW V, NEW s \in Seq(V), NEW k \in 1..Len(s)
    PROVE  /\ SubSeq(s, k, Len(s)) \in Seq(V)
           /\ Len(SubSeq(s, k, Len(s))) = Len(s) - k + 1
           /\ \A i \in 1..(Len(s) - k + 1) : SubSeq(s, k, Len(s))[i] = s[k + i - 1]
BY SubSeqProperties

\* Trimming keeps an end of the window that begins after the cutoff, and in it
\* every hit after the cutoff.
LEMMA TrimmedIsAnEnd ==
    ASSUME NEW V \in SUBSET Int, NEW s \in Seq(V), NEW now \in Int
    PROVE  LET r == Trimmed(s, now) IN
           /\ r \in Seq(V) /\ Len(r) <= Len(s)
           /\ \A i \in 1..Len(r) : r[i] = s[Len(s) - Len(r) + i]
           /\ \A i \in 1..Len(s) : s[i] > now - Window => Len(r) >= Len(s) - i + 1
           /\ r # <<>> => r[1] > now - Window
<1> DEFINE keep == {i \in 1..Len(s) : s[i] > Cutoff(now)}
<1>1. CASE keep = {}
  <2>1. Trimmed(s, now) = <<>>
      BY <1>1 DEF Trimmed
  <2>2. \A i \in 1..Len(s) : ~(s[i] > now - Window)
      BY <1>1 DEF Cutoff
  <2> QED BY <2>1, <2>2, Len(s) \in Nat
<1>2. CASE keep # {}
  <2>1. keep \in SUBSET Nat
      BY Len(s) \in Nat
  <2>2. Oldest(keep) \in keep /\ \A j \in keep : Oldest(keep) <= j
      BY <1>2, <2>1, OldestIsFirst
  <2> DEFINE k == Oldest(keep)
  <2>3. k \in 1..Len(s) /\ s[k] > now - Window
      BY <2>2 DEF Cutoff
  <2>4. Trimmed(s, now) = SubSeq(s, k, Len(s))
      BY <1>2 DEF Trimmed
  <2>5. /\ SubSeq(s, k, Len(s)) \in Seq(V)
        /\ Len(SubSeq(s, k, Len(s))) = Len(s) - k + 1
        /\ \A i \in 1..(Len(s) - k + 1) : SubSeq(s, k, Len(s))[i] = s[k + i - 1]
      BY <2>3, FromIndexOn
  <2>6. \A i \in 1..Len(s) : s[i] > now - Window => k <= i
      BY <2>2 DEF Cutoff
  <2> HIDE DEF k
  <2>7. SubSeq(s, k, Len(s))[1] = s[k]
      BY <2>3, <2>5, Len(s) \in Nat
  <2> QED BY <2>3, <2>4, <2>5, <2>6, <2>7, Len(s) \in Nat
<1> QED BY <1>1, <1>2

Served == [who: Callers \cup {None}, at: Nat]

\* The same of the requests let through, whose first one is in the window.
LEMMA RecentIsAnEnd ==
    ASSUME NEW s \in Seq(Served), NEW now \in Int
    PROVE  LET r == Recent(s, now) IN
           /\ r \in Seq(Served) /\ Len(r) <= Len(s)
           /\ \A i \in 1..Len(r) : r[i] = s[Len(s) - Len(r) + i]
           /\ \A i \in 1..Len(s) : s[i].at > now - Window => Len(r) >= Len(s) - i + 1
           /\ r # <<>> => r[1].at > now - Window
<1> DEFINE keep == {i \in 1..Len(s) : s[i].at > now - Window}
<1>1. CASE keep = {}
  <2>1. Recent(s, now) = <<>>
      BY <1>1 DEF Recent
  <2>2. \A i \in 1..Len(s) : ~(s[i].at > now - Window)
      BY <1>1
  <2> QED BY <2>1, <2>2, Len(s) \in Nat
<1>2. CASE keep # {}
  <2>1. keep \in SUBSET Nat
      BY Len(s) \in Nat
  <2>2. Oldest(keep) \in keep /\ \A j \in keep : Oldest(keep) <= j
      BY <1>2, <2>1, OldestIsFirst
  <2> DEFINE k == Oldest(keep)
  <2>3. k \in 1..Len(s) /\ s[k].at > now - Window
      BY <2>2
  <2>4. Recent(s, now) = SubSeq(s, k, Len(s))
      BY <1>2 DEF Recent
  <2>5. /\ SubSeq(s, k, Len(s)) \in Seq(Served)
        /\ Len(SubSeq(s, k, Len(s))) = Len(s) - k + 1
        /\ \A i \in 1..(Len(s) - k + 1) : SubSeq(s, k, Len(s))[i] = s[k + i - 1]
      BY <2>3, FromIndexOn
  <2>6. \A i \in 1..Len(s) : s[i].at > now - Window => k <= i
      BY <2>2
  <2> HIDE DEF k
  <2>7. SubSeq(s, k, Len(s))[1] = s[k]
      BY <2>3, <2>5, Len(s) \in Nat
  <2> QED BY <2>3, <2>4, <2>5, <2>6, <2>7, Len(s) \in Nat
<1> QED BY <1>1, <1>2

-----------------------------------------------------------------------------
(* Types *)

\* Before it has looked its window up, and when it is over, a call has none;
\* while it needs one it has one.
CallOK(c, time) ==
    /\ c.now <= time
    /\ c.at \notin {"own", "recordOwn", "record"} => c.window = None
    /\ c.at \in {"own", "recordOwn"} => c.window # None
    /\ c.at \in {"overall", "get", "size", "sweep", "drop", "room", "insert"} => c.key \in Callers

TypeInv ==
    /\ TypeOK
    /\ served \in Seq(Served)
    /\ \A t \in Threads : CallOK(check[t], clock)

LEMMA IdleIsACall == Idle \in Check
BY DEF Idle, Check, Steps

LEMMA InitTypes == Init => TypeInv
<1> SUFFICES ASSUME Init  PROVE  TypeInv
    OBVIOUS
<1> USE LimiterAssumption DEF Init
<1>1. check \in [Threads -> Check]
    BY IdleIsACall
<1>2. DOMAIN keys = {} /\ keys \in [DOMAIN keys -> Objects]
    OBVIOUS
<1>3. Used(keys, check) = {}
    BY <1>2 DEF Used, Range, Idle
<1>4. hits \in [Used(keys, check) -> Seq(0..clock)]
    BY <1>3
<1>5. all \in Seq(0..clock) /\ served \in Seq(Served)
    OBVIOUS
<1>6. \A t \in Threads : CallOK(check[t], clock)
    BY DEF CallOK, Idle
<1>7. clock \in 0..MaxClock /\ max_tracked_keys \in TableSizes /\ alone \in BOOLEAN
    OBVIOUS
<1> QED BY <1>1, <1>2, <1>4, <1>5, <1>6, <1>7 DEF TypeInv, TypeOK

\* A call goes on to a step.
LEMMA GoType ==
    ASSUME check \in [Threads -> Check], NEW t \in Threads, NEW step \in Steps, Go(t, step)
    PROVE  /\ check' \in [Threads -> Check]
           /\ \A u \in Threads \ {t} : check'[u] = check[u]
           /\ check'[t] = [check[t] EXCEPT !.at = step]
BY DEF Go, Check

\* A call ends.
LEMMA EndType ==
    ASSUME check \in [Threads -> Check], NEW t \in Threads, NEW retry \in Nat,
           NEW outcome \in {"admitted", "refusedByAll", "refusedByOwn", "failed"},
           End(t, outcome, retry)
    PROVE  /\ check' \in [Threads -> Check]
           /\ \A u \in Threads \ {t} : check'[u] = check[u]
           /\ check'[t].at = outcome /\ check'[t].window = None /\ check'[t].now = 0
BY IdleIsACall DEF End, Check, Idle, Steps

\* Retry-After is a number.
LEMMA RetryType ==
    ASSUME NEW s \in Seq(Nat), s # <<>>, NEW now \in Nat
    PROVE  RetryAfter(s, now) \in Nat
<1>1. s[1] \in Nat
    BY LenProperties, EmptySeq
<1> DEFINE q == (Window - (now - s[1])) \div TicksPerSecond
<1>2. q \in Int
    BY <1>1, LimiterAssumption
<1> HIDE DEF q
<1> DEFINE left == IF q + 1 < 1 THEN 1 ELSE q + 1
<1>3. left \in Nat /\ RetryAfter(s, now) = now + TicksPerSecond * left
    BY <1>2 DEF RetryAfter, q
<1> HIDE DEF left
<1> QED BY <1>3, LimiterAssumption

\* A step of one call that leaves the windows alone.
LEMMA OneCall ==
    ASSUME TypeInv, NEW t \in Threads, check' \in [Threads -> Check],
           \A u \in Threads \ {t} : check'[u] = check[u],
           check'[t].window \in {check[t].window} \cup Range(keys) \cup {None},
           check[t].window \in {check'[t].window, None},
           CallOK(check'[t], clock), all' \in Seq(0..clock),
           UNCHANGED <<clock, keys, hits, served, settings>>
    PROVE  TypeInv'
<1> USE DEF TypeInv, TypeOK, settings
<1>1. \A u \in Threads \ {t} : check'[u].window = check[u].window
    OBVIOUS
<1>2. Used(keys', check') = Used(keys, check)
  <2>1. ASSUME NEW o \in Used(keys', check')  PROVE  o \in Used(keys, check)
    <3>1. o # None /\ (o \in Range(keys) \/ \E u \in Threads : o = check'[u].window)
        BY DEF Used
    <3>2. o \in Range(keys) \/ \E u \in Threads : o = check[u].window
        BY <1>1, <3>1
    <3> QED BY <3>1, <3>2 DEF Used
  <2>2. ASSUME NEW o \in Used(keys, check)  PROVE  o \in Used(keys', check')
    <3>1. o # None /\ (o \in Range(keys) \/ \E u \in Threads : o = check[u].window)
        BY DEF Used
    <3>2. o \in Range(keys) \/ \E u \in Threads : o = check'[u].window
        BY <1>1, <3>1
    <3> QED BY <3>1, <3>2 DEF Used
  <2> QED BY <2>1, <2>2
<1>3. \A u \in Threads : CallOK(check'[u], clock)
    OBVIOUS
<1>4. hits' \in [Used(keys', check') -> Seq(0..clock')]
    BY <1>2
<1>5. \A u \in Threads : CallOK(check[u], clock)'
    BY <1>3 DEF CallOK
<1> QED BY <1>4, <1>5

\* client_key never makes a name up.
LEMMA KeyIsACaller ==
    ASSUME NEW s \in Senders, NEW written \in {<<>>} \cup {<<f>> : f \in Senders}
    PROVE  client_key(Proxy, Append(written, s)) \in Callers /\ client_key(s, written) \in Callers
<1>1. written \in Seq(Senders) /\ (written # <<>> => written[Len(written)] \in Senders)
  <2>1. CASE written = <<>>
      BY <2>1
  <2>2. CASE \E f \in Senders : written = <<f>>
      BY <2>2
  <2> QED BY <2>1, <2>2
<1>2. Append(written, s) \in Seq(Senders) /\ Append(written, s) # <<>>
      /\ Append(written, s)[Len(Append(written, s))] = s
    BY <1>1, AppendProperties
<1> QED BY <1>1, <1>2 DEF client_key, Callers

LEMMA ArriveTypes == ASSUME TypeInv, NEW t \in Threads, Arrive(t)  PROVE  TypeInv'
<1> USE DEF TypeInv, TypeOK
<1>1. PICK s \in Senders, proxied \in BOOLEAN, written \in {<<>>} \cup {<<f>> : f \in Senders} :
         check' = [check EXCEPT ![t] = [Idle EXCEPT
                !.at = "overall",
                !.key = IF proxied THEN client_key(Proxy, Append(written, s))
                        ELSE client_key(s, written),
                !.now = clock,
                !.who = IF proxied /\ Proxy \notin trusted_proxies THEN Proxy ELSE s]]
    BY DEF Arrive
<1> DEFINE key == IF proxied THEN client_key(Proxy, Append(written, s))
                  ELSE client_key(s, written)
<1>2. key \in Callers /\ s \in Callers /\ Proxy \in Callers
    BY KeyIsACaller DEF Callers
<1>3. clock \in Nat
    BY LimiterAssumption
<1> HIDE DEF key
<1>4. /\ check'[t] \in Check /\ check'[t].at = "overall" /\ check'[t].key = key
      /\ check'[t].now = clock /\ check'[t].window = None
    BY <1>1, <1>2, <1>3 DEF key, Idle, Check, Steps
<1>5. check' \in [Threads -> Check] /\ \A u \in Threads \ {t} : check'[u] = check[u]
    BY <1>1, <1>4
<1>6. CallOK(check'[t], clock)
    BY <1>2, <1>3, <1>4 DEF CallOK
<1>7. check[t].window = None
    BY DEF Arrive, Idle
<1> QED BY <1>4, <1>5, <1>6, <1>7, OneCall DEF Arrive

LEMMA LeaveTypes == ASSUME TypeInv, NEW t \in Threads, Leave(t)  PROVE  TypeInv'
<1> USE DEF TypeInv, TypeOK
<1>1. check' \in [Threads -> Check] /\ check'[t] = Idle
      /\ \A u \in Threads \ {t} : check'[u] = check[u]
    BY IdleIsACall DEF Leave
<1>2. check[t].window = None
    BY DEF Leave, CallOK
<1>3. CallOK(check'[t], clock)
    BY <1>1, LimiterAssumption DEF CallOK, Idle
<1> QED BY <1>1, <1>2, <1>3, OneCall DEF Leave, Idle

LEMMA OverallTypes == ASSUME TypeInv, NEW t \in Threads, CheckOverall(t)  PROVE  TypeInv'
<1> USE DEF TypeInv, TypeOK
<1>1. check[t].at = "overall" /\ check[t] \in Check /\ check[t].now \in Nat
    BY DEF CheckOverall, Check
<1>2. clock \in Nat /\ 0..clock \in SUBSET Int
    BY LimiterAssumption
<1>3. all' = Trimmed(all, check[t].now)
    BY DEF CheckOverall
<1>4. all' \in Seq(0..clock)
    BY <1>1, <1>2, <1>3, TrimmedIsAnEnd
<1>5. check[t].window = None /\ check[t].key \in Callers /\ check[t].now <= clock
    BY <1>1 DEF CallOK
<1>6. CASE Len(all') >= Overall
  <2>1. all' \in Seq(Nat) /\ all' # <<>>
      BY <1>2, <1>4, <1>6, SeqMonotonic, EmptySeq, LimiterAssumption
  <2>2. RetryAfter(all', check[t].now) \in Nat
      BY <1>1, <2>1, RetryType
  <2>3. End(t, "refusedByAll", RetryAfter(all', check[t].now))
      BY <1>6 DEF CheckOverall
  <2>4. /\ check' \in [Threads -> Check]
        /\ \A u \in Threads \ {t} : check'[u] = check[u]
        /\ check'[t].at = "refusedByAll" /\ check'[t].window = None /\ check'[t].now = 0
      BY <2>2, <2>3, EndType
  <2>5. CallOK(check'[t], clock)
      BY <1>2, <2>4 DEF CallOK
  <2> QED BY <1>4, <1>5, <2>4, <2>5, OneCall DEF CheckOverall
<1>7. CASE ~(Len(all') >= Overall)
  <2>1. Go(t, "get")
      BY <1>7 DEF CheckOverall
  <2>2. /\ check' \in [Threads -> Check]
        /\ \A u \in Threads \ {t} : check'[u] = check[u]
        /\ check'[t] = [check[t] EXCEPT !.at = "get"]
      BY <2>1, GoType DEF Steps
  <2>3. check'[t].window = None /\ CallOK(check'[t], clock)
      BY <1>1, <1>5, <2>2 DEF CallOK, Check
  <2> QED BY <1>4, <1>5, <2>2, <2>3, OneCall DEF CheckOverall
<1> QED BY <1>6, <1>7

LEMMA GetTypes == ASSUME TypeInv, NEW t \in Threads, Get(t)  PROVE  TypeInv'
<1> USE DEF TypeInv, TypeOK
<1>1. /\ check[t] \in Check /\ check[t].at = "get" /\ check[t].window = None
      /\ check[t].now <= clock /\ check[t].key \in Callers
      /\ check \in [Threads -> Check] /\ clock \in 0..MaxClock
      /\ keys \in [DOMAIN keys -> Objects] /\ DOMAIN keys \subseteq Callers
    BY DEF Get, CallOK
<1>2. UNCHANGED <<clock, keys, hits, served, settings>> /\ all' \in Seq(0..clock)
    BY DEF Get
<1> HIDE DEF TypeInv, TypeOK
<1>3. CASE check[t].key \in DOMAIN keys
  <2>1. check' = [check EXCEPT ![t].window = keys[check[t].key], ![t].at = "own"]
      BY <1>3 DEF Get
  <2>2. keys[check[t].key] \in Objects /\ keys[check[t].key] \in Range(keys)
      BY <1>1, <1>3 DEF Range
  <2>3. /\ check'[t] \in Check /\ check'[t].at = "own" /\ check'[t].now = check[t].now
        /\ check'[t].window = keys[check[t].key]
      BY <1>1, <2>1, <2>2 DEF Check, Steps
  <2>4. check' \in [Threads -> Check] /\ \A u \in Threads \ {t} : check'[u] = check[u]
      BY <1>1, <2>1, <2>3
  <2>5. CallOK(check'[t], clock)
      BY <1>1, <2>2, <2>3, LimiterAssumption DEF CallOK
  <2> QED BY <1>1, <1>2, <2>2, <2>3, <2>4, <2>5, OneCall
<1>4. CASE check[t].key \notin DOMAIN keys
  <2>1. Go(t, "size")
      BY <1>4 DEF Get
  <2>2. /\ check' \in [Threads -> Check]
        /\ \A u \in Threads \ {t} : check'[u] = check[u]
        /\ check'[t] = [check[t] EXCEPT !.at = "size"]
      BY <1>1, <2>1, GoType DEF Steps
  <2>3. check'[t].window = None /\ CallOK(check'[t], clock)
      BY <1>1, <2>2 DEF CallOK, Check
  <2> QED BY <1>1, <1>2, <2>2, <2>3, OneCall
<1> QED BY <1>3, <1>4

\* The table has a size.
LEMMA TableIsFinite ==
    ASSUME TypeOK
    PROVE  IsFiniteSet(DOMAIN keys) /\ Cardinality(DOMAIN keys) \in Nat
<1>1. IsFiniteSet(Callers)
    BY LimiterAssumption, FS_AddElement DEF Callers
<1> QED BY <1>1, FS_Subset, FS_CardinalityType DEF TypeOK

LEMMA SizeTypes == ASSUME TypeInv, NEW t \in Threads, Size(t)  PROVE  TypeInv'
<1> USE DEF TypeInv, TypeOK
<1>1. /\ check[t] \in Check /\ check[t].at = "size" /\ check[t].window = None
      /\ check[t].now <= clock /\ check[t].key \in Callers
      /\ check \in [Threads -> Check] /\ clock \in 0..MaxClock
      /\ keys \in [DOMAIN keys -> Objects] /\ DOMAIN keys \subseteq Callers
    BY DEF Size, CallOK
<1>2. UNCHANGED <<clock, keys, hits, served, settings>> /\ all' \in Seq(0..clock)
    BY DEF Size
<1> HIDE DEF TypeInv, TypeOK
<1> DEFINE size == Cardinality(DOMAIN keys)
<1>3. size \in Nat
    BY TableIsFinite DEF TypeInv
<1> HIDE DEF size
<1>4. CASE check' = [check EXCEPT ![t].at = "sweep", ![t].size = size]
  <2>1. /\ check'[t] \in Check /\ check'[t].at = "sweep" /\ check'[t].now = check[t].now
        /\ check'[t].window = None /\ check'[t].key = check[t].key
      BY <1>1, <1>3, <1>4 DEF Check, Steps
  <2>2. check' \in [Threads -> Check] /\ \A u \in Threads \ {t} : check'[u] = check[u]
      BY <1>1, <1>4, <2>1
  <2>3. CallOK(check'[t], clock)
      BY <1>1, <2>1 DEF CallOK
  <2> QED BY <1>1, <1>2, <2>1, <2>2, <2>3, OneCall
<1>5. CASE Go(t, "room")
  <2>1. /\ check' \in [Threads -> Check]
        /\ \A u \in Threads \ {t} : check'[u] = check[u]
        /\ check'[t] = [check[t] EXCEPT !.at = "room"]
      BY <1>1, <1>5, GoType DEF Steps
  <2>2. check'[t].window = None /\ CallOK(check'[t], clock)
      BY <1>1, <2>1 DEF CallOK, Check
  <2> QED BY <1>1, <1>2, <2>1, <2>2, OneCall
<1> QED BY <1>4, <1>5 DEF Size, size

LEMMA SweepTypes == ASSUME TypeInv, NEW t \in Threads, Sweep(t)  PROVE  TypeInv'
<1> USE DEF TypeInv, TypeOK
<1>1. /\ check[t] \in Check /\ check[t].at = "sweep" /\ check[t].window = None
      /\ check[t].now <= clock /\ check[t].key \in Callers
      /\ check \in [Threads -> Check] /\ clock \in 0..MaxClock
      /\ keys \in [DOMAIN keys -> Objects] /\ DOMAIN keys \subseteq Callers
    BY DEF Sweep, CallOK
<1>2. UNCHANGED <<clock, keys, hits, served, settings>> /\ all' \in Seq(0..clock)
    BY DEF Sweep
<1> HIDE DEF TypeInv, TypeOK
<1>3. CASE End(t, "failed", 0)
  <2>1. /\ check' \in [Threads -> Check]
        /\ \A u \in Threads \ {t} : check'[u] = check[u]
        /\ check'[t].at = "failed" /\ check'[t].window = None /\ check'[t].now = 0
      BY <1>1, <1>3, EndType
  <2>2. CallOK(check'[t], clock)
      BY <1>1, <2>1, LimiterAssumption DEF CallOK
  <2> QED BY <1>1, <1>2, <2>1, <2>2, OneCall
<1>4. CASE check' = [check EXCEPT ![t].at = "drop", ![t].seen = {}, ![t].size = 0]
  <2>1. /\ check'[t] \in Check /\ check'[t].at = "drop" /\ check'[t].now = check[t].now
        /\ check'[t].window = None /\ check'[t].key = check[t].key
      BY <1>1, <1>4 DEF Check, Steps
  <2>2. check' \in [Threads -> Check] /\ \A u \in Threads \ {t} : check'[u] = check[u]
      BY <1>1, <1>4, <2>1
  <2>3. CallOK(check'[t], clock)
      BY <1>1, <2>1 DEF CallOK
  <2> QED BY <1>1, <1>2, <2>1, <2>2, <2>3, OneCall
<1>5. ASSUME NEW k \in DOMAIN keys,
             check' = [check EXCEPT ![t].seen = @ \cup {k},
                            ![t].stale = IF Stale(k, check[t].now) THEN @ \cup {k} ELSE @]
      PROVE  TypeInv'
  <2>1. PICK seen \in SUBSET Callers, stale \in SUBSET Callers :
           check' = [check EXCEPT ![t].seen = seen, ![t].stale = stale]
    <3>1. /\ check[t].stale \in SUBSET Callers /\ check[t].seen \cup {k} \in SUBSET Callers
          /\ k \in Callers
        BY <1>1 DEF Check
    <3>2. (IF Stale(k, check[t].now) THEN check[t].stale \cup {k} ELSE check[t].stale)
             \in SUBSET Callers
        BY <3>1
    <3> QED BY <1>5, <3>1, <3>2
  <2>2. /\ check'[t] \in Check /\ check'[t].at = "sweep" /\ check'[t].now = check[t].now
        /\ check'[t].window = None /\ check'[t].key = check[t].key
      BY <1>1, <2>1 DEF Check, Steps
  <2>3. check' \in [Threads -> Check] /\ \A u \in Threads \ {t} : check'[u] = check[u]
      BY <1>1, <2>1, <2>2
  <2>4. CallOK(check'[t], clock)
      BY <1>1, <2>2 DEF CallOK
  <2> QED BY <1>1, <1>2, <2>2, <2>3, <2>4, OneCall
<1> QED BY <1>3, <1>4, <1>5 DEF Sweep

LEMMA RoomTypes == ASSUME TypeInv, NEW t \in Threads, Room(t)  PROVE  TypeInv'
<1> USE DEF TypeInv, TypeOK
<1>1. /\ check[t] \in Check /\ check[t].at \in {"room", "drop"} /\ check[t].window = None
      /\ check[t].now <= clock /\ check[t].key \in Callers
      /\ check \in [Threads -> Check] /\ clock \in 0..MaxClock
      /\ keys \in [DOMAIN keys -> Objects] /\ DOMAIN keys \subseteq Callers
    BY DEF Room, CallOK
<1>2. UNCHANGED <<clock, keys, hits, served, settings>> /\ all' \in Seq(0..clock)
    BY DEF Room
<1> HIDE DEF TypeInv, TypeOK
<1>3. PICK step \in {"insert", "record"} : Go(t, step)
    BY DEF Room
<1>4. /\ check' \in [Threads -> Check]
      /\ \A u \in Threads \ {t} : check'[u] = check[u]
      /\ check'[t] = [check[t] EXCEPT !.at = step]
    BY <1>1, <1>3, GoType DEF Steps
<1>5. check'[t].window = None /\ CallOK(check'[t], clock)
    BY <1>1, <1>4 DEF CallOK, Check
<1> QED BY <1>1, <1>2, <1>4, <1>5, OneCall

\* A window is in use as long as the table or a call has it.
LEMMA UsedShrinks ==
    ASSUME NEW t \in Threads, \A u \in Threads \ {t} : check'[u] = check[u],
           check'[t].window \in {check[t].window, None}, Range(keys') \subseteq Range(keys)
    PROVE  Used(keys', check') \subseteq Used(keys, check)
BY DEF Used

LEMMA CollectedType ==
    ASSUME NEW D, NEW V, NEW h \in [D -> V], NEW table, NEW calls, Used(table, calls) \subseteq D
    PROVE  Collected(h, table, calls) \in [Used(table, calls) -> V]
BY DEF Collected

LEMMA DropTypes == ASSUME TypeInv, NEW t \in Threads, Drop(t)  PROVE  TypeInv'
<1> USE DEF TypeInv, TypeOK
<1>1. /\ check[t] \in Check /\ check[t].at = "drop" /\ check[t].window = None
      /\ check[t].now <= clock /\ check[t].key \in Callers
    BY DEF Drop, CallOK
<1>2. PICK k \in check[t].stale :
         /\ keys' = Restrict(keys, DOMAIN keys \ {k})
         /\ IF k \in DOMAIN keys THEN check' = [check EXCEPT ![t].stale = @ \ {k}]
            ELSE End(t, "failed", 0)
    BY DEF Drop
<1>3. /\ DOMAIN keys' = DOMAIN keys \ {k} /\ \A c \in DOMAIN keys' : keys'[c] = keys[c]
      /\ keys' \in [DOMAIN keys' -> Objects]
    BY <1>2 DEF Restrict
<1>4. Range(keys') \subseteq Range(keys)
    BY <1>3 DEF Range
<1>5. /\ check' \in [Threads -> Check] /\ \A u \in Threads \ {t} : check'[u] = check[u]
      /\ check'[t].window = None /\ CallOK(check'[t], clock)
  <2>1. CASE End(t, "failed", 0)
    <3>1. /\ check' \in [Threads -> Check]
          /\ \A u \in Threads \ {t} : check'[u] = check[u]
          /\ check'[t].at = "failed" /\ check'[t].window = None /\ check'[t].now = 0
        BY <2>1, EndType
    <3>2. CallOK(check'[t], clock)
        BY <3>1, LimiterAssumption DEF CallOK
    <3> QED BY <3>1, <3>2
  <2>2. CASE check' = [check EXCEPT ![t].stale = @ \ {k}]
    <3>1. check \in [Threads -> Check]
        OBVIOUS
    <3> HIDE DEF TypeInv, TypeOK
    <3>2. /\ check'[t] \in Check /\ check'[t].at = "drop" /\ check'[t].now = check[t].now
          /\ check'[t].window = None /\ check'[t].key = check[t].key
        BY <1>1, <2>2, <3>1 DEF Check, Steps
    <3>3. check' \in [Threads -> Check] /\ \A u \in Threads \ {t} : check'[u] = check[u]
        BY <2>2, <3>1, <3>2
    <3>4. CallOK(check'[t], clock)
        BY <1>1, <3>2 DEF CallOK
    <3> QED BY <3>2, <3>3, <3>4
  <2> QED BY <1>2, <2>1, <2>2
<1>6. Used(keys', check') \subseteq Used(keys, check)
    BY <1>4, <1>5, UsedShrinks
<1>7. hits' \in [Used(keys', check') -> Seq(0..clock)]
    BY <1>6, CollectedType DEF Drop
<1>8. UNCHANGED <<clock, all, served, max_tracked_keys, alone>>
    BY DEF Drop, settings
<1>9. \A u \in Threads : CallOK(check[u], clock)'
    BY <1>5, <1>8 DEF CallOK
<1> QED BY <1>3, <1>5, <1>7, <1>8, <1>9

\* A window that nobody has is there to be made: fewer are in use than objects
\* fit into memory.
LEMMA NewWindowIsNew ==
    ASSUME TypeOK, NEW key \in Callers, key \notin DOMAIN keys
    PROVE  NewWindow \in Objects /\ NewWindow \notin Used(keys, check)
<1> DEFINE table == Range(keys)
           held == {check[u].window : u \in Threads}
<1>1. IsFiniteSet(Callers) /\ Cardinality(Callers) \in Nat
    BY LimiterAssumption, FS_AddElement, FS_CardinalityType DEF Callers
<1>2. IsFiniteSet(DOMAIN keys) /\ Cardinality(DOMAIN keys) + 1 <= Cardinality(Callers)
  <2>1. IsFiniteSet(Callers \ {key}) /\ Cardinality(Callers \ {key}) = Cardinality(Callers) - 1
      BY <1>1, FS_RemoveElement
  <2>2. DOMAIN keys \in SUBSET (Callers \ {key})
      BY DEF TypeOK
  <2>3. IsFiniteSet(DOMAIN keys) /\ Cardinality(DOMAIN keys) <= Cardinality(Callers \ {key})
      BY <2>1, <2>2, FS_Subset
  <2>4. Cardinality(DOMAIN keys) \in Nat
      BY <2>3, FS_CardinalityType
  <2> QED BY <1>1, <2>1, <2>3, <2>4
<1>3. IsFiniteSet(table) /\ Cardinality(table) <= Cardinality(DOMAIN keys)
  <2>1. keys \in Surjection(DOMAIN keys, table)
      BY DEF Surjection, Range, TypeOK
  <2> QED BY <1>2, <2>1, FS_Surjection
<1>4. IsFiniteSet(held) /\ Cardinality(held) <= Cardinality(Threads)
  <2>1. [u \in Threads |-> check[u].window] \in Surjection(Threads, held)
      BY DEF Surjection
  <2> HIDE DEF held
  <2> QED BY <2>1, FS_Surjection, LimiterAssumption
<1>5. /\ Cardinality(table) \in Nat /\ Cardinality(held) \in Nat
      /\ Cardinality(Threads) \in Nat /\ Cardinality(DOMAIN keys) \in Nat
    BY <1>2, <1>3, <1>4, FS_CardinalityType, LimiterAssumption
<1> HIDE DEF table, held
<1>6. IsFiniteSet(table \cup held) /\ Cardinality(table \cup held) < Cardinality(Callers) + Cardinality(Threads)
  <2>1. /\ IsFiniteSet(table \cup held)
        /\ Cardinality(table \cup held) =
               Cardinality(table) + Cardinality(held) - Cardinality(table \cap held)
      BY <1>3, <1>4, FS_Union
  <2>2. Cardinality(table \cap held) \in Nat
      BY <1>3, FS_Intersection, FS_CardinalityType
  <2> QED BY <1>1, <1>2, <1>3, <1>4, <1>5, <2>1, <2>2
<1>7. ~(Objects \subseteq table \cup held)
  <2> SUFFICES ASSUME Objects \subseteq table \cup held  PROVE  FALSE
      OBVIOUS
  <2>1. IsFiniteSet(Objects) /\ Cardinality(Objects) <= Cardinality(table \cup held)
      BY <1>6, FS_Subset
  <2>2. Cardinality(Objects) \in Nat /\ Cardinality(table \cup held) \in Nat
      BY <1>6, <2>1, FS_CardinalityType
  <2> QED BY <1>1, <1>5, <1>6, <2>1, <2>2, LimiterAssumption
<1>8. \E o \in Objects : o \notin Used(keys, check)
    BY <1>7 DEF Used, table, held
<1> QED BY <1>8 DEF NewWindow

LEMMA InsertTypes == ASSUME TypeInv, NEW t \in Threads, Insert(t)  PROVE  TypeInv'
<1> USE DEF TypeInv, TypeOK
<1> DEFINE key == check[t].key
           window == IF key \in DOMAIN keys THEN keys[key] ELSE NewWindow
<1>1. /\ check[t] \in Check /\ check[t].at = "insert" /\ check[t].window = None
      /\ check[t].now <= clock /\ key \in Callers
    BY DEF Insert, CallOK
<1>2. /\ keys' = [k \in DOMAIN keys \cup {key} |-> IF k = key THEN window ELSE keys[k]]
      /\ hits' = [o \in DOMAIN hits \cup {window} |-> IF o \in DOMAIN hits THEN hits[o] ELSE <<>>]
      /\ check' = [check EXCEPT ![t].window = window, ![t].at = "own"]
    BY DEF Insert
<1>3. /\ window \in Objects
      /\ key \notin DOMAIN keys => window \notin Used(keys, check)
    BY <1>1, NewWindowIsNew
<1>4. \A k \in DOMAIN keys : keys[k] \in Used(keys, check)
    BY LimiterAssumption DEF Used, Range
<1> HIDE DEF key, window
<1>5. /\ check'[t] \in Check /\ check'[t].at = "own" /\ check'[t].now = check[t].now
      /\ check'[t].window = window
    BY <1>1, <1>2, <1>3 DEF Check, Steps
<1>6. check' \in [Threads -> Check] /\ \A u \in Threads \ {t} : check'[u] = check[u]
    BY <1>2, <1>5
<1>7. CallOK(check'[t], clock)
    BY <1>1, <1>3, <1>5, LimiterAssumption DEF CallOK
<1>8. /\ DOMAIN keys' = DOMAIN keys \cup {key} /\ DOMAIN keys' \subseteq Callers
      /\ keys' \in [DOMAIN keys' -> Objects]
    BY <1>1, <1>2, <1>3
<1>9. \A k, l \in DOMAIN keys' : keys'[k] = keys'[l] => k = l
  <2>1. CASE key \in DOMAIN keys
    <3>1. window = keys[key]
        BY <2>1 DEF window
    <3>2. \A k \in DOMAIN keys' : k \in DOMAIN keys /\ keys'[k] = keys[k]
        BY <1>2, <2>1, <3>1
    <3> QED BY <3>2
  <2>2. CASE key \notin DOMAIN keys
    <3>1. \A k \in DOMAIN keys : keys[k] # window
        BY <1>3, <1>4, <2>2
    <3> QED BY <1>2, <1>8, <3>1
  <2> QED BY <2>1, <2>2
<1>10. Used(keys', check') = Used(keys, check) \cup {window}
  <2>1. Range(keys') \cup {window} = Range(keys) \cup {window}
    <3>1. \A k \in DOMAIN keys' : keys'[k] \in Range(keys) \cup {window}
        BY <1>2 DEF Range
    <3>2. \A k \in DOMAIN keys : keys[k] \in Range(keys') \cup {window}
      <4> SUFFICES ASSUME NEW k \in DOMAIN keys  PROVE  keys[k] \in Range(keys') \cup {window}
          OBVIOUS
      <4>1. CASE k = key
          BY <4>1 DEF window
      <4>2. CASE k # key
        <5>1. keys'[k] = keys[k] /\ k \in DOMAIN keys'
            BY <1>2, <4>2
        <5> QED BY <5>1 DEF Range
      <4> QED BY <4>1, <4>2
    <3> QED BY <3>1, <3>2 DEF Range
  <2>2. {check'[u].window : u \in Threads} \cup {None} = {check[u].window : u \in Threads} \cup {window, None}
    <3>1. \A u \in Threads \ {t} : check'[u].window = check[u].window
        BY <1>6
    <3>2. check[t].window = None /\ check'[t].window = window
        BY <1>1, <1>5
    <3> QED BY <3>1, <3>2
  <2>3. window \in {check'[u].window : u \in Threads}
      BY <1>5
  <2> QED BY <1>3, <2>1, <2>2, <2>3, LimiterAssumption DEF Used
<1>11. hits' \in [Used(keys', check') -> Seq(0..clock)]
  <2>1. DOMAIN hits = Used(keys, check)
      OBVIOUS
  <2>2. <<>> \in Seq(0..clock)
      OBVIOUS
  <2> QED BY <1>2, <1>10, <2>1, <2>2
<1>12. UNCHANGED <<clock, all, served, max_tracked_keys, alone>>
    BY DEF Insert, settings
<1>13. \A u \in Threads : CallOK(check[u], clock)'
    BY <1>6, <1>7, <1>12 DEF CallOK
<1> QED BY <1>6, <1>8, <1>9, <1>11, <1>12, <1>13

\* A step of one call that leaves the table of callers alone.
LEMMA TableStays ==
    ASSUME TypeInv, UNCHANGED <<clock, all, keys, served, max_tracked_keys, alone>>,
           hits' \in [Used(keys', check') -> Seq(0..clock)], check' \in [Threads -> Check],
           \A u \in Threads : CallOK(check[u], clock)'
    PROVE  TypeInv'
<1>1. TypeOK'
    BY DEF TypeInv, TypeOK
<1> QED BY <1>1 DEF TypeInv

LEMMA OwnTypes == ASSUME TypeInv, NEW t \in Threads, CheckOwn(t)  PROVE  TypeInv'
<1> USE DEF TypeInv, TypeOK
<1> DEFINE w == check[t].window
           own == Trimmed(hits[w], check[t].now)
           h == [hits EXCEPT ![w] = own]
<1>1. /\ check[t] \in Check /\ check[t].at = "own" /\ w \in Objects /\ check[t].now \in Nat
      /\ check[t].now <= clock
    BY DEF CheckOwn, CallOK, Check
<1>2. clock \in Nat /\ 0..clock \in SUBSET Int
    BY LimiterAssumption
<1>3. w \in DOMAIN hits /\ hits[w] \in Seq(0..clock)
    BY <1>1, LimiterAssumption DEF Used
<1>4. own \in Seq(0..clock)
  <2> DEFINE was == hits[w]
             now == check[t].now
  <2>1. was \in Seq(0..clock) /\ now \in Int
      BY <1>1, <1>3
  <2> HIDE DEF was, now
  <2>2. Trimmed(was, now) \in Seq(0..clock)
      BY <1>2, <2>1, TrimmedIsAnEnd
  <2> QED BY <2>2 DEF was, now
<1>5. /\ hits' = Collected(h, keys, check')
      /\ IF Full(own) THEN End(t, "refusedByOwn", RetryAfter(own, check[t].now))
         ELSE Go(t, "recordOwn")
    BY DEF CheckOwn
<1> HIDE DEF own
<1>6. h \in [Used(keys, check) -> Seq(0..clock)]
    BY <1>3, <1>4
<1> HIDE DEF h
<1>7. /\ check' \in [Threads -> Check] /\ \A u \in Threads \ {t} : check'[u] = check[u]
      /\ check'[t].window \in {w, None} /\ CallOK(check'[t], clock)
  <2>1. CASE Full(own)
    <3>1. own \in Seq(Nat) /\ own # <<>>
        BY <1>2, <1>4, <2>1, SeqMonotonic, EmptySeq, LimiterAssumption DEF Full
    <3>2. RetryAfter(own, check[t].now) \in Nat
        BY <1>1, <3>1, RetryType
    <3>3. /\ check' \in [Threads -> Check]
          /\ \A u \in Threads \ {t} : check'[u] = check[u]
          /\ check'[t].at = "refusedByOwn" /\ check'[t].window = None /\ check'[t].now = 0
        BY <1>5, <2>1, <3>2, EndType
    <3>4. CallOK(check'[t], clock)
        BY <1>2, <3>3 DEF CallOK
    <3> QED BY <3>3, <3>4
  <2>2. CASE ~Full(own)
    <3>1. /\ check' \in [Threads -> Check]
          /\ \A u \in Threads \ {t} : check'[u] = check[u]
          /\ check'[t] = [check[t] EXCEPT !.at = "recordOwn"]
        BY <1>5, <2>2, GoType DEF Steps
    <3>2. check'[t].window = w /\ CallOK(check'[t], clock)
        BY <1>1, <3>1, LimiterAssumption DEF CallOK, Check
    <3> QED BY <3>1, <3>2
  <2> QED BY <2>1, <2>2
<1>8. UNCHANGED <<clock, all, keys, served, max_tracked_keys, alone>>
    BY DEF CheckOwn, settings
<1>9. Used(keys', check') \subseteq Used(keys, check)
    BY <1>7, <1>8, UsedShrinks
<1>10. hits' \in [Used(keys', check') -> Seq(0..clock)]
    BY <1>5, <1>6, <1>8, <1>9, CollectedType
<1>11. \A u \in Threads : CallOK(check[u], clock)'
    BY <1>7, <1>8 DEF CallOK
<1> HIDE DEF TypeInv, TypeOK
<1> QED BY <1>7, <1>8, <1>10, <1>11, TableStays

LEMMA RecordOwnTypes == ASSUME TypeInv, NEW t \in Threads, RecordOwn(t)  PROVE  TypeInv'
<1> USE DEF TypeInv, TypeOK
<1>1. /\ check[t] \in Check /\ check[t].at = "recordOwn" /\ check[t].window \in Objects
      /\ check[t].now \in 0..clock
  <2>1. check[t] \in Check /\ CallOK(check[t], clock) /\ clock \in Nat
      BY LimiterAssumption
  <2>2. check[t].at = "recordOwn"
      BY DEF RecordOwn
  <2> HIDE DEF TypeInv, TypeOK
  <2> QED BY <2>1, <2>2 DEF CallOK, Check
<1>2. check[t].window \in DOMAIN hits /\ hits[check[t].window] \in Seq(0..clock)
    BY <1>1, LimiterAssumption DEF Used
<1>3. Append(hits[check[t].window], check[t].now) \in Seq(0..clock)
    BY <1>1, <1>2, AppendProperties
<1>4. hits' \in [Used(keys, check) -> Seq(0..clock)]
    BY <1>2, <1>3 DEF RecordOwn
<1>5. /\ check' \in [Threads -> Check]
      /\ \A u \in Threads \ {t} : check'[u] = check[u]
      /\ check'[t] = [check[t] EXCEPT !.at = "record"]
    BY GoType DEF RecordOwn, Steps
<1>6. check'[t].window = check[t].window /\ CallOK(check'[t], clock)
    BY <1>1, <1>5, LimiterAssumption DEF CallOK, Check
<1>7. UNCHANGED <<clock, all, keys, served, max_tracked_keys, alone>>
    BY DEF RecordOwn, settings
<1>8. Used(keys', check') = Used(keys, check)
  <2>1. \A u \in Threads : check'[u].window = check[u].window
      BY <1>5, <1>6
  <2> QED BY <1>7, <2>1 DEF Used
<1>9. \A u \in Threads : CallOK(check[u], clock)'
    BY <1>5, <1>6, <1>7 DEF CallOK
<1>10. hits' \in [Used(keys', check') -> Seq(0..clock)]
    BY <1>4, <1>8
<1> HIDE DEF TypeInv, TypeOK
<1> QED BY <1>5, <1>7, <1>9, <1>10, TableStays

LEMMA RecordTypes == ASSUME TypeInv, NEW t \in Threads, Record(t)  PROVE  TypeInv'
<1> USE DEF TypeInv, TypeOK
<1>1. /\ check[t] \in Check /\ check[t].at = "record" /\ check[t].now \in 0..clock
      /\ check[t].who \in Callers \cup {None} /\ clock \in Nat
  <2>1. check[t] \in Check /\ CallOK(check[t], clock) /\ clock \in Nat
      BY LimiterAssumption
  <2>2. check[t].at = "record"
      BY DEF Record
  <2> HIDE DEF TypeInv, TypeOK
  <2> QED BY <2>1, <2>2 DEF CallOK, Check
<1>2. /\ check' \in [Threads -> Check]
      /\ \A u \in Threads \ {t} : check'[u] = check[u]
      /\ check'[t].at = "admitted" /\ check'[t].window = None /\ check'[t].now = 0
    BY EndType DEF Record
<1>3. CallOK(check'[t], clock)
    BY <1>1, <1>2 DEF CallOK
<1>4. UNCHANGED <<clock, keys, max_tracked_keys, alone>>
    BY DEF Record, settings
<1>5. Used(keys', check') \subseteq Used(keys, check)
    BY <1>2, <1>4, UsedShrinks
<1>6. hits' \in [Used(keys', check') -> Seq(0..clock)]
    BY <1>4, <1>5, CollectedType DEF Record
<1>7. all' \in Seq(0..clock)
    BY <1>1, AppendProperties DEF Record
<1>8. served' \in Seq(Served)
  <2> DEFINE r == [who |-> check[t].who, at |-> check[t].now]
  <2>1. r \in Served
      BY <1>1 DEF Served
  <2>2. Append(served, r) \in Seq(Served)
      BY <2>1, AppendProperties
  <2>3. served' = Recent(Append(served, r), clock)
      BY DEF Record
  <2> DEFINE longer == Append(served, r)
  <2>4. longer \in Seq(Served) /\ served' = Recent(longer, clock) /\ clock \in Int
      BY <1>1, <2>2, <2>3
  <2> HIDE DEF longer
  <2> QED BY <2>4, RecentIsAnEnd
<1>9. \A u \in Threads : CallOK(check[u], clock)'
    BY <1>2, <1>3, <1>4 DEF CallOK
<1> QED BY <1>2, <1>4, <1>6, <1>7, <1>8, <1>9

LEMMA TickTypes == ASSUME TypeInv, Tick  PROVE  TypeInv'
<1> USE DEF TypeInv, TypeOK
<1>1. /\ clock' = clock + 1 /\ clock' \in 0..MaxClock /\ clock \in Nat
      /\ UNCHANGED <<all, keys, hits, check, max_tracked_keys, alone>>
    BY LimiterAssumption DEF Tick, settings
<1>2. \A s \in Seq(0..clock) : s \in Seq(0..clock')
  <2>1. 0..clock \subseteq 0..clock'
      BY <1>1
  <2> QED BY <2>1, SeqMonotonic
<1>3. all' \in Seq(0..clock') /\ hits' \in [Used(keys', check') -> Seq(0..clock')]
    BY <1>1, <1>2
<1>4. served' \in Seq(Served)
    BY <1>1, RecentIsAnEnd DEF Tick
<1>5. \A u \in Threads : CallOK(check[u], clock)'
  <2>1. \A u \in Threads : check[u].now \in Nat
      BY DEF Check
  <2> QED BY <1>1, <2>1 DEF CallOK
<1> QED BY <1>1, <1>3, <1>4, <1>5

LEMMA StepTypes == TypeInv /\ [Next]_limiterVars => TypeInv'
<1> SUFFICES ASSUME TypeInv, [Next]_limiterVars  PROVE  TypeInv'
    OBVIOUS
<1>1. CASE UNCHANGED limiterVars
  <2>1. UNCHANGED <<clock, all, keys, hits, check, max_tracked_keys, alone, served>>
      BY <1>1 DEF limiterVars
  <2> QED BY <2>1 DEF TypeInv, TypeOK, CallOK, Used
<1>2. CASE Tick
    BY <1>2, TickTypes
<1>3. ASSUME NEW t \in Threads, Arrive(t) \/ Checks(t) \/ Leave(t)  PROVE  TypeInv'
    BY <1>3, ArriveTypes, OverallTypes, GetTypes, SizeTypes, SweepTypes, DropTypes, RoomTypes,
       InsertTypes, OwnTypes, RecordOwnTypes, RecordTypes, LeaveTypes DEF Checks
<1> QED BY <1>1, <1>2, <1>3 DEF Next

\* Every variable of the limiter has its type, and no two callers are counted in
\* one window: what a thread holds is the window of a caller, or one a sweep has
\* dropped.
THEOREM LimiterTypeCorrect == Spec => []TypeOK
<1>1. TypeInv => TypeOK
    BY DEF TypeInv
<1> QED BY InitTypes, StepTypes, <1>1, PTL DEF Spec

-----------------------------------------------------------------------------
(* Where a call can go *)

LEMMA OneMoves ==
    ASSUME TypeInv, NEW t \in Threads, Arrive(t) \/ Checks(t) \/ Leave(t)
    PROVE  \A u \in Threads \ {t} : check'[u] = check[u]
BY DEF Arrive, Checks, CheckOverall, Get, Size, Sweep, Drop, Room, Insert, CheckOwn, RecordOwn,
       Record, Leave, Go, End, TypeInv, TypeOK

\* The step a call is at after each of its actions.
LEMMA Moves ==
    ASSUME TypeInv, NEW t \in Threads
    PROVE  /\ Arrive(t) => check'[t].at = "overall"
           /\ CheckOverall(t) => \/ check'[t].at = "refusedByAll"
                                 \/ check'[t].at = "get" /\ Len(all') < Overall
           /\ Get(t) => check'[t].at \in {"own", "size"}
           /\ Size(t) => check'[t].at \in {"room", "sweep"}
           /\ Sweep(t) => check'[t].at \in {"failed", "drop", "sweep"}
           /\ Drop(t) => check'[t].at \in {"failed", "drop"}
           /\ Room(t) => \/ check'[t].at = "insert" /\ HasRoom
                         \/ check'[t].at = "record"
           /\ Insert(t) => check'[t].at = "own"
           /\ CheckOwn(t) => check'[t].at \in {"refusedByOwn", "recordOwn"}
           /\ RecordOwn(t) => check'[t].at = "record"
           /\ Record(t) => check'[t].at = "admitted"
           /\ Leave(t) => check'[t].at = "idle"
<1>1. check \in [Threads -> Check] /\ check[t] \in Check
    BY DEF TypeInv, TypeOK
<1>2. \A step \in Steps : Go(t, step) => check'[t].at = step
    BY <1>1 DEF Go, Check
<1>3. \A step \in Steps : \A retry : End(t, step, retry) => check'[t].at = step
    BY <1>1 DEF End, Idle
<1> USE <1>1
<1>4. Arrive(t) => check'[t].at = "overall"
    BY DEF Arrive, Idle
<1>5. CheckOverall(t) => \/ check'[t].at = "refusedByAll"
                         \/ check'[t].at = "get" /\ Len(all') < Overall
  <2> SUFFICES ASSUME CheckOverall(t)
               PROVE  \/ check'[t].at = "refusedByAll"
                      \/ check'[t].at = "get" /\ Len(all') < Overall
      OBVIOUS
  <2>1. CASE Len(all') >= Overall
      BY <2>1, <1>3 DEF CheckOverall, Steps
  <2>2. CASE ~(Len(all') >= Overall)
    <3>1. check'[t].at = "get"
        BY <2>2, <1>2 DEF CheckOverall, Steps
    <3>2. TypeOK'
        BY OverallTypes DEF TypeInv
    <3>3. Len(all') \in Nat
        BY <3>2 DEF TypeOK
    <3> QED BY <2>2, <3>1, <3>3, LimiterAssumption
  <2> QED BY <2>1, <2>2
<1>6. Get(t) => check'[t].at \in {"own", "size"}
    BY <1>2 DEF Get, Check, Steps
<1>7. Size(t) => check'[t].at \in {"room", "sweep"}
    BY <1>2 DEF Size, Check, Steps
<1>8. Sweep(t) => check'[t].at \in {"failed", "drop", "sweep"}
  <2> SUFFICES ASSUME Sweep(t)  PROVE  check'[t].at \in {"failed", "drop", "sweep"}
      OBVIOUS
  <2>1. CASE End(t, "failed", 0)
      BY <2>1, <1>3 DEF Steps
  <2>2. CASE check' = [check EXCEPT ![t].at = "drop", ![t].seen = {}, ![t].size = 0]
      BY <2>2 DEF Check
  <2>3. ASSUME NEW k \in DOMAIN keys,
               check' = [check EXCEPT ![t].seen = @ \cup {k},
                              ![t].stale = IF Stale(k, check[t].now) THEN @ \cup {k} ELSE @]
        PROVE  check'[t].at = "sweep"
      BY <2>3 DEF Sweep, Check
  <2> QED BY <2>1, <2>2, <2>3 DEF Sweep
<1>9. Drop(t) => check'[t].at \in {"failed", "drop"}
    BY <1>3 DEF Drop, Check, Steps
<1>10. Room(t) => \/ check'[t].at = "insert" /\ HasRoom
                  \/ check'[t].at = "record"
    BY <1>2 DEF Room, Steps
<1>11. Insert(t) => check'[t].at = "own"
    BY DEF Insert, Check
<1>12. CheckOwn(t) => check'[t].at \in {"refusedByOwn", "recordOwn"}
    BY <1>2, <1>3 DEF CheckOwn, Steps
<1>13. RecordOwn(t) => check'[t].at = "record"
    BY <1>2 DEF RecordOwn, Steps
<1>14. Record(t) => check'[t].at = "admitted"
    BY <1>3 DEF Record, Steps
<1>15. Leave(t) => check'[t].at = "idle"
    BY DEF Leave, Idle
<1> QED BY <1>4, <1>5, <1>6, <1>7, <1>8, <1>9, <1>10, <1>11, <1>12, <1>13, <1>14, <1>15

-----------------------------------------------------------------------------
(* The table of callers *)

\* A call that has found room has not taken it yet: it may be one too many, but
\* at the first of them there was room.
Inserting == {t \in Threads : check[t].at = "insert"}

TableInv ==
    Cardinality(DOMAIN keys) + Cardinality(Inserting)
        <= max_tracked_keys + Cardinality(Threads) - 1

LEMMA Counted ==
    ASSUME NEW S \in SUBSET Threads
    PROVE  /\ IsFiniteSet(S) /\ Cardinality(S) \in Nat /\ Cardinality(S) <= Cardinality(Threads)
           /\ Cardinality(Threads) \in Nat /\ Cardinality(Threads) >= 1
<1>1. IsFiniteSet(Threads) /\ Threads # {} /\ Cardinality(Threads) \in Nat
    BY LimiterAssumption, FS_CardinalityType
<1>2. Cardinality(Threads) # 0
    BY <1>1, FS_EmptySet
<1> QED BY <1>1, <1>2, FS_Subset, FS_CardinalityType

LEMMA InitTable == Init => TableInv
<1> SUFFICES ASSUME Init  PROVE  TableInv
    OBVIOUS
<1>1. DOMAIN keys = {} /\ Inserting = {}
    BY DEF Init, Inserting, Idle
<1>2. max_tracked_keys \in Nat
    BY LimiterAssumption DEF Init
<1> QED BY <1>1, <1>2, Counted, FS_EmptySet DEF TableInv

LEMMA StepTable == TypeInv /\ TableInv /\ [Next]_limiterVars => TableInv'
<1> SUFFICES ASSUME TypeInv, TableInv, [Next]_limiterVars  PROVE  TableInv'
    OBVIOUS
<1>1. /\ IsFiniteSet(DOMAIN keys) /\ Cardinality(DOMAIN keys) \in Nat
      /\ max_tracked_keys \in Nat /\ max_tracked_keys' = max_tracked_keys
  <2>1. max_tracked_keys \in Nat
      BY LimiterAssumption DEF TypeInv, TypeOK
  <2>2. max_tracked_keys' = max_tracked_keys
      BY DEF Next, Arrive, Checks, CheckOverall, Get, Size, Sweep, Drop, Room, Insert,
             CheckOwn, RecordOwn, Record, Leave, Tick, limiterVars, settings
  <2> QED BY <2>1, <2>2, TableIsFinite DEF TypeInv
<1>2. Inserting \in SUBSET Threads /\ Inserting' \in SUBSET Threads
    BY DEF Inserting
<1>3. ASSUME DOMAIN keys' \subseteq DOMAIN keys, Inserting' \subseteq Inserting
      PROVE  TableInv'
  <2>1. Cardinality(DOMAIN keys') <= Cardinality(DOMAIN keys)
        /\ Cardinality(DOMAIN keys') \in Nat
      BY <1>1, <1>3, FS_Subset, FS_CardinalityType
  <2>2. /\ Cardinality(Inserting') <= Cardinality(Inserting)
        /\ Cardinality(Inserting') \in Nat /\ Cardinality(Inserting) \in Nat
      BY <1>2, <1>3, Counted, FS_Subset
  <2> QED BY <1>1, <1>2, <2>1, <2>2, Counted DEF TableInv
<1>4. CASE UNCHANGED limiterVars \/ Tick
    BY <1>3, <1>4 DEF limiterVars, Tick, Inserting
<1>5. ASSUME NEW t \in Threads, Room(t)  PROVE  TableInv'
  <2>1. \A u \in Threads \ {t} : check'[u] = check[u]
      BY <1>5, OneMoves DEF Checks
  <2>2. keys' = keys
      BY <1>5 DEF Room
  <2>3. CASE check'[t].at = "insert" /\ HasRoom
      BY <1>1, <1>2, <2>2, <2>3, Counted DEF TableInv, HasRoom
  <2>4. CASE check'[t].at = "record"
      BY <1>3, <2>1, <2>2, <2>4 DEF Inserting
  <2> QED BY <1>5, <2>3, <2>4, Moves
<1>6. ASSUME NEW t \in Threads, Insert(t)  PROVE  TableInv'
  <2>1. \A u \in Threads \ {t} : check'[u] = check[u]
      BY <1>6, OneMoves DEF Checks
  <2>2. check[t].at = "insert" /\ check'[t].at = "own"
      BY <1>6, Moves DEF Insert
  <2>3. Inserting' = Inserting \ {t} /\ t \in Inserting
      BY <2>1, <2>2 DEF Inserting
  <2>4. Cardinality(Inserting') = Cardinality(Inserting) - 1
      BY <1>2, <2>3, Counted, FS_RemoveElement
  <2>5. DOMAIN keys' = DOMAIN keys \cup {check[t].key}
      BY <1>6 DEF Insert
  <2>6. Cardinality(DOMAIN keys') <= Cardinality(DOMAIN keys) + 1
        /\ Cardinality(DOMAIN keys') \in Nat
    <3> DEFINE D == DOMAIN keys
               key == check[t].key
    <3>1. IsFiniteSet(D) /\ Cardinality(D) \in Nat /\ DOMAIN keys' = D \cup {key}
        BY <1>1, <2>5
    <3> HIDE DEF D, key
    <3>2. /\ IsFiniteSet(D \cup {key}) /\ Cardinality(D \cup {key}) <= Cardinality(D) + 1
          /\ Cardinality(D \cup {key}) \in Nat
      <4>1. /\ IsFiniteSet(D \cup {key})
            /\ Cardinality(D \cup {key}) = IF key \in D THEN Cardinality(D) ELSE Cardinality(D) + 1
          BY <3>1, FS_AddElement
      <4> QED BY <3>1, <4>1
    <3> QED BY <3>1, <3>2 DEF D
  <2> QED BY <1>1, <1>2, <2>4, <2>6, Counted DEF TableInv
<1>7. ASSUME NEW t \in Threads,
             Arrive(t) \/ Leave(t) \/ (Checks(t) /\ ~Room(t) /\ ~Insert(t))
      PROVE  TableInv'
  <2>1. \A u \in Threads \ {t} : check'[u] = check[u]
      BY <1>7, OneMoves
  <2>2. check'[t].at # "insert"
      BY <1>7, Moves DEF Checks
  <2>3. DOMAIN keys' \subseteq DOMAIN keys
      BY <1>7 DEF Arrive, Leave, Checks, CheckOverall, Get, Size, Sweep, Drop, CheckOwn,
                  RecordOwn, Record, Restrict
  <2>4. Inserting' \subseteq Inserting
      BY <2>1, <2>2 DEF Inserting
  <2> QED BY <1>3, <2>3, <2>4
<1> QED BY <1>4, <1>5, <1>6, <1>7 DEF Next

\* The table of callers outgrows its limit by no more than the threads that
\* found room in it together, whatever addresses the callers have.
THEOREM TableStaysBounded == Spec => []TableBounded
<1>1. TypeInv /\ TableInv => TableBounded
  <2> SUFFICES ASSUME TypeInv, TableInv  PROVE  TableBounded
      OBVIOUS
  <2>1. Inserting \in SUBSET Threads
      BY DEF Inserting
  <2>2. max_tracked_keys \in Nat /\ Cardinality(DOMAIN keys) \in Nat
      BY TableIsFinite, LimiterAssumption DEF TypeInv, TypeOK
  <2> QED BY <2>1, <2>2, Counted DEF TableInv, TableBounded
<1> QED BY InitTypes, StepTypes, InitTable, StepTable, <1>1, PTL DEF Spec

-----------------------------------------------------------------------------
(* The work *)

\* The times of short are the last ones of long.
IsEnd(short, long) ==
    /\ Len(short) <= Len(long)
    /\ \A i \in 1..Len(short) : short[i].at = long[Len(long) - Len(short) + i]

\* Calls that have passed the ceiling and are not in its window yet.
Passing == {t \in Threads : check[t].at \in {"get", "size", "sweep", "drop", "room", "insert",
                                             "own", "recordOwn", "record"}}

\* The ceiling's window still has every request of the last Window ticks: a trim
\* by a late thread, whose now is behind the clock, takes none of them.
WorkInv ==
    /\ Len(all) + Cardinality(Passing) <= Overall + Cardinality(Threads) - 1
    /\ IsEnd(served, all)
    /\ served # <<>> => served[1].at > clock - Window

LEMMA InitWork == Init => WorkInv
<1> SUFFICES ASSUME Init  PROVE  WorkInv
    OBVIOUS
<1>1. Passing = {} /\ all = <<>> /\ served = <<>>
    BY DEF Init, Passing, Idle
<1>2. Cardinality(Passing) = 0
    BY <1>1, FS_EmptySet
<1> QED BY <1>1, <1>2, Counted, LimiterAssumption DEF WorkInv, IsEnd

LEMMA EndOfEnd ==
    ASSUME NEW s \in Seq(Served), NEW long \in Seq(Nat), IsEnd(s, long), NEW now \in Int
    PROVE  IsEnd(Recent(s, now), long)
<1> DEFINE r == Recent(s, now)
<1>1. /\ r \in Seq(Served) /\ Len(r) <= Len(s)
      /\ \A i \in 1..Len(r) : r[i] = s[Len(s) - Len(r) + i]
    BY RecentIsAnEnd
<1> HIDE DEF r
<1>2. Len(r) \in Nat /\ Len(s) \in Nat /\ Len(long) \in Nat
    BY <1>1
<1>3. ASSUME NEW i \in 1..Len(r)  PROVE  r[i].at = long[Len(long) - Len(r) + i]
  <2> DEFINE j == Len(s) - Len(r) + i
  <2>1. j \in 1..Len(s) /\ r[i] = s[j] /\ Len(long) - Len(s) + j = Len(long) - Len(r) + i
      BY <1>1, <1>2
  <2> HIDE DEF j
  <2>2. s[j].at = long[Len(long) - Len(s) + j]
      BY <2>1 DEF IsEnd
  <2> QED BY <2>1, <2>2
<1>4. IsEnd(r, long)
    BY <1>1, <1>2, <1>3 DEF IsEnd
<1> QED BY <1>4 DEF r

LEMMA EndGrows ==
    ASSUME NEW s \in Seq(Served), NEW long \in Seq(Nat), IsEnd(s, long), NEW r \in Served
    PROVE  IsEnd(Append(s, r), Append(long, r.at))
<1>1. r.at \in Nat /\ Len(s) \in Nat /\ Len(long) \in Nat
    BY DEF Served
<1>2. /\ Len(Append(s, r)) = Len(s) + 1 /\ Append(s, r)[Len(s) + 1] = r
      /\ \A i \in 1..Len(s) : Append(s, r)[i] = s[i]
    BY AppendProperties
<1>3. /\ Len(Append(long, r.at)) = Len(long) + 1 /\ Append(long, r.at)[Len(long) + 1] = r.at
      /\ \A i \in 1..Len(long) : Append(long, r.at)[i] = long[i]
    BY <1>1, AppendProperties
<1>4. ASSUME NEW i \in 1..Len(s)
      PROVE  Append(s, r)[i].at = Append(long, r.at)[Len(long) - Len(s) + i]
  <2>1. Len(long) - Len(s) + i \in 1..Len(long)
      BY <1>1 DEF IsEnd
  <2>2. Append(s, r)[i] = s[i]
      BY <1>2
  <2>3. Append(long, r.at)[Len(long) - Len(s) + i] = long[Len(long) - Len(s) + i]
      BY <1>3, <2>1
  <2> QED BY <2>2, <2>3 DEF IsEnd
<1>5. ASSUME NEW i \in 1..(Len(s) + 1)
      PROVE  Append(s, r)[i].at = Append(long, r.at)[Len(long) + 1 - (Len(s) + 1) + i]
  <2>1. CASE i = Len(s) + 1
    <3>1. Len(long) + 1 - (Len(s) + 1) + i = Len(long) + 1
        BY <1>1, <2>1
    <3> QED BY <1>2, <1>3, <2>1, <3>1
  <2>2. CASE i # Len(s) + 1
    <3>1. i \in 1..Len(s) /\ Len(long) + 1 - (Len(s) + 1) + i = Len(long) - Len(s) + i
        BY <1>1, <2>2
    <3> QED BY <1>4, <3>1
  <2> QED BY <2>1, <2>2
<1>6. Len(s) + 1 <= Len(long) + 1
    BY <1>1 DEF IsEnd
<1> DEFINE a == Append(s, r)
           b == Append(long, r.at)
<1>7. Len(a) = Len(s) + 1 /\ Len(b) = Len(long) + 1
    BY <1>2, <1>3
<1>8. \A i \in 1..(Len(s) + 1) : a[i].at = b[Len(long) + 1 - (Len(s) + 1) + i]
    BY <1>5
<1> HIDE DEF a, b
<1>9. IsEnd(a, b)
    BY <1>6, <1>7, <1>8 DEF IsEnd
<1> QED BY <1>9 DEF a, b

LEMMA TrimKeepsEnd ==
    ASSUME NEW s \in Seq(Served), NEW long \in Seq(Nat), IsEnd(s, long),
           NEW now \in Nat, NEW time \in Nat, now <= time,
           s # <<>> => s[1].at > time - Window
    PROVE  IsEnd(s, Trimmed(long, now)) /\ Len(Trimmed(long, now)) <= Len(long)
<1> DEFINE r == Trimmed(long, now)
<1>0. Nat \in SUBSET Int /\ now \in Int
    OBVIOUS
<1>1. /\ r \in Seq(Nat) /\ Len(r) <= Len(long)
      /\ \A i \in 1..Len(r) : r[i] = long[Len(long) - Len(r) + i]
      /\ \A i \in 1..Len(long) : long[i] > now - Window => Len(r) >= Len(long) - i + 1
    BY <1>0, TrimmedIsAnEnd
<1> HIDE DEF r
<1>2. Len(r) \in Nat /\ Len(s) \in Nat /\ Len(long) \in Nat
    BY <1>1
<1>3. Len(s) <= Len(r)
  <2>1. CASE s = <<>>
      BY <1>2, <2>1
  <2>2. CASE s # <<>>
    <3> DEFINE i == Len(long) - Len(s) + 1
    <3>1. Len(s) >= 1
        BY <1>2, <2>2, EmptySeq
    <3>2. i \in 1..Len(long) /\ Len(long) - i + 1 = Len(s)
        BY <1>2, <3>1 DEF IsEnd
    <3>3. long[i] = s[1].at
        BY <1>2, <3>1 DEF IsEnd
    <3> HIDE DEF i
    <3>4. long[i] \in Nat
        BY <3>2, LenProperties
    <3>5. long[i] > now - Window
        BY <2>2, <3>3, <3>4, LimiterAssumption
    <3> QED BY <1>1, <3>2, <3>5
  <2> QED BY <2>1, <2>2
<1>4. ASSUME NEW i \in 1..Len(s)  PROVE  s[i].at = r[Len(r) - Len(s) + i]
  <2>1. Len(r) - Len(s) + i \in 1..Len(r)
      BY <1>2, <1>3
  <2>2. r[Len(r) - Len(s) + i] = long[Len(long) - Len(r) + (Len(r) - Len(s) + i)]
      BY <1>1, <2>1
  <2>3. Len(long) - Len(r) + (Len(r) - Len(s) + i) = Len(long) - Len(s) + i
      BY <1>2
  <2> QED BY <2>2, <2>3 DEF IsEnd
<1>5. IsEnd(s, r)
    BY <1>3, <1>4 DEF IsEnd
<1> QED BY <1>1, <1>5 DEF r

LEMMA StepWork == TypeInv /\ WorkInv /\ [Next]_limiterVars => WorkInv'
<1> SUFFICES ASSUME TypeInv, WorkInv, [Next]_limiterVars  PROVE  WorkInv'
    OBVIOUS
<1>1. /\ clock \in Nat /\ all \in Seq(Nat) /\ served \in Seq(Served) /\ Overall \in Nat \ {0}
      /\ Len(all) \in Nat
  <2>1. clock \in Nat /\ 0..clock \subseteq Nat
      BY LimiterAssumption DEF TypeInv, TypeOK
  <2>2. all \in Seq(Nat)
      BY <2>1, SeqMonotonic DEF TypeInv, TypeOK
  <2> QED BY <2>1, <2>2, LimiterAssumption DEF TypeInv
<1>2. Passing \in SUBSET Threads /\ Passing' \in SUBSET Threads
    BY DEF Passing
<1>3. ASSUME Passing' \subseteq Passing
      PROVE  /\ Cardinality(Passing') <= Cardinality(Passing)
             /\ Cardinality(Passing') \in Nat /\ Cardinality(Passing) \in Nat
    BY <1>2, <1>3, Counted, FS_Subset
<1>4. CASE UNCHANGED limiterVars
    BY <1>4 DEF limiterVars, WorkInv, IsEnd, Passing
<1>5. CASE Tick
  <2>1. /\ clock' = clock + 1 /\ served' = Recent(served, clock + 1) /\ all' = all
        /\ Passing' = Passing
      BY <1>5 DEF Tick, Passing
  <2>2. IsEnd(served', all)
      BY <1>1, <2>1, EndOfEnd DEF WorkInv
  <2> DEFINE time == clock + 1
  <2>3. time \in Int /\ served' = Recent(served, time) /\ clock' = time
      BY <1>1, <2>1
  <2> HIDE DEF time
  <2>4. served' # <<>> => served'[1].at > clock' - Window
      BY <1>1, <2>3, RecentIsAnEnd
  <2> QED BY <2>1, <2>2, <2>4 DEF WorkInv
<1>6. ASSUME NEW t \in Threads, CheckOverall(t)  PROVE  WorkInv'
  <2>1. \A u \in Threads \ {t} : check'[u] = check[u]
      BY <1>6, OneMoves DEF Checks
  <2>2. /\ all' = Trimmed(all, check[t].now) /\ UNCHANGED <<clock, served>>
        /\ check[t].now \in Nat /\ check[t].now <= clock
      BY <1>6 DEF CheckOverall, TypeInv, TypeOK, Check, CallOK
  <2>3. IsEnd(served, all') /\ Len(all') <= Len(all)
      BY <1>1, <2>2, TrimKeepsEnd DEF WorkInv
  <2>4. Len(all') \in Nat
    <3>1. TypeOK'
        BY <1>6, OverallTypes DEF TypeInv
    <3> QED BY <3>1 DEF TypeOK
  <2>5. Len(all') + Cardinality(Passing') <= Overall + Cardinality(Threads) - 1
    <3>1. CASE check'[t].at = "refusedByAll"
      <4>1. Passing' \subseteq Passing
          BY <2>1, <3>1 DEF Passing
      <4> QED BY <1>1, <1>2, <1>3, <2>3, <2>4, <4>1, Counted DEF WorkInv
    <3>2. CASE check'[t].at = "get" /\ Len(all') < Overall
        BY <1>1, <1>2, <2>4, <3>2, Counted
    <3> QED BY <1>6, <3>1, <3>2, Moves
  <2> QED BY <2>2, <2>3, <2>5 DEF WorkInv
<1>7. ASSUME NEW t \in Threads, Record(t)  PROVE  WorkInv'
  <2> DEFINE r == [who |-> check[t].who, at |-> check[t].now]
             longer == Append(served, r)
  <2>1. \A u \in Threads \ {t} : check'[u] = check[u]
      BY <1>7, OneMoves DEF Checks
  <2>2. check[t].at = "record" /\ check'[t].at = "admitted"
      BY <1>7, Moves DEF Record
  <2>3. Passing' = Passing \ {t} /\ t \in Passing
      BY <2>1, <2>2 DEF Passing
  <2>4. Cardinality(Passing') = Cardinality(Passing) - 1
      BY <1>2, <2>3, Counted, FS_RemoveElement
  <2>5. /\ r \in Served /\ r.at = check[t].now
        /\ all' = Append(all, check[t].now) /\ served' = Recent(longer, clock) /\ clock' = clock
      BY <1>7 DEF Record, Served, TypeInv, TypeOK, Check
  <2> HIDE DEF r
  <2>6. longer \in Seq(Served) /\ IsEnd(longer, all')
      BY <1>1, <2>5, EndGrows, AppendProperties DEF WorkInv
  <2>7. all' \in Seq(Nat) /\ Len(all') = Len(all) + 1
      BY <1>1, <2>5, AppendProperties DEF Served
  <2> HIDE DEF longer
  <2>8. clock \in Int
      BY <1>1
  <2>9. IsEnd(Recent(longer, clock), all')
      BY <2>6, <2>7, <2>8, EndOfEnd
  <2>10. Recent(longer, clock) # <<>> => Recent(longer, clock)[1].at > clock - Window
      BY <2>6, <2>8, RecentIsAnEnd
  <2>11. Len(all') + Cardinality(Passing') <= Overall + Cardinality(Threads) - 1
    <3>1. Cardinality(Passing) \in Nat /\ Cardinality(Threads) \in Nat
        BY <1>2, Counted
    <3>2. Len(all) + Cardinality(Passing) <= Overall + Cardinality(Threads) - 1
        BY DEF WorkInv
    <3> QED BY <1>1, <2>4, <2>7, <3>1, <3>2
  <2> QED BY <2>5, <2>9, <2>10, <2>11 DEF WorkInv
<1>8. ASSUME NEW t \in Threads,
             Arrive(t) \/ Leave(t) \/ (Checks(t) /\ ~CheckOverall(t) /\ ~Record(t))
      PROVE  WorkInv'
  <2>1. \A u \in Threads \ {t} : check'[u] = check[u]
      BY <1>8, OneMoves
  <2>2. UNCHANGED <<clock, all, served>>
      BY <1>8 DEF Arrive, Leave, Checks, Get, Size, Sweep, Drop, Room, Insert, CheckOwn, RecordOwn
  <2>3. t \in Passing' => t \in Passing
      BY <1>8, Moves DEF Checks, Passing, Get, Size, Sweep, Drop, Room, Insert, CheckOwn, RecordOwn
  <2>4. Passing' \subseteq Passing
      BY <2>1, <2>3 DEF Passing
  <2>5. /\ Cardinality(Passing') <= Cardinality(Passing)
        /\ Cardinality(Passing') \in Nat /\ Cardinality(Passing) \in Nat
      BY <1>3, <2>4
  <2>6. Cardinality(Threads) \in Nat
      BY <1>2, Counted
  <2>7. Len(all') + Cardinality(Passing') <= Overall + Cardinality(Threads) - 1
    <3> HIDE DEF Passing
    <3> QED BY <1>1, <2>2, <2>5, <2>6 DEF WorkInv
  <2>8. IsEnd(served', all') /\ (served' # <<>> => served'[1].at > clock' - Window)
      BY <2>2 DEF WorkInv, IsEnd
  <2> QED BY <2>7, <2>8 DEF WorkInv
<1> QED BY <1>4, <1>5, <1>6, <1>7, <1>8 DEF Next

\* Requests let through in one window exceed the ceiling by no more than the
\* threads that passed it together, whoever they come from.
THEOREM WorkStaysBounded == Spec => []WorkBounded
<1>1. TypeInv /\ WorkInv => WorkBounded
  <2> SUFFICES ASSUME TypeInv, WorkInv  PROVE  WorkBounded
      OBVIOUS
  <2>1. Passing \in SUBSET Threads
      BY DEF Passing
  <2>2. Len(all) \in Nat /\ Len(served) \in Nat /\ Overall \in Nat
      BY LimiterAssumption DEF TypeInv, TypeOK
  <2> QED BY <2>1, <2>2, Counted DEF WorkInv, IsEnd, WorkBounded
<1> QED BY InitTypes, StepTypes, InitWork, StepWork, <1>1, PTL DEF Spec

-----------------------------------------------------------------------------
(* Counting hits *)

\* How many of the hits s a window at time `at' has.
HitsAt(s, at) == Cardinality({i \in 1..Len(s) : s[i] > at - Window})

\* How many of the requests s are in it: all of them, and those of caller c.
AllAt(s, at) == Cardinality({i \in 1..Len(s) : s[i].at > at - Window})
OwnAt(s, c, at) == Cardinality({i \in 1..Len(s) : s[i].who = c /\ s[i].at > at - Window})

\* T are the indexes of S as seen from the last m of n.
EndIndexes(T, m, S, n) ==
    /\ n \in Nat /\ m \in 0..n /\ S \subseteq 1..n /\ T \subseteq 1..m
    /\ \A i \in 1..m : i \in T <=> n - m + i \in S

\* Of a set of indexes the end of a sequence has as many as it has places for,
\* and all of them if the beginning has none.
LEMMA EndCount ==
    ASSUME NEW n, NEW m, NEW S, NEW T, EndIndexes(T, m, S, n)
    PROVE  /\ Cardinality(S) \in Nat /\ Cardinality(S) <= n
           /\ Cardinality(T) \in Nat /\ Cardinality(T) <= Cardinality(S)
           /\ (\A i \in S : i > n - m) => Cardinality(T) = Cardinality(S)
<1> USE DEF EndIndexes
<1>1. IsFiniteSet(S) /\ Cardinality(S) \in Nat /\ Cardinality(S) <= n
  <2>1. IsFiniteSet(1..n) /\ Cardinality(1..n) = n
      BY FS_Interval
  <2> QED BY <2>1, FS_Subset, FS_CardinalityType
<1> DEFINE f == [i \in T |-> n - m + i]
<1>2. f \in Injection(T, S)
  <2>1. f \in [T -> S]
      OBVIOUS
  <2>2. \A a, b \in T : f[a] = f[b] => a = b
      OBVIOUS
  <2> HIDE DEF f
  <2> QED BY <2>1, <2>2 DEF Injection, IsInjective
<1>3. (\A i \in S : i > n - m) => f \in Surjection(T, S)
  <2> SUFFICES ASSUME \A i \in S : i > n - m  PROVE  f \in Surjection(T, S)
      OBVIOUS
  <2>1. ASSUME NEW j \in S  PROVE  \E i \in T : f[i] = j
    <3>1. j - (n - m) \in 1..m /\ n - m + (j - (n - m)) = j
        OBVIOUS
    <3>2. j - (n - m) \in T
        BY <3>1
    <3> QED BY <3>1, <3>2
  <2>2. f \in [T -> S]
      OBVIOUS
  <2> HIDE DEF f
  <2> QED BY <2>1, <2>2 DEF Surjection
<1> HIDE DEF f
<1>4. IsFiniteSet(T) /\ Cardinality(T) <= Cardinality(S)
      /\ (Cardinality(T) = Cardinality(S) <=> f \in Surjection(T, S))
    BY <1>1, <1>2, FS_Injection
<1>5. Cardinality(T) \in Nat
    BY <1>4, FS_CardinalityType
<1> QED BY <1>1, <1>3, <1>4, <1>5

\* An index more.
LEMMA MoreCount ==
    ASSUME NEW n \in Nat, NEW S \in SUBSET (1..n)
    PROVE  Cardinality(S \cup {n + 1}) = Cardinality(S) + 1
<1>1. IsFiniteSet(1..n) /\ n + 1 \notin S
    BY FS_Interval
<1>2. IsFiniteSet(S)
    BY <1>1, FS_Subset
<1> QED BY <1>1, <1>2, FS_AddElement

LEMMA HitsType ==
    ASSUME NEW s \in Seq(Nat), NEW at \in Nat
    PROVE  HitsAt(s, at) \in Nat /\ HitsAt(s, at) <= Len(s)
<1> DEFINE S == {i \in 1..Len(s) : s[i] > at - Window}
<1>1. IsFiniteSet(1..Len(s)) /\ Cardinality(1..Len(s)) = Len(s)
  <2> DEFINE n == Len(s)
  <2>1. n \in Nat
      OBVIOUS
  <2> HIDE DEF n
  <2>2. IsFiniteSet(1..n) /\ Cardinality(1..n) = n
      BY <2>1, FS_Interval
  <2> QED BY <2>2 DEF n
<1>2. S \in SUBSET (1..Len(s))
    OBVIOUS
<1> HIDE DEF S
<1>3. IsFiniteSet(S) /\ Cardinality(S) <= Len(s) /\ Cardinality(S) \in Nat
    BY <1>1, <1>2, FS_Subset, FS_CardinalityType
<1> QED BY <1>3 DEF HitsAt, S

\* Trimming takes nothing that is in the window now, or will be in one later.
LEMMA HitsTrim ==
    ASSUME NEW s \in Seq(Nat), NEW now \in Nat, NEW at \in Nat
    PROVE  LET r == Trimmed(s, now) IN
           /\ r \in Seq(Nat) /\ Len(r) <= Len(s)
           /\ HitsAt(r, at) <= HitsAt(s, at)
           /\ now <= at => HitsAt(r, at) = HitsAt(s, at)
<1> DEFINE r == Trimmed(s, now)
           n == Len(s)
           m == Len(r)
           S == {i \in 1..n : s[i] > at - Window}
           T == {i \in 1..m : r[i] > at - Window}
<1>1. /\ r \in Seq(Nat) /\ m <= n
      /\ \A i \in 1..m : r[i] = s[n - m + i]
      /\ \A i \in 1..n : s[i] > now - Window => m >= n - i + 1
  <2>1. Nat \in SUBSET Int /\ now \in Int
      OBVIOUS
  <2> QED BY <2>1, TrimmedIsAnEnd
<1>2. HitsAt(r, at) = Cardinality(T) /\ HitsAt(s, at) = Cardinality(S)
    BY DEF HitsAt
<1> HIDE DEF r
<1>3. n \in Nat /\ m \in 0..n
    BY <1>1
<1>4. \A i \in 1..n : s[i] \in Nat
    OBVIOUS
<1> HIDE DEF n, m
<1>5. \A i \in 1..m : i \in T <=> n - m + i \in S
  <2>1. \A i \in 1..m : n - m + i \in 1..n
      BY <1>3
  <2> QED BY <1>1, <2>1
<1>6. now <= at => \A i \in S : i > n - m
    BY <1>1, <1>3, <1>4, LimiterAssumption
<1> HIDE DEF S, T
<1>7. S \in SUBSET (1..n) /\ T \in SUBSET (1..m)
    BY DEF S, T
<1>8. EndIndexes(T, m, S, n)
    BY <1>3, <1>5, <1>7 DEF EndIndexes
<1>9. Cardinality(T) <= Cardinality(S) /\ (now <= at => Cardinality(T) = Cardinality(S))
    BY <1>6, <1>8, EndCount
<1> QED BY <1>1, <1>2, <1>9 DEF r, n, m

\* A hit more.
LEMMA HitsAppend ==
    ASSUME NEW s \in Seq(Nat), NEW x \in Nat, NEW at \in Nat
    PROVE  /\ x > at - Window => HitsAt(Append(s, x), at) = HitsAt(s, at) + 1
           /\ ~(x > at - Window) => HitsAt(Append(s, x), at) = HitsAt(s, at)
<1> DEFINE r == Append(s, x)
           n == Len(s)
           S == {i \in 1..n : s[i] > at - Window}
           T == {i \in 1..(n + 1) : r[i] > at - Window}
<1>1. n \in Nat /\ Len(r) = n + 1 /\ r[n + 1] = x /\ \A i \in 1..n : r[i] = s[i]
    BY AppendProperties
<1>2. HitsAt(r, at) = Cardinality(T) /\ HitsAt(s, at) = Cardinality(S)
    BY <1>1 DEF HitsAt
<1> HIDE DEF r, n
<1>3. x > at - Window => T = S \cup {n + 1}
    BY <1>1
<1>4. ~(x > at - Window) => T = S
    BY <1>1
<1>5. S \in SUBSET (1..n)
    OBVIOUS
<1> HIDE DEF S, T
<1>6. Cardinality(S \cup {n + 1}) = Cardinality(S) + 1
    BY <1>1, <1>5, MoreCount
<1> QED BY <1>2, <1>3, <1>4, <1>6 DEF r

LEMMA ServedType ==
    ASSUME NEW s \in Seq(Served), NEW c, NEW at \in Nat
    PROVE  /\ OwnAt(s, c, at) \in Nat /\ AllAt(s, at) \in Nat
           /\ OwnAt(s, c, at) <= AllAt(s, at) /\ AllAt(s, at) <= Len(s)
<1> DEFINE S == {i \in 1..Len(s) : s[i].at > at - Window}
           O == {i \in 1..Len(s) : s[i].who = c /\ s[i].at > at - Window}
<1>1. IsFiniteSet(1..Len(s)) /\ Cardinality(1..Len(s)) = Len(s)
  <2> DEFINE n == Len(s)
  <2>1. n \in Nat
      OBVIOUS
  <2> HIDE DEF n
  <2>2. IsFiniteSet(1..n) /\ Cardinality(1..n) = n
      BY <2>1, FS_Interval
  <2> QED BY <2>2 DEF n
<1>2. S \in SUBSET (1..Len(s)) /\ O \in SUBSET S
    OBVIOUS
<1> HIDE DEF S, O
<1>3. IsFiniteSet(S) /\ Cardinality(S) <= Len(s) /\ Cardinality(S) \in Nat
    BY <1>1, <1>2, FS_Subset, FS_CardinalityType
<1>4. IsFiniteSet(O) /\ Cardinality(O) <= Cardinality(S) /\ Cardinality(O) \in Nat
    BY <1>2, <1>3, FS_Subset, FS_CardinalityType
<1> QED BY <1>3, <1>4 DEF OwnAt, AllAt, S, O

\* What is forgotten of the requests let through is in no window now or later.
LEMMA ServedRecent ==
    ASSUME NEW s \in Seq(Served), NEW now \in Nat, NEW c, NEW at \in Nat, now <= at
    PROVE  /\ Recent(s, now) \in Seq(Served)
           /\ AllAt(Recent(s, now), at) = AllAt(s, at)
           /\ OwnAt(Recent(s, now), c, at) = OwnAt(s, c, at)
<1> DEFINE r == Recent(s, now)
           n == Len(s)
           m == Len(r)
           S == {i \in 1..n : s[i].at > at - Window}
           T == {i \in 1..m : r[i].at > at - Window}
           O == {i \in 1..n : s[i].who = c /\ s[i].at > at - Window}
           P == {i \in 1..m : r[i].who = c /\ r[i].at > at - Window}
<1>1. /\ r \in Seq(Served) /\ m <= n
      /\ \A i \in 1..m : r[i] = s[n - m + i]
      /\ \A i \in 1..n : s[i].at > now - Window => m >= n - i + 1
    BY now \in Int, RecentIsAnEnd
<1>2. /\ AllAt(r, at) = Cardinality(T) /\ AllAt(s, at) = Cardinality(S)
      /\ OwnAt(r, c, at) = Cardinality(P) /\ OwnAt(s, c, at) = Cardinality(O)
    BY DEF AllAt, OwnAt
<1> HIDE DEF r
<1>3. n \in Nat /\ m \in 0..n
    BY <1>1
<1>4. \A i \in 1..n : s[i].at \in Nat
  <2>1. \A i \in 1..n : s[i] \in Served
      OBVIOUS
  <2> QED BY <2>1 DEF Served
<1> HIDE DEF n, m
<1>5. /\ \A i \in 1..m : i \in T <=> n - m + i \in S
      /\ \A i \in 1..m : i \in P <=> n - m + i \in O
  <2>1. \A i \in 1..m : n - m + i \in 1..n
      BY <1>3
  <2> QED BY <1>1, <2>1
<1>6. \A i \in S : i > n - m
    BY <1>1, <1>3, <1>4, LimiterAssumption
<1>7. O \in SUBSET S
    OBVIOUS
<1>8. S \in SUBSET (1..n) /\ T \in SUBSET (1..m) /\ P \in SUBSET (1..m)
    OBVIOUS
<1> HIDE DEF S, T, O, P
<1>9. Cardinality(T) = Cardinality(S)
  <2>1. EndIndexes(T, m, S, n)
      BY <1>3, <1>5, <1>8 DEF EndIndexes
  <2> QED BY <1>6, <2>1, EndCount
<1>10. Cardinality(P) = Cardinality(O)
  <2>1. O \subseteq 1..n
      BY <1>7, <1>8
  <2>2. \A i \in O : i > n - m
      BY <1>6, <1>7
  <2>3. EndIndexes(P, m, O, n)
      BY <1>3, <1>5, <1>8, <2>1 DEF EndIndexes
  <2> QED BY <2>2, <2>3, EndCount
<1> QED BY <1>1, <1>2, <1>9, <1>10 DEF r

\* A request more, of caller d.
LEMMA ServedAppend ==
    ASSUME NEW s \in Seq(Served), NEW x \in Served, NEW c, NEW at \in Nat
    PROVE  /\ x.at > at - Window => AllAt(Append(s, x), at) = AllAt(s, at) + 1
           /\ ~(x.at > at - Window) => AllAt(Append(s, x), at) = AllAt(s, at)
           /\ x.who = c /\ x.at > at - Window => OwnAt(Append(s, x), c, at) = OwnAt(s, c, at) + 1
           /\ ~(x.who = c /\ x.at > at - Window) => OwnAt(Append(s, x), c, at) = OwnAt(s, c, at)
<1> DEFINE r == Append(s, x)
           n == Len(s)
           S == {i \in 1..n : s[i].at > at - Window}
           T == {i \in 1..(n + 1) : r[i].at > at - Window}
           O == {i \in 1..n : s[i].who = c /\ s[i].at > at - Window}
           P == {i \in 1..(n + 1) : r[i].who = c /\ r[i].at > at - Window}
<1>1. n \in Nat /\ Len(r) = n + 1 /\ r[n + 1] = x /\ \A i \in 1..n : r[i] = s[i]
    BY AppendProperties
<1>2. /\ AllAt(r, at) = Cardinality(T) /\ AllAt(s, at) = Cardinality(S)
      /\ OwnAt(r, c, at) = Cardinality(P) /\ OwnAt(s, c, at) = Cardinality(O)
    BY <1>1 DEF AllAt, OwnAt
<1> HIDE DEF r, n
<1>3. /\ x.at > at - Window => T = S \cup {n + 1}
      /\ ~(x.at > at - Window) => T = S
    BY <1>1
<1>4. /\ x.who = c /\ x.at > at - Window => P = O \cup {n + 1}
      /\ ~(x.who = c /\ x.at > at - Window) => P = O
    BY <1>1
<1>5. S \in SUBSET (1..n) /\ O \in SUBSET (1..n)
    OBVIOUS
<1> HIDE DEF S, T, O, P
<1>6. Cardinality(S \cup {n + 1}) = Cardinality(S) + 1 /\ Cardinality(O \cup {n + 1}) = Cardinality(O) + 1
    BY <1>1, <1>5, MoreCount
<1> QED BY <1>2, <1>3, <1>4, <1>6 DEF r

-----------------------------------------------------------------------------
(* What a step does to the windows in the table *)

LEMMA TableWindows ==
    ASSUME TypeInv, NEW k \in DOMAIN keys
    PROVE  /\ k \in Callers /\ keys[k] \in Objects /\ keys[k] # None
           /\ keys[k] \in DOMAIN hits /\ hits[keys[k]] \in Seq(Nat)
<1> USE DEF TypeInv, TypeOK
<1>1. keys[k] \in Objects /\ keys[k] # None /\ k \in Callers
    BY LimiterAssumption
<1>2. keys[k] \in Used(keys, check)
    BY <1>1 DEF Used, Range
<1>3. Seq(0..clock) \subseteq Seq(Nat)
  <2>1. 0..clock \subseteq Nat
      BY LimiterAssumption
  <2> QED BY <2>1, SeqMonotonic
<1> QED BY <1>1, <1>2, <1>3

\* What the table has is kept.
LEMMA KeptWindow ==
    ASSUME TypeInv, NEW k \in DOMAIN keys, NEW table, k \in DOMAIN table, table[k] = keys[k],
           NEW calls, NEW h, DOMAIN h = DOMAIN hits
    PROVE  Collected(h, table, calls)[keys[k]] = h[keys[k]]
<1>1. keys[k] # None /\ keys[k] \in DOMAIN h
    BY TableWindows
<1>2. keys[k] \in Used(table, calls)
    BY <1>1 DEF Used, Range
<1> QED BY <1>1, <1>2 DEF Collected

\* These leave the windows alone.
LEMMA QuietStep ==
    ASSUME NEW t \in Threads,
           \/ Arrive(t) \/ Leave(t) \/ CheckOverall(t) \/ Get(t) \/ Size(t) \/ Sweep(t) \/ Room(t)
    PROVE  keys' = keys /\ hits' = hits
BY DEF Arrive, Leave, CheckOverall, Get, Size, Sweep, Room

\* A sweep leaves the windows alone that it does not drop.
LEMMA DropStep ==
    ASSUME TypeInv, NEW t \in Threads, Drop(t)
    PROVE  /\ DOMAIN keys' \subseteq DOMAIN keys
           /\ \A k \in DOMAIN keys' : keys'[k] = keys[k] /\ hits'[keys'[k]] = hits[keys[k]]
<1>1. PICK d \in check[t].stale : keys' = Restrict(keys, DOMAIN keys \ {d})
    BY DEF Drop
<1>2. DOMAIN keys' \subseteq DOMAIN keys /\ \A k \in DOMAIN keys' : keys'[k] = keys[k]
    BY <1>1 DEF Restrict
<1>3. hits' = Collected(hits, keys', check')
    BY DEF Drop
<1>4. ASSUME NEW k \in DOMAIN keys'  PROVE  hits'[keys'[k]] = hits[keys[k]]
  <2>1. k \in DOMAIN keys /\ keys'[k] = keys[k]
      BY <1>2
  <2> DEFINE table == keys'
             calls == check'
  <2>2. k \in DOMAIN table /\ table[k] = keys[k] /\ hits' = Collected(hits, table, calls)
      BY <1>3, <2>1
  <2> HIDE DEF table, calls
  <2>3. Collected(hits, table, calls)[keys[k]] = hits[keys[k]]
      BY <2>1, <2>2, KeptWindow
  <2> QED BY <2>1, <2>2, <2>3
<1> QED BY <1>2, <1>4

\* A window is added, an empty one that no call has.
LEMMA InsertStep ==
    ASSUME TypeInv, NEW t \in Threads, Insert(t)
    PROVE  /\ check[t].key \in Callers /\ DOMAIN keys' = DOMAIN keys \cup {check[t].key}
           /\ \A k \in DOMAIN keys : keys'[k] = keys[k] /\ hits'[keys[k]] = hits[keys[k]]
           /\ check[t].key \notin DOMAIN keys =>
                 /\ hits'[keys'[check[t].key]] = <<>>
                 /\ \A u \in Threads : check[u].window # keys'[check[t].key]
           /\ check'[t].window = keys'[check[t].key]
<1> DEFINE key == check[t].key
           window == IF key \in DOMAIN keys THEN keys[key] ELSE NewWindow
<1>1. /\ keys' = [k \in DOMAIN keys \cup {key} |-> IF k = key THEN window ELSE keys[k]]
      /\ hits' = [o \in DOMAIN hits \cup {window} |-> IF o \in DOMAIN hits THEN hits[o] ELSE <<>>]
      /\ check' = [check EXCEPT ![t].window = window, ![t].at = "own"]
    BY DEF Insert
<1>2. key \in Callers
    BY DEF Insert, TypeInv, TypeOK, CallOK
<1>3. \A k \in DOMAIN keys : keys[k] \in DOMAIN hits
    BY TableWindows
<1>4. DOMAIN hits = Used(keys, check)
    BY DEF TypeInv, TypeOK
<1>5. key \notin DOMAIN keys => window \in Objects /\ window \notin DOMAIN hits
    BY <1>2, <1>4, NewWindowIsNew DEF TypeInv
<1>6. key \in DOMAIN keys => window = keys[key]
    OBVIOUS
<1>7. check'[t].window = window
    BY <1>1 DEF TypeInv, TypeOK, Check
<1>8. \A u \in Threads : check[u].window # None => check[u].window \in DOMAIN hits
    BY <1>4 DEF Used
<1>9. key \notin DOMAIN keys => window # None
    BY <1>5, LimiterAssumption
<1> HIDE DEF key, window
<1>10. DOMAIN keys' = DOMAIN keys \cup {key} /\ keys'[key] = window
    BY <1>1
<1>11. \A k \in DOMAIN keys : keys'[k] = keys[k] /\ hits'[keys[k]] = hits[keys[k]]
    BY <1>1, <1>3, <1>6
<1>12. key \notin DOMAIN keys => hits'[window] = <<>>
    BY <1>1, <1>5
<1>13. key \notin DOMAIN keys => \A u \in Threads : check[u].window # window
    BY <1>5, <1>8, <1>9
<1> QED BY <1>2, <1>7, <1>10, <1>11, <1>12, <1>13 DEF key

\* Only the window of the call is trimmed.
LEMMA OwnStep ==
    ASSUME TypeInv, NEW t \in Threads, CheckOwn(t)
    PROVE  /\ keys' = keys
           /\ \A k \in DOMAIN keys :
                 hits'[keys[k]] = IF keys[k] = check[t].window
                                  THEN Trimmed(hits[keys[k]], check[t].now)
                                  ELSE hits[keys[k]]
<1> DEFINE w == check[t].window
           own == Trimmed(hits[w], check[t].now)
           h == [hits EXCEPT ![w] = own]
           calls == check'
<1>1. keys' = keys /\ hits' = Collected(h, keys, calls)
    BY DEF CheckOwn
<1>2. ASSUME NEW k \in DOMAIN keys
      PROVE  hits'[keys[k]] = IF keys[k] = w THEN Trimmed(hits[keys[k]], check[t].now)
                              ELSE hits[keys[k]]
  <2>1. DOMAIN h = DOMAIN hits
      OBVIOUS
  <2>2. h[keys[k]] = IF keys[k] = w THEN own ELSE hits[keys[k]]
      BY TableWindows
  <2> HIDE DEF h, calls
  <2>3. hits'[keys[k]] = h[keys[k]]
      BY <1>1, <2>1, KeptWindow
  <2> QED BY <2>2, <2>3
<1> QED BY <1>1, <1>2

\* Only the window of the call gets the hit.
LEMMA RecordOwnStep ==
    ASSUME TypeInv, NEW t \in Threads, RecordOwn(t)
    PROVE  /\ keys' = keys
           /\ \A k \in DOMAIN keys :
                 hits'[keys[k]] = IF keys[k] = check[t].window
                                  THEN Append(hits[keys[k]], check[t].now)
                                  ELSE hits[keys[k]]
<1>1. keys' = keys /\ hits' = [hits EXCEPT ![check[t].window] = Append(@, check[t].now)]
    BY DEF RecordOwn
<1> QED BY <1>1, TableWindows

\* The windows in the table are kept.
LEMMA RecordStep ==
    ASSUME TypeInv, NEW t \in Threads, Record(t)
    PROVE  keys' = keys /\ \A k \in DOMAIN keys : hits'[keys[k]] = hits[keys[k]]
<1> DEFINE calls == check'
<1>1. keys' = keys /\ hits' = Collected(hits, keys, calls)
    BY DEF Record
<1> HIDE DEF calls
<1>2. ASSUME NEW k \in DOMAIN keys  PROVE  hits'[keys[k]] = hits[keys[k]]
    BY <1>1, KeptWindow
<1> QED BY <1>1, <1>2

-----------------------------------------------------------------------------
(* Whose call it is *)

Running == {"overall", "get", "size", "sweep", "drop", "room", "insert", "own",
            "recordOwn", "record"}

\* A call is counted for whom it comes from, and in no other caller's window.
KeyInv ==
    /\ \A t \in Threads : check[t].at \in Running =>
          check[t].key = check[t].who /\ check[t].who \in Callers
    /\ \A t \in Threads : \A k \in DOMAIN keys : check[t].window = keys[k] => k = check[t].who

\* client_key is the sender, or the proxy of which alone is known.
LEMMA KeyIsWho ==
    ASSUME NEW s \in Senders, NEW written \in {<<>>} \cup {<<f>> : f \in Senders}
    PROVE  /\ client_key(s, written) = s
           /\ Proxy \in trusted_proxies => client_key(Proxy, Append(written, s)) = s
           /\ Proxy \notin trusted_proxies => client_key(Proxy, Append(written, s)) = Proxy
<1>1. written \in Seq(Senders)
  <2>1. CASE written = <<>>
      BY <2>1
  <2>2. CASE \E f \in Senders : written = <<f>>
      BY <2>2
  <2> QED BY <2>1, <2>2
<1>2. Append(written, s) # <<>> /\ Append(written, s)[Len(Append(written, s))] = s
    BY <1>1, AppendProperties
<1>3. s \notin trusted_proxies
    BY TrustAssumption
<1> QED BY <1>2, <1>3 DEF client_key

\* A call arrives.
LEMMA ArriveStep ==
    ASSUME TypeInv, NEW t \in Threads, Arrive(t)
    PROVE  /\ check[t] = Idle /\ check'[t].at = "overall" /\ check'[t].now = clock
           /\ check'[t].who \in Callers /\ check'[t].key = check'[t].who
           /\ check'[t].window = None /\ check'[t].stale = {}
           /\ alone => \A u \in Threads : check[u] = Idle
           /\ UNCHANGED <<clock, all, served, settings>>
<1>1. PICK s \in Senders, proxied \in BOOLEAN, written \in {<<>>} \cup {<<f>> : f \in Senders} :
         check' = [check EXCEPT ![t] = [Idle EXCEPT
                !.at = "overall",
                !.key = IF proxied THEN client_key(Proxy, Append(written, s))
                        ELSE client_key(s, written),
                !.now = clock,
                !.who = IF proxied /\ Proxy \notin trusted_proxies THEN Proxy ELSE s]]
    BY DEF Arrive
<1> DEFINE key == IF proxied THEN client_key(Proxy, Append(written, s))
                  ELSE client_key(s, written)
           who == IF proxied /\ Proxy \notin trusted_proxies THEN Proxy ELSE s
<1>2. key = who /\ who \in Callers
    BY KeyIsWho DEF Callers
<1> HIDE DEF key, who
<1>3. check' = [check EXCEPT ![t] = [Idle EXCEPT !.at = "overall", !.key = key, !.now = clock,
                                                !.who = who]]
    BY <1>1 DEF key, who
<1>4. check'[t] = [Idle EXCEPT !.at = "overall", !.key = key, !.now = clock, !.who = who]
    BY <1>3 DEF TypeInv, TypeOK
<1>5. /\ check'[t].at = "overall" /\ check'[t].now = clock /\ check'[t].who = who
      /\ check'[t].key = key /\ check'[t].window = None /\ check'[t].stale = {}
    BY <1>4 DEF Idle
<1> QED BY <1>2, <1>5 DEF Arrive

\* A call on its way keeps its caller, its key and its time; when it is over it
\* has no time and no window any more.
LEMMA ChecksStep ==
    ASSUME TypeInv, NEW t \in Threads, Checks(t)
    PROVE  /\ check[t].at \in Running /\ check'[t].who = check[t].who
           /\ check'[t].at \in Running => check'[t].key = check[t].key /\ check'[t].now = check[t].now
           /\ check'[t].at \notin Running => check'[t].window = None
           /\ check'[t].window \in {check[t].window, None} \/ Get(t) \/ Insert(t)
<1>1. check \in [Threads -> Check] /\ check[t] \in Check
    BY DEF TypeInv, TypeOK
<1>2. ASSUME NEW step \in Steps, Go(t, step)
      PROVE  /\ check'[t].who = check[t].who /\ check'[t].key = check[t].key
             /\ check'[t].now = check[t].now /\ check'[t].window = check[t].window
             /\ check'[t].at = step
    BY <1>1, <1>2 DEF Go, Check
<1>3. ASSUME NEW outcome \in {"admitted", "refusedByAll", "refusedByOwn", "failed"}, NEW retry,
             End(t, outcome, retry)
      PROVE  /\ check'[t].who = check[t].who /\ check'[t].at = outcome
             /\ check'[t].window = None
    BY <1>1, <1>3 DEF End, Idle
<1> USE <1>1 DEF Running
<1>4. CASE CheckOverall(t)
    BY <1>2, <1>3, <1>4 DEF CheckOverall, Steps, TypeInv, CallOK
<1>5. CASE Get(t)
  <2>1. CASE check[t].key \in DOMAIN keys
      BY <1>5, <2>1 DEF Get, Check
  <2>2. CASE Go(t, "size")
      BY <1>2, <1>5, <2>2 DEF Get, Steps
  <2> QED BY <1>5, <2>1, <2>2 DEF Get
<1>6. CASE Size(t)
  <2>1. CASE Go(t, "room")
      BY <1>2, <1>6, <2>1 DEF Size, Steps
  <2>2. CASE ~Go(t, "room")
    <3>1. check' = [check EXCEPT ![t].at = "sweep", ![t].size = Cardinality(DOMAIN keys)]
        BY <1>6, <2>2 DEF Size
    <3> QED BY <1>6, <3>1 DEF Size, Check
  <2> QED BY <2>1, <2>2
<1>7. CASE Sweep(t)
  <2>1. CASE End(t, "failed", 0)
      BY <1>3, <1>7, <2>1 DEF Sweep
  <2>2. CASE check' = [check EXCEPT ![t].at = "drop", ![t].seen = {}, ![t].size = 0]
      BY <1>7, <2>2 DEF Sweep, Check
  <2>3. ASSUME NEW k \in DOMAIN keys,
               check' = [check EXCEPT ![t].seen = @ \cup {k},
                              ![t].stale = IF Stale(k, check[t].now) THEN @ \cup {k} ELSE @]
        PROVE  /\ check'[t].who = check[t].who /\ check'[t].key = check[t].key
               /\ check'[t].now = check[t].now /\ check'[t].window = check[t].window
               /\ check'[t].at = "sweep"
      BY <1>7, <2>3 DEF Sweep, Check
  <2> QED BY <1>7, <2>1, <2>2, <2>3 DEF Sweep
<1>8. CASE Drop(t)
  <2>1. CASE End(t, "failed", 0)
      BY <1>3, <1>8, <2>1 DEF Drop
  <2>2. ASSUME NEW k, check' = [check EXCEPT ![t].stale = @ \ {k}]
        PROVE  /\ check'[t].who = check[t].who /\ check'[t].key = check[t].key
               /\ check'[t].now = check[t].now /\ check'[t].window = check[t].window
               /\ check'[t].at = "drop"
      BY <1>8, <2>2 DEF Drop, Check
  <2> QED BY <1>8, <2>1, <2>2 DEF Drop
<1>9. CASE Room(t)
    BY <1>2, <1>9 DEF Room, Steps
<1>10. CASE Insert(t)
    BY <1>10 DEF Insert, Check
<1>11. CASE CheckOwn(t)
    BY <1>2, <1>3, <1>11 DEF CheckOwn, Steps
<1>12. CASE RecordOwn(t)
    BY <1>2, <1>12 DEF RecordOwn, Steps
<1>13. CASE Record(t)
    BY <1>3, <1>13 DEF Record
<1> QED BY <1>4, <1>5, <1>6, <1>7, <1>8, <1>9, <1>10, <1>11, <1>12, <1>13 DEF Checks

LEMMA InitKey == Init => KeyInv
BY LimiterAssumption DEF Init, KeyInv, Idle, Running

LEMMA StepKey == TypeInv /\ KeyInv /\ [Next]_limiterVars => KeyInv'
<1> SUFFICES ASSUME TypeInv, KeyInv, [Next]_limiterVars  PROVE  KeyInv'
    OBVIOUS
<1>1. CASE UNCHANGED limiterVars \/ Tick
    BY <1>1 DEF limiterVars, Tick, KeyInv
<1>2. ASSUME NEW t \in Threads, Arrive(t) \/ Leave(t) \/ Checks(t)  PROVE  KeyInv'
  <2>1. \A u \in Threads \ {t} : check'[u] = check[u]
      BY <1>2, OneMoves
  <2>2. check'[t].at \in Running => check'[t].key = check'[t].who /\ check'[t].who \in Callers
    <3>1. CASE Arrive(t)
        BY <3>1, ArriveStep
    <3>2. CASE Leave(t)
        BY <3>2, Moves DEF Running
    <3>3. CASE Checks(t)
        BY <3>3, ChecksStep DEF KeyInv
    <3> QED BY <1>2, <3>1, <3>2, <3>3
  <2>3. \A u \in Threads : check'[u].at \in Running =>
            check'[u].key = check'[u].who /\ check'[u].who \in Callers
      BY <2>1, <2>2 DEF KeyInv
  <2>4. ASSUME NEW u \in Threads, NEW k \in DOMAIN keys', check'[u].window = keys'[k]
        PROVE  k = check'[u].who
    <3>1. CASE Insert(t)
      <4>1. check[t].at \in Running /\ check'[t].who = check[t].who
          BY <3>1, ChecksStep DEF Checks
      <4>2. check[t].key = check[t].who
          BY <4>1 DEF KeyInv
      <4>3. \A j, l \in DOMAIN keys' : keys'[j] = keys'[l] => j = l
        <5>1. TypeOK'
            BY <3>1, InsertTypes DEF TypeInv
        <5> QED BY <5>1 DEF TypeOK
      <4>4. DOMAIN keys' = DOMAIN keys \cup {check[t].key} /\ check'[t].window = keys'[check[t].key]
            /\ \A j \in DOMAIN keys : keys'[j] = keys[j]
          BY <3>1, InsertStep
      <4>5. CASE u = t
        <5>1. keys'[k] = keys'[check[t].key] /\ check[t].key \in DOMAIN keys'
            BY <2>4, <4>4, <4>5
        <5>2. k = check[t].key
            BY <4>3, <5>1
        <5> QED BY <4>1, <4>2, <4>5, <5>2
      <4>6. CASE u # t /\ k \in DOMAIN keys
        <5>1. check[u].window = keys[k] /\ check'[u].who = check[u].who
            BY <2>1, <2>4, <4>4, <4>6
        <5> QED BY <4>6, <5>1 DEF KeyInv
      <4>7. CASE u # t /\ k \notin DOMAIN keys
        <5>1. k = check[t].key /\ check[u].window = keys'[k]
            BY <2>1, <2>4, <4>4, <4>7
        <5>2. check[u].window # keys'[k]
            BY <3>1, <4>7, <5>1, InsertStep
        <5> QED BY <5>1, <5>2
      <4> QED BY <4>5, <4>6, <4>7
    <3>2. CASE ~Insert(t)
      <4>1. k \in DOMAIN keys /\ keys'[k] = keys[k]
          BY <1>2, <3>2, QuietStep, DropStep, OwnStep, RecordOwnStep, RecordStep DEF Checks
      <4>2. CASE u # t
          BY <2>1, <2>4, <4>1, <4>2 DEF KeyInv
      <4>3. keys[k] # None
          BY <4>1, TableWindows
      <4>4. CASE u = t /\ Get(t)
        <5>1. check[t].at \in Running /\ check'[t].who = check[t].who /\ check[t].window = None
            BY <4>4, ChecksStep DEF Checks, Get, TypeInv, CallOK
        <5>2. check[t].key = check[t].who
            BY <5>1 DEF KeyInv
        <5>3. CASE check[t].key \in DOMAIN keys
          <6>1. check'[t].window = keys[check[t].key]
              BY <4>4, <5>3 DEF Get, TypeInv, TypeOK, Check
          <6>2. keys[k] = keys[check[t].key]
              BY <2>4, <4>1, <4>4, <6>1
          <6> QED BY <4>1, <4>4, <5>1, <5>2, <5>3, <6>2 DEF TypeInv, TypeOK
        <5>4. CASE Go(t, "size")
          <6>1. check'[t].window = None
              BY <5>1, <5>4 DEF Go, TypeInv, TypeOK, Check
          <6> QED BY <2>4, <4>1, <4>3, <4>4, <6>1
        <5> QED BY <4>4, <5>3, <5>4 DEF Get
      <4>5. CASE u = t /\ Checks(t) /\ ~Get(t)
        <5>1. check'[t].window \in {check[t].window, None} /\ check'[t].who = check[t].who
            BY <3>2, <4>5, ChecksStep
        <5> QED BY <2>4, <4>1, <4>3, <4>5, <5>1 DEF KeyInv
      <4>6. CASE u = t /\ ~Checks(t)
        <5>1. check'[t].window = None
          <6>1. CASE Arrive(t)
              BY <6>1, ArriveStep
          <6>2. CASE Leave(t)
              BY <6>2 DEF Leave, Idle, TypeInv, TypeOK
          <6> QED BY <1>2, <4>6, <6>1, <6>2
        <5> QED BY <2>4, <4>1, <4>3, <4>6, <5>1
      <4> QED BY <4>2, <4>4, <4>5, <4>6
    <3> QED BY <3>1, <3>2
  <2> QED BY <2>3, <2>4 DEF KeyInv
<1> QED BY <1>1, <1>2 DEF Next

-----------------------------------------------------------------------------
(* Each caller's hits *)

\* The hits that the table has for c.
HitsOf(c) == IF c \in DOMAIN keys THEN hits[keys[c]] ELSE <<>>

\* The call t would count for c.
Holds(t, c) == c \in DOMAIN keys /\ check[t].window = keys[c]

LEMMA HitsOfType ==
    ASSUME TypeInv, NEW c
    PROVE  HitsOf(c) \in Seq(Nat) /\ Len(HitsOf(c)) \in Nat
<1>1. CASE c \in DOMAIN keys
    BY <1>1, TableWindows DEF HitsOf
<1>2. CASE c \notin DOMAIN keys
    BY <1>2 DEF HitsOf
<1> QED BY <1>1, <1>2

\* The step a call is at before each of its actions.
LEMMA StartsAt ==
    ASSUME NEW t \in Threads
    PROVE  /\ Arrive(t) => check[t].at = "idle"
           /\ Leave(t) => check[t].at \in {"admitted", "refusedByAll", "refusedByOwn", "failed"}
           /\ CheckOverall(t) => check[t].at = "overall"
           /\ Get(t) => check[t].at = "get"
           /\ Size(t) => check[t].at = "size"
           /\ Sweep(t) => check[t].at = "sweep"
           /\ Drop(t) => check[t].at = "drop"
           /\ Room(t) => check[t].at \in {"room", "drop"}
           /\ Insert(t) => check[t].at = "insert"
           /\ CheckOwn(t) => check[t].at = "own"
           /\ RecordOwn(t) => check[t].at = "recordOwn"
           /\ Record(t) => check[t].at = "record"
<1>1. Arrive(t) => check[t].at = "idle"
    BY DEF Arrive, Idle
<1> QED BY <1>1 DEF Leave, CheckOverall, Get, Size, Sweep, Drop, Room, Insert, CheckOwn, RecordOwn,
                Record

\* What each step does to the hits of each caller.
LEMMA HitsOfStep ==
    ASSUME TypeInv, NEW t \in Threads, Arrive(t) \/ Leave(t) \/ Checks(t), NEW c
    PROVE  /\ ~Drop(t) /\ ~CheckOwn(t) /\ ~RecordOwn(t) => HitsOf(c)' = HitsOf(c)
           /\ Drop(t) => HitsOf(c)' \in {HitsOf(c), <<>>}
           /\ CheckOwn(t) => HitsOf(c)' = IF Holds(t, c) THEN Trimmed(HitsOf(c), check[t].now)
                                          ELSE HitsOf(c)
           /\ RecordOwn(t) => HitsOf(c)' = IF Holds(t, c) THEN Append(HitsOf(c), check[t].now)
                                           ELSE HitsOf(c)
<1> USE DEF HitsOf, Holds
<1>1. CASE \/ Arrive(t) \/ Leave(t) \/ CheckOverall(t) \/ Get(t) \/ Size(t) \/ Sweep(t) \/ Room(t)
  <2>1. HitsOf(c)' = HitsOf(c)
      BY <1>1, QuietStep
  <2>2. ~Drop(t) /\ ~CheckOwn(t) /\ ~RecordOwn(t)
      BY <1>1, StartsAt DEF Drop, Room
  <2> QED BY <2>1, <2>2
<1>2. CASE Drop(t)
  <2>1. HitsOf(c)' \in {HitsOf(c), <<>>}
      BY <1>2, DropStep
  <2>2. ~CheckOwn(t) /\ ~RecordOwn(t)
      BY <1>2 DEF Drop, CheckOwn, RecordOwn
  <2> QED BY <1>2, <2>1, <2>2
<1>3. CASE Insert(t)
  <2>1. HitsOf(c)' = HitsOf(c)
    <3>1. CASE c \in DOMAIN keys
      <4>1. c \in DOMAIN keys' /\ keys'[c] = keys[c] /\ hits'[keys[c]] = hits[keys[c]]
          BY <1>3, <3>1, InsertStep
      <4> QED BY <3>1, <4>1
    <3>2. CASE c \notin DOMAIN keys /\ c = check[t].key
      <4>1. c \in DOMAIN keys' /\ hits'[keys'[c]] = <<>>
          BY <1>3, <3>2, InsertStep
      <4> QED BY <3>2, <4>1
    <3>3. CASE c \notin DOMAIN keys /\ c # check[t].key
      <4>1. DOMAIN keys' = DOMAIN keys \cup {check[t].key}
          BY <1>3, InsertStep
      <4>2. c \notin DOMAIN keys'
          BY <3>3, <4>1
      <4> QED BY <3>3, <4>2
    <3> QED BY <3>1, <3>2, <3>3
  <2>2. ~Drop(t) /\ ~CheckOwn(t) /\ ~RecordOwn(t)
      BY <1>3 DEF Insert, Drop, CheckOwn, RecordOwn
  <2> QED BY <2>1, <2>2
<1>4. CASE CheckOwn(t)
  <2>1. HitsOf(c)' = IF Holds(t, c) THEN Trimmed(HitsOf(c), check[t].now) ELSE HitsOf(c)
    <3>1. CASE c \in DOMAIN keys
        BY <1>4, <3>1, OwnStep
    <3>2. CASE c \notin DOMAIN keys
        BY <1>4, <3>2, OwnStep
    <3> QED BY <3>1, <3>2
  <2>2. ~Drop(t) /\ ~RecordOwn(t)
      BY <1>4 DEF Drop, CheckOwn, RecordOwn
  <2> QED BY <1>4, <2>1, <2>2
<1>5. CASE RecordOwn(t)
  <2>1. HitsOf(c)' = IF Holds(t, c) THEN Append(HitsOf(c), check[t].now) ELSE HitsOf(c)
    <3>1. CASE c \in DOMAIN keys
        BY <1>5, <3>1, RecordOwnStep
    <3>2. CASE c \notin DOMAIN keys
        BY <1>5, <3>2, RecordOwnStep
    <3> QED BY <3>1, <3>2
  <2>2. ~Drop(t) /\ ~CheckOwn(t)
      BY <1>5 DEF Drop, CheckOwn, RecordOwn
  <2> QED BY <1>5, <2>1, <2>2
<1>6. CASE Record(t)
  <2>1. HitsOf(c)' = HitsOf(c)
      BY <1>6, RecordStep
  <2>2. ~Drop(t) /\ ~CheckOwn(t) /\ ~RecordOwn(t)
      BY <1>6 DEF Record, Drop, CheckOwn, RecordOwn
  <2> QED BY <2>1, <2>2
<1> QED BY <1>1, <1>2, <1>3, <1>4, <1>5, <1>6 DEF Checks

\* Calls of c whose hit is in c's window and not in the ceiling's yet.
Recording(c, at) == {t \in Threads : /\ check[t].at = "record" /\ check[t].who = c
                                     /\ check[t].now > at - Window}

\* Calls of c that c's window has let through and does not have yet.
Admitting(c) == {t \in Threads : check[t].at = "recordOwn" /\ check[t].who = c}

\* What each step does to their numbers.
LEMMA RecordingStep ==
    ASSUME TypeInv, NEW t \in Threads, Arrive(t) \/ Leave(t) \/ Checks(t), NEW c, NEW at \in Nat
    PROVE  /\ Cardinality(Recording(c, at)) \in Nat /\ Cardinality(Recording(c, at)') \in Nat
           /\ ~Record(t) => Cardinality(Recording(c, at)) <= Cardinality(Recording(c, at)')
           /\ ~Record(t) /\ check'[t].at # "record" => Recording(c, at)' = Recording(c, at)
           /\ check'[t].at = "record" =>
                 Cardinality(Recording(c, at)') = Cardinality(Recording(c, at))
                     + (IF check[t].who = c /\ check[t].now > at - Window THEN 1 ELSE 0)
           /\ Record(t) =>
                 Cardinality(Recording(c, at)') = Cardinality(Recording(c, at))
                     - (IF check[t].who = c /\ check[t].now > at - Window THEN 1 ELSE 0)
<1>1. \A u \in Threads \ {t} : check'[u] = check[u]
    BY OneMoves
<1> DEFINE R == Recording(c, at)
           S == Recording(c, at)'
<1>2. /\ \A u \in Threads \ {t} : u \in R <=> u \in S
      /\ t \in R <=> check[t].at = "record" /\ check[t].who = c /\ check[t].now > at - Window
      /\ t \in S <=> check'[t].at = "record" /\ check'[t].who = c /\ check'[t].now > at - Window
      /\ R \subseteq Threads /\ S \subseteq Threads
    BY <1>1 DEF Recording
<1>3. check[t].at = "record" <=> Record(t)
    BY StartsAt DEF Checks
<1>4. Record(t) => check'[t].at = "admitted"
    BY Moves
<1>5. check'[t].at = "record" => check'[t].who = check[t].who /\ check'[t].now = check[t].now
  <2>1. CASE Checks(t)
      BY <2>1, ChecksStep DEF Running
  <2>2. CASE Arrive(t) \/ Leave(t)
      BY <2>2, Moves
  <2> QED BY <2>1, <2>2
<1> HIDE DEF R, S
<1>6. /\ IsFiniteSet(R) /\ IsFiniteSet(S)
      /\ Cardinality(R) \in Nat /\ Cardinality(S) \in Nat
    BY <1>2, Counted
<1>7. ASSUME ~Record(t), check'[t].at # "record"  PROVE  S = R
    BY <1>2, <1>3, <1>7
<1>8. ASSUME check'[t].at = "record"
      PROVE  Cardinality(S) = Cardinality(R)
                 + (IF check[t].who = c /\ check[t].now > at - Window THEN 1 ELSE 0)
  <2>1. t \notin R
      BY <1>2, <1>3, <1>4, <1>8
  <2>2. CASE check[t].who = c /\ check[t].now > at - Window
    <3>1. S = R \cup {t}
        BY <1>2, <1>5, <1>8, <2>2
    <3>2. Cardinality(R \cup {t}) = Cardinality(R) + 1
        BY <1>6, <2>1, FS_AddElement
    <3> QED BY <2>2, <3>1, <3>2
  <2>3. CASE ~(check[t].who = c /\ check[t].now > at - Window)
    <3>1. S = R
        BY <1>2, <1>5, <1>8, <2>1, <2>3
    <3> QED BY <1>6, <2>3, <3>1
  <2> QED BY <2>2, <2>3
<1>9. ASSUME Record(t)
      PROVE  Cardinality(S) = Cardinality(R)
                 - (IF check[t].who = c /\ check[t].now > at - Window THEN 1 ELSE 0)
  <2>1. t \notin S
      BY <1>2, <1>4, <1>9
  <2>2. CASE check[t].who = c /\ check[t].now > at - Window
    <3>1. S = R \ {t} /\ t \in R
        BY <1>2, <1>3, <1>9, <2>1, <2>2
    <3>2. Cardinality(R \ {t}) = Cardinality(R) - 1
        BY <1>6, <3>1, FS_RemoveElement
    <3> QED BY <2>2, <3>1, <3>2
  <2>3. CASE ~(check[t].who = c /\ check[t].now > at - Window)
    <3>1. S = R
        BY <1>2, <2>1, <2>3
    <3> QED BY <1>6, <2>3, <3>1
  <2> QED BY <2>2, <2>3
<1>10. ASSUME ~Record(t)  PROVE  Cardinality(R) <= Cardinality(S)
    BY <1>6, <1>7, <1>8, <1>10
<1> QED BY <1>6, <1>7, <1>8, <1>9, <1>10 DEF R, S

LEMMA AdmittingStep ==
    ASSUME TypeInv, NEW t \in Threads, Arrive(t) \/ Leave(t) \/ Checks(t), NEW c
    PROVE  /\ Cardinality(Admitting(c)) \in Nat /\ Cardinality(Admitting(c)') \in Nat
           /\ Cardinality(Admitting(c)') <= Cardinality(Threads) /\ Cardinality(Threads) \in Nat
           /\ ~RecordOwn(t) /\ check'[t].at # "recordOwn" => Admitting(c)' = Admitting(c)
           /\ CheckOwn(t) /\ check[t].who # c => Admitting(c)' = Admitting(c)
           /\ RecordOwn(t) =>
                 Cardinality(Admitting(c)') = Cardinality(Admitting(c))
                     - (IF check[t].who = c THEN 1 ELSE 0)
<1>1. \A u \in Threads \ {t} : check'[u] = check[u]
    BY OneMoves
<1> DEFINE R == Admitting(c)
           S == Admitting(c)'
<1>2. /\ \A u \in Threads \ {t} : u \in R <=> u \in S
      /\ t \in R <=> check[t].at = "recordOwn" /\ check[t].who = c
      /\ t \in S <=> check'[t].at = "recordOwn" /\ check'[t].who = c
      /\ R \subseteq Threads /\ S \subseteq Threads
    BY <1>1 DEF Admitting
<1>3. check[t].at = "recordOwn" <=> RecordOwn(t)
    BY StartsAt DEF Checks
<1>4. RecordOwn(t) => check'[t].at = "record"
    BY Moves
<1>5. Checks(t) => check'[t].who = check[t].who
    BY ChecksStep
<1> HIDE DEF R, S
<1>6. /\ IsFiniteSet(R) /\ IsFiniteSet(S)
      /\ Cardinality(R) \in Nat /\ Cardinality(S) \in Nat
      /\ Cardinality(S) <= Cardinality(Threads) /\ Cardinality(Threads) \in Nat
    BY <1>2, Counted
<1>7. ASSUME ~RecordOwn(t), check'[t].at # "recordOwn"  PROVE  S = R
    BY <1>2, <1>3, <1>7
<1>8. ASSUME CheckOwn(t), check[t].who # c  PROVE  S = R
    BY <1>2, <1>5, <1>8 DEF Checks
<1>9. ASSUME RecordOwn(t)
      PROVE  Cardinality(S) = Cardinality(R) - (IF check[t].who = c THEN 1 ELSE 0)
  <2>1. t \notin S
      BY <1>2, <1>4, <1>9
  <2>2. CASE check[t].who = c
    <3>1. S = R \ {t} /\ t \in R
        BY <1>2, <1>3, <1>9, <2>1, <2>2
    <3>2. Cardinality(R \ {t}) = Cardinality(R) - 1
        BY <1>6, <3>1, FS_RemoveElement
    <3> QED BY <2>2, <3>1, <3>2
  <2>3. CASE check[t].who # c
    <3>1. S = R
        BY <1>2, <2>1, <2>3
    <3> QED BY <1>6, <2>3, <3>1
  <2> QED BY <2>2, <2>3
<1> QED BY <1>6, <1>7, <1>8, <1>9 DEF R, S

\* Requests let through: only Record adds one.
LEMMA ServedStep ==
    ASSUME TypeInv, [Next]_limiterVars, NEW c, NEW at \in Nat, at >= clock'
    PROVE  /\ clock \in Nat /\ clock' \in Nat /\ at >= clock
           /\ UNCHANGED limiterVars \/ Tick \/ (\A t \in Threads : ~Record(t)) =>
                 AllAt(served', at) = AllAt(served, at) /\ OwnAt(served', c, at) = OwnAt(served, c, at)
           /\ \A t \in Threads : Record(t) =>
                 /\ AllAt(served', at) = AllAt(served, at)
                       + (IF check[t].now > at - Window THEN 1 ELSE 0)
                 /\ OwnAt(served', c, at) = OwnAt(served, c, at)
                       + (IF check[t].who = c /\ check[t].now > at - Window THEN 1 ELSE 0)
<1>1. clock \in Nat /\ served \in Seq(Served) /\ served' \in Seq(Served) /\ clock' \in Nat
    BY StepTypes, LimiterAssumption DEF TypeInv, TypeOK
<1>2. ASSUME NEW t \in Threads, Record(t)
      PROVE  /\ clock' = clock
             /\ AllAt(served', at) = AllAt(served, at)
                       + (IF check[t].now > at - Window THEN 1 ELSE 0)
             /\ OwnAt(served', c, at) = OwnAt(served, c, at)
                   + (IF check[t].who = c /\ check[t].now > at - Window THEN 1 ELSE 0)
  <2> DEFINE r == [who |-> check[t].who, at |-> check[t].now]
             longer == Append(served, r)
  <2>1. r \in Served /\ r.who = check[t].who /\ r.at = check[t].now
      BY <1>2 DEF Served, TypeInv, TypeOK, Check
  <2>2. served' = Recent(longer, clock) /\ clock' = clock
      BY <1>2 DEF Record
  <2> HIDE DEF r
  <2>3. longer \in Seq(Served)
      BY <1>1, <2>1, AppendProperties
  <2>4. /\ AllAt(longer, at) = AllAt(served, at) + (IF r.at > at - Window THEN 1 ELSE 0)
        /\ OwnAt(longer, c, at) = OwnAt(served, c, at)
               + (IF r.who = c /\ r.at > at - Window THEN 1 ELSE 0)
    <3>1. AllAt(served, at) \in Nat /\ OwnAt(served, c, at) \in Nat
        BY <1>1, ServedType
    <3>2. /\ r.at > at - Window => AllAt(longer, at) = AllAt(served, at) + 1
          /\ ~(r.at > at - Window) => AllAt(longer, at) = AllAt(served, at)
          /\ r.who = c /\ r.at > at - Window => OwnAt(longer, c, at) = OwnAt(served, c, at) + 1
          /\ ~(r.who = c /\ r.at > at - Window) => OwnAt(longer, c, at) = OwnAt(served, c, at)
        BY <1>1, <2>1, ServedAppend
    <3> HIDE DEF longer
    <3> QED BY <3>1, <3>2
  <2> HIDE DEF longer
  <2>5. /\ AllAt(served', at) = AllAt(longer, at) /\ OwnAt(served', c, at) = OwnAt(longer, c, at)
      BY <1>1, <2>2, <2>3, ServedRecent
  <2> QED BY <2>1, <2>2, <2>4, <2>5
<1>3. CASE Tick
  <2> DEFINE time == clock + 1
  <2>1. clock' = time /\ served' = Recent(served, time) /\ time \in Nat
      BY <1>1, <1>3 DEF Tick
  <2> HIDE DEF time
  <2>2. AllAt(served', at) = AllAt(served, at) /\ OwnAt(served', c, at) = OwnAt(served, c, at)
      BY <1>1, <2>1, ServedRecent
  <2>3. at >= clock
      BY <1>1, <1>3 DEF Tick
  <2> QED BY <1>1, <1>2, <2>2, <2>3
<1>4. CASE UNCHANGED limiterVars
    BY <1>1, <1>2, <1>4 DEF limiterVars
<1>5. ASSUME NEW t \in Threads, Arrive(t) \/ Leave(t) \/ Checks(t)  PROVE  clock' = clock
    BY <1>5 DEF Arrive, Leave, Checks, CheckOverall, Get, Size, Sweep, Drop, Room, Insert, CheckOwn,
                RecordOwn, Record
<1>6. ASSUME NEW t \in Threads, Arrive(t) \/ Leave(t) \/ Checks(t), ~Record(t)
      PROVE  served' = served
    BY <1>6 DEF Arrive, Leave, Checks, CheckOverall, Get, Size, Sweep, Drop, Room, Insert, CheckOwn,
                RecordOwn
<1> QED BY <1>1, <1>2, <1>3, <1>4, <1>5, <1>6 DEF Next

\* Nothing happens to the windows and the calls.
LEMMA IdleStep ==
    ASSUME UNCHANGED limiterVars \/ Tick
    PROVE  /\ check' = check /\ keys' = keys /\ hits' = hits /\ all' = all
           /\ \A c : HitsOf(c)' = HitsOf(c) /\ Admitting(c)' = Admitting(c)
           /\ \A c : \A at : Recording(c, at)' = Recording(c, at)
<1>1. check' = check /\ keys' = keys /\ hits' = hits /\ all' = all
    BY DEF limiterVars, Tick
<1> QED BY <1>1 DEF HitsOf, Admitting, Recording

\* Where get and the check of a caller's own window lead.
LEMMA LookStep ==
    ASSUME TypeInv, NEW t \in Threads
    PROVE  /\ Get(t) => \/ /\ check[t].key \in DOMAIN keys /\ check'[t].at = "own"
                           /\ check'[t].window = keys[check[t].key]
                        \/ check[t].key \notin DOMAIN keys /\ check'[t].at = "size"
           /\ CheckOwn(t) =>
                 LET own == Trimmed(hits[check[t].window], check[t].now) IN
                 \/ /\ Full(own) /\ check'[t].at = "refusedByOwn"
                    /\ check'[t].retry = RetryAfter(own, check[t].now)
                 \/ ~Full(own) /\ check'[t].at = "recordOwn" /\ check'[t].window = check[t].window
           /\ RecordOwn(t) => check'[t].window = check[t].window
<1>1. check \in [Threads -> Check] /\ check[t] \in Check
    BY DEF TypeInv, TypeOK
<1>2. ASSUME NEW step \in Steps, Go(t, step)
      PROVE  check'[t].at = step /\ check'[t].window = check[t].window
    BY <1>1, <1>2 DEF Go, Check
<1>3. Get(t) => \/ /\ check[t].key \in DOMAIN keys /\ check'[t].at = "own"
                   /\ check'[t].window = keys[check[t].key]
                \/ check[t].key \notin DOMAIN keys /\ check'[t].at = "size"
    BY <1>1, <1>2 DEF Get, Check, Steps
<1>4. ASSUME CheckOwn(t)
      PROVE  LET own == Trimmed(hits[check[t].window], check[t].now) IN
             \/ /\ Full(own) /\ check'[t].at = "refusedByOwn"
                /\ check'[t].retry = RetryAfter(own, check[t].now)
             \/ ~Full(own) /\ check'[t].at = "recordOwn" /\ check'[t].window = check[t].window
  <2> DEFINE own == Trimmed(hits[check[t].window], check[t].now)
  <2>1. IF Full(own) THEN End(t, "refusedByOwn", RetryAfter(own, check[t].now))
        ELSE Go(t, "recordOwn")
      BY <1>4 DEF CheckOwn
  <2> HIDE DEF own
  <2>2. CASE Full(own)
      BY <1>1, <2>1, <2>2 DEF End, Idle, own
  <2>3. CASE ~Full(own)
      BY <1>2, <2>1, <2>3 DEF Steps, own
  <2> QED BY <2>2, <2>3
<1>5. RecordOwn(t) => check'[t].window = check[t].window
    BY <1>2 DEF RecordOwn, Steps
<1> QED BY <1>3, <1>4, <1>5

-----------------------------------------------------------------------------
(* Every sender's share *)

\* With room for all callers none is dropped, and every call has the window of
\* its caller.
NoneDropped ==
    \A t \in Threads :
        /\ check[t].at \notin {"sweep", "drop", "failed"}
        /\ check[t].at \in {"own", "recordOwn", "record"} => Holds(t, check[t].who)

\* Each caller's window counts what was let through of it, now and later.
NoneForgotten ==
    \A c \in Callers : \A at \in Nat : at >= clock =>
        OwnAt(served, c, at) + Cardinality(Recording(c, at)) <= HitsAt(HitsOf(c), at)

\* It is too long by no more than the threads that passed its check together.
NoneOverfull ==
    \A c \in Callers :
        Len(HitsOf(c)) + Cardinality(Admitting(c)) <= PerKey + Cardinality(Threads) - 1

AmpleInv == Ample => NoneDropped /\ NoneForgotten /\ NoneOverfull

LEMMA HitsOfNothing == ASSUME NEW at  PROVE  HitsAt(<<>>, at) = 0
<1>1. {i \in 1..Len(<<>>) : <<>>[i] > at - Window} = {}
    OBVIOUS
<1> QED BY <1>1, FS_EmptySet DEF HitsAt

LEMMA ServedNothing == ASSUME NEW c, NEW at  PROVE  OwnAt(<<>>, c, at) = 0 /\ AllAt(<<>>, at) = 0
<1>1. {i \in 1..Len(<<>>) : <<>>[i].who = c /\ <<>>[i].at > at - Window} = {}
    OBVIOUS
<1>2. {i \in 1..Len(<<>>) : <<>>[i].at > at - Window} = {}
    OBVIOUS
<1> QED BY <1>1, <1>2, FS_EmptySet DEF OwnAt, AllAt

LEMMA InitAmple == Init => AmpleInv
<1> SUFFICES ASSUME Init  PROVE  AmpleInv
    OBVIOUS
<1>1. \A c : HitsOf(c) = <<>> /\ Admitting(c) = {} /\ \A at : Recording(c, at) = {}
    BY DEF Init, HitsOf, Admitting, Recording, Idle
<1>2. served = <<>> /\ \A t \in Threads : check[t].at = "idle"
    BY DEF Init, Idle
<1>3. NoneDropped
    BY <1>2 DEF NoneDropped
<1>4. NoneForgotten
  <2> SUFFICES ASSUME NEW c \in Callers, NEW at \in Nat
               PROVE  OwnAt(served, c, at) + Cardinality(Recording(c, at)) <= HitsAt(HitsOf(c), at)
      BY DEF NoneForgotten
  <2>1. HitsOf(c) = <<>> /\ Recording(c, at) = {} /\ served = <<>>
      BY <1>1, <1>2
  <2>2. OwnAt(<<>>, c, at) = 0 /\ Cardinality({}) = 0 /\ HitsAt(<<>>, at) = 0
      BY HitsOfNothing, ServedNothing, FS_EmptySet
  <2> QED BY <2>1, <2>2
<1>5. NoneOverfull
  <2>1. Cardinality(Threads) \in Nat /\ Cardinality(Threads) >= 1 /\ PerKey \in Nat
      BY Counted, LimiterAssumption
  <2>2. Len(<<>>) = 0 /\ Cardinality({}) = 0
      BY FS_EmptySet
  <2> SUFFICES ASSUME NEW c \in Callers
               PROVE  Len(HitsOf(c)) + Cardinality(Admitting(c)) <= PerKey + Cardinality(Threads) - 1
      BY DEF NoneOverfull
  <2>3. HitsOf(c) = <<>> /\ Admitting(c) = {}
      BY <1>1
  <2> QED BY <2>1, <2>2, <2>3
<1> QED BY <1>3, <1>4, <1>5 DEF AmpleInv

LEMMA AmpleStays == ASSUME [Next]_limiterVars  PROVE  max_tracked_keys' = max_tracked_keys /\ alone' = alone
BY DEF Next, Arrive, Checks, CheckOverall, Get, Size, Sweep, Drop, Room, Insert,
       CheckOwn, RecordOwn, Record, Leave, Tick, limiterVars, settings

\* The table has room, and nothing is dropped from it.
LEMMA AmpleTable ==
    ASSUME TypeInv, Ample, NoneDropped, NEW t \in Threads
    PROVE  /\ ~Sweep(t) /\ ~Drop(t)
           /\ Size(t) => check'[t].at = "room"
           /\ Room(t) => check'[t].at = "insert"
<1>1. Cardinality(DOMAIN keys) < max_tracked_keys
  <2>1. IsFiniteSet(Callers)
      BY LimiterAssumption, FS_AddElement DEF Callers
  <2>2. DOMAIN keys \subseteq Callers
      BY DEF TypeInv, TypeOK
  <2>3. Cardinality(DOMAIN keys) <= Cardinality(Callers)
      BY <2>1, <2>2, FS_Subset
  <2>4. Cardinality(Callers) \in Nat /\ Cardinality(DOMAIN keys) \in Nat /\ max_tracked_keys \in Nat
      BY <2>1, <2>2, FS_Subset, FS_CardinalityType, LimiterAssumption DEF TypeInv, TypeOK
  <2> QED BY <2>3, <2>4 DEF Ample
<1>2. ~Sweep(t) /\ ~Drop(t)
    BY StartsAt DEF NoneDropped
<1>3. Size(t) => check'[t].at = "room"
    BY <1>1 DEF Size, Go, TypeInv, TypeOK, Check
<1>4. Room(t) => check'[t].at = "insert"
    BY <1>1 DEF Room, HasRoom, Go, TypeInv, TypeOK, Check
<1> QED BY <1>2, <1>3, <1>4

LEMMA StepNoneDropped ==
    ASSUME TypeInv, KeyInv, Ample, NoneDropped, [Next]_limiterVars
    PROVE  NoneDropped'
<1>1. \A t \in Threads : ~Drop(t) /\ ~Sweep(t)
    BY AmpleTable
<1>2. CASE UNCHANGED limiterVars \/ Tick
  <2>1. check' = check /\ keys' = keys
      BY <1>2, IdleStep
  <2> QED BY <1>1, <2>1 DEF NoneDropped, Holds
<1>3. ASSUME NEW t \in Threads, Arrive(t) \/ Leave(t) \/ Checks(t)  PROVE  NoneDropped'
  <2>1. \A u \in Threads \ {t} : check'[u] = check[u]
      BY <1>3, OneMoves
  <2>2. \A k \in DOMAIN keys : k \in DOMAIN keys' /\ keys'[k] = keys[k]
    <3>1. CASE Insert(t)
        BY <3>1, InsertStep
    <3>2. CASE ~Insert(t)
        BY <1>1, <1>3, <3>2, QuietStep, OwnStep, RecordOwnStep, RecordStep DEF Checks
    <3> QED BY <3>1, <3>2
  <2>3. check'[t].at \notin {"sweep", "drop", "failed"}
    <3>1. CASE Arrive(t) \/ Leave(t)
        BY <3>1, Moves
    <3>2. CASE CheckOverall(t) \/ Get(t) \/ Insert(t) \/ CheckOwn(t) \/ RecordOwn(t) \/ Record(t)
        BY <3>2, Moves
    <3>3. CASE Size(t) \/ Room(t)
        BY <3>3, AmpleTable
    <3> QED BY <1>1, <1>3, <3>1, <3>2, <3>3 DEF Checks
  <2>4. ASSUME check'[t].at \in {"own", "recordOwn", "record"}
        PROVE  check'[t].who \in DOMAIN keys' /\ check'[t].window = keys'[check'[t].who]
    <3>1. Get(t) \/ Insert(t) \/ CheckOwn(t) \/ RecordOwn(t)
        BY <1>1, <1>3, <2>4, AmpleTable, Moves DEF Checks
    <3>2. check'[t].who = check[t].who /\ check[t].key = check[t].who
        BY <3>1, ChecksStep DEF Checks, KeyInv
    <3>3. CASE Get(t)
        BY <2>2, <2>4, <3>2, <3>3, LookStep
    <3>4. CASE Insert(t)
      <4>1. check[t].key \in DOMAIN keys' /\ check'[t].window = keys'[check[t].key]
          BY <3>4, InsertStep
      <4> QED BY <3>2, <4>1
    <3>5. CASE CheckOwn(t) \/ RecordOwn(t)
      <4>1. check'[t].window = check[t].window
          BY <2>4, <3>5, LookStep
      <4>2. Holds(t, check[t].who)
          BY <3>5, StartsAt DEF NoneDropped
      <4> QED BY <2>2, <3>2, <4>1, <4>2 DEF Holds
    <3> QED BY <3>1, <3>3, <3>4, <3>5
  <2>5. ASSUME NEW u \in Threads, check'[u].at \in {"own", "recordOwn", "record"}
        PROVE  check'[u].who \in DOMAIN keys' /\ check'[u].window = keys'[check'[u].who]
    <3>1. CASE u = t
        BY <2>4, <2>5, <3>1
    <3>2. CASE u # t
        BY <2>1, <2>2, <2>5, <3>2 DEF NoneDropped, Holds
    <3> QED BY <3>1, <3>2
  <2>6. \A u \in Threads : check'[u].at \notin {"sweep", "drop", "failed"}
      BY <2>1, <2>3 DEF NoneDropped
  <2> QED BY <2>5, <2>6 DEF NoneDropped, Holds
<1> QED BY <1>1, <1>2, <1>3 DEF Next

LEMMA StepNoneForgotten ==
    ASSUME TypeInv, KeyInv, Ample, NoneDropped, NoneForgotten, [Next]_limiterVars
    PROVE  NoneForgotten'
<1> SUFFICES ASSUME NEW c \in Callers, NEW at \in Nat, at >= clock'
             PROVE  OwnAt(served', c, at) + Cardinality(Recording(c, at)') <= HitsAt(HitsOf(c)', at)
    BY DEF NoneForgotten
<1>1. clock \in Nat /\ at >= clock
    BY ServedStep
<1>2. OwnAt(served, c, at) + Cardinality(Recording(c, at)) <= HitsAt(HitsOf(c), at)
    BY <1>1 DEF NoneForgotten
<1>3. /\ HitsOf(c) \in Seq(Nat) /\ HitsAt(HitsOf(c), at) \in Nat /\ OwnAt(served, c, at) \in Nat
    BY HitsOfType, HitsType, ServedType DEF TypeInv
<1>4. CASE UNCHANGED limiterVars \/ Tick
  <2>1. OwnAt(served', c, at) = OwnAt(served, c, at)
      BY <1>4, ServedStep
  <2>2. HitsOf(c)' = HitsOf(c) /\ Recording(c, at)' = Recording(c, at)
      BY <1>4, IdleStep
  <2> QED BY <1>2, <2>1, <2>2
<1>5. ASSUME NEW t \in Threads, Arrive(t) \/ Leave(t) \/ Checks(t)
      PROVE  OwnAt(served', c, at) + Cardinality(Recording(c, at)') <= HitsAt(HitsOf(c)', at)
  <2>1. /\ Cardinality(Recording(c, at)) \in Nat /\ check[t].now \in Nat /\ check[t].now <= clock
      BY <1>5, RecordingStep DEF TypeInv, TypeOK, Check, CallOK
  <2>2. ~Record(t) => served' = served
      BY <1>5 DEF Arrive, Leave, Checks, CheckOverall, Get, Size, Sweep, Drop, Room, Insert, CheckOwn,
                  RecordOwn
  <2>3. Holds(t, c) => c = check[t].who
      BY DEF Holds, KeyInv
  <2>4. CASE CheckOwn(t)
    <3>1. Recording(c, at)' = Recording(c, at) /\ served' = served
      <4>1. ~Record(t) /\ check'[t].at # "record"
          BY <2>4, StartsAt, Moves
      <4> QED BY <1>5, <2>2, <4>1, RecordingStep
    <3>2. HitsOf(c)' = IF Holds(t, c) THEN Trimmed(HitsOf(c), check[t].now) ELSE HitsOf(c)
        BY <1>5, <2>4, HitsOfStep
    <3> DEFINE s == HitsOf(c)
               now == check[t].now
    <3>3. s \in Seq(Nat) /\ now \in Nat /\ now <= at
        BY <1>1, <1>3, <2>1
    <3> HIDE DEF s, now
    <3>4. HitsAt(Trimmed(s, now), at) = HitsAt(s, at)
        BY <3>3, HitsTrim
    <3> QED BY <1>2, <3>1, <3>2, <3>4 DEF s, now
  <2>5. CASE RecordOwn(t)
    <3>1. served' = served
      <4>1. ~Record(t)
          BY <2>5, StartsAt
      <4> QED BY <2>2, <4>1
    <3>2. Cardinality(Recording(c, at)') = Cardinality(Recording(c, at))
              + (IF check[t].who = c /\ check[t].now > at - Window THEN 1 ELSE 0)
        BY <1>5, <2>5, Moves, RecordingStep
    <3>3. HitsOf(c)' = IF check[t].who = c THEN Append(HitsOf(c), check[t].now) ELSE HitsOf(c)
      <4>1. Holds(t, check[t].who)
          BY <2>5, StartsAt DEF NoneDropped
      <4> QED BY <1>5, <2>3, <2>5, <4>1, HitsOfStep
    <3> DEFINE s == HitsOf(c)
               now == check[t].now
    <3>4. s \in Seq(Nat) /\ now \in Nat
        BY <1>3, <2>1
    <3> HIDE DEF s, now
    <3>5. /\ now > at - Window => HitsAt(Append(s, now), at) = HitsAt(s, at) + 1
          /\ ~(now > at - Window) => HitsAt(Append(s, now), at) = HitsAt(s, at)
        BY <3>4, HitsAppend
    <3>6. HitsAt(HitsOf(c)', at) = HitsAt(HitsOf(c), at)
              + (IF check[t].who = c /\ check[t].now > at - Window THEN 1 ELSE 0)
        BY <1>3, <3>3, <3>5 DEF s, now
    <3> QED BY <1>2, <1>3, <2>1, <3>1, <3>2, <3>6
  <2>6. CASE Record(t)
    <3>1. HitsOf(c)' = HitsOf(c)
      <4>1. ~Drop(t) /\ ~CheckOwn(t) /\ ~RecordOwn(t)
          BY <2>6, StartsAt
      <4> QED BY <1>5, <4>1, HitsOfStep
    <3>2. Cardinality(Recording(c, at)') = Cardinality(Recording(c, at))
              - (IF check[t].who = c /\ check[t].now > at - Window THEN 1 ELSE 0)
        BY <1>5, <2>6, RecordingStep
    <3>3. OwnAt(served', c, at) = OwnAt(served, c, at)
              + (IF check[t].who = c /\ check[t].now > at - Window THEN 1 ELSE 0)
        BY <2>6, ServedStep
    <3> QED BY <1>2, <1>3, <2>1, <3>1, <3>2, <3>3
  <2>7. CASE ~CheckOwn(t) /\ ~RecordOwn(t) /\ ~Record(t)
    <3>1. HitsOf(c)' = HitsOf(c) /\ served' = served
        BY <1>5, <2>2, <2>7, AmpleTable, HitsOfStep
    <3>2. check'[t].at # "record"
      <4>1. CASE Room(t)
          BY <4>1, AmpleTable
      <4> QED BY <1>5, <2>7, <4>1, Moves DEF Checks
    <3>3. Recording(c, at)' = Recording(c, at)
        BY <1>5, <2>7, <3>2, RecordingStep
    <3> QED BY <1>2, <3>1, <3>3
  <2> QED BY <2>4, <2>5, <2>6, <2>7
<1> QED BY <1>4, <1>5 DEF Next

LEMMA StepNoneOverfull ==
    ASSUME TypeInv, KeyInv, Ample, NoneDropped, NoneOverfull, [Next]_limiterVars
    PROVE  NoneOverfull'
<1> SUFFICES ASSUME NEW c \in Callers
             PROVE  Len(HitsOf(c)') + Cardinality(Admitting(c)') <= PerKey + Cardinality(Threads) - 1
    BY DEF NoneOverfull
<1>1. Len(HitsOf(c)) + Cardinality(Admitting(c)) <= PerKey + Cardinality(Threads) - 1
    BY DEF NoneOverfull
<1>2. HitsOf(c) \in Seq(Nat) /\ Len(HitsOf(c)) \in Nat /\ PerKey \in Nat
    BY HitsOfType, LimiterAssumption
<1>3. CASE UNCHANGED limiterVars \/ Tick
    BY <1>1, <1>3, IdleStep
<1>4. ASSUME NEW t \in Threads, Arrive(t) \/ Leave(t) \/ Checks(t)
      PROVE  Len(HitsOf(c)') + Cardinality(Admitting(c)') <= PerKey + Cardinality(Threads) - 1
  <2>1. /\ Cardinality(Admitting(c)) \in Nat /\ Cardinality(Admitting(c)') \in Nat
        /\ Cardinality(Admitting(c)') <= Cardinality(Threads) /\ Cardinality(Threads) \in Nat
      BY <1>4, AdmittingStep
  <2>2. check[t].now \in Nat
      BY DEF TypeInv, TypeOK, Check
  <2>3. Holds(t, c) => c = check[t].who
      BY DEF Holds, KeyInv
  <2>4. CASE CheckOwn(t)
    <3>1. Holds(t, check[t].who)
        BY <2>4, StartsAt DEF NoneDropped
    <3>2. HitsOf(c)' = IF check[t].who = c THEN Trimmed(HitsOf(c), check[t].now) ELSE HitsOf(c)
        BY <1>4, <2>3, <2>4, <3>1, HitsOfStep
    <3>3. CASE check[t].who # c
      <4>1. HitsOf(c)' = HitsOf(c) /\ Admitting(c)' = Admitting(c)
          BY <1>4, <2>4, <3>2, <3>3, AdmittingStep
      <4> QED BY <1>1, <4>1
    <3>4. CASE check[t].who = c
      <4> DEFINE s == HitsOf(c)
                 now == check[t].now
                 own == Trimmed(s, now)
      <4>1. own \in Seq(Nat) /\ Len(own) <= Len(s)
        <5>1. s \in Seq(Nat) /\ now \in Nat /\ now \in Nat
            BY <1>2, <2>2
        <5> HIDE DEF s, now
        <5> QED BY <5>1, HitsTrim
      <4>2. hits[check[t].window] = s
          BY <3>1, <3>4 DEF Holds, HitsOf
      <4>3. HitsOf(c)' = own
          BY <3>2, <3>4
      <4>4. Len(own) \in Nat
          BY <4>1
      <4>5. \/ Full(own) /\ check'[t].at = "refusedByOwn"
            \/ ~Full(own) /\ check'[t].at = "recordOwn"
          BY <2>4, <4>2, LookStep
      <4> HIDE DEF s, now, own
      <4>6. CASE check'[t].at = "refusedByOwn"
        <5>1. Admitting(c)' = Admitting(c)
          <6>1. ~RecordOwn(t)
              BY <2>4, StartsAt
          <6> QED BY <1>4, <4>6, <6>1, AdmittingStep
        <5> QED BY <1>1, <1>2, <2>1, <4>1, <4>3, <4>4, <5>1 DEF s
      <4>7. CASE ~Full(own)
          BY <1>2, <2>1, <4>3, <4>4, <4>7 DEF Full
      <4> QED BY <4>5, <4>6, <4>7
    <3> QED BY <3>3, <3>4
  <2>5. CASE RecordOwn(t)
    <3>1. Holds(t, check[t].who)
        BY <2>5, StartsAt DEF NoneDropped
    <3>2. HitsOf(c)' = IF check[t].who = c THEN Append(HitsOf(c), check[t].now) ELSE HitsOf(c)
        BY <1>4, <2>3, <2>5, <3>1, HitsOfStep
    <3>3. Cardinality(Admitting(c)') = Cardinality(Admitting(c)) - (IF check[t].who = c THEN 1 ELSE 0)
        BY <1>4, <2>5, AdmittingStep
    <3>4. Len(HitsOf(c)') = Len(HitsOf(c)) + (IF check[t].who = c THEN 1 ELSE 0)
        BY <1>2, <2>2, <3>2, AppendProperties
    <3> QED BY <1>1, <1>2, <2>1, <3>3, <3>4
  <2>6. CASE ~CheckOwn(t) /\ ~RecordOwn(t)
    <3>1. HitsOf(c)' = HitsOf(c)
        BY <1>4, <2>6, AmpleTable, HitsOfStep
    <3>2. check'[t].at # "recordOwn"
        BY <1>4, <2>6, Moves DEF Checks
    <3>3. Admitting(c)' = Admitting(c)
        BY <1>4, <2>6, <3>2, AdmittingStep
    <3> QED BY <1>1, <3>1, <3>3
  <2> QED BY <2>4, <2>5, <2>6
<1> QED BY <1>3, <1>4 DEF Next

LEMMA StepAmple == TypeInv /\ KeyInv /\ AmpleInv /\ [Next]_limiterVars => AmpleInv'
<1> SUFFICES ASSUME TypeInv, KeyInv, AmpleInv, [Next]_limiterVars, Ample
             PROVE  NoneDropped' /\ NoneForgotten' /\ NoneOverfull'
    BY AmpleStays DEF AmpleInv, Ample
<1>1. NoneDropped /\ NoneForgotten /\ NoneOverfull
    BY DEF AmpleInv
<1> QED BY <1>1, StepNoneDropped, StepNoneForgotten, StepNoneOverfull

\* With room for all callers in the table, no sender is let through more often in
\* a window than its own limit and the threads that passed its check together.
THEOREM SendersStayBounded == Spec => []SenderBounded
<1>1. TypeInv /\ AmpleInv => SenderBounded
  <2> SUFFICES ASSUME TypeInv, AmpleInv, Ample, NEW c \in Callers
               PROVE  Own(c, clock) <= PerKey + Cardinality(Threads) - 1
      BY DEF SenderBounded
  <2>1. clock \in Nat /\ DOMAIN served = 1..Len(served) /\ served \in Seq(Served)
      BY LimiterAssumption DEF TypeInv, TypeOK
  <2>2. Own(c, clock) = OwnAt(served, c, clock)
      BY <2>1 DEF Own, OwnAt
  <2>3. /\ OwnAt(served, c, clock) + Cardinality(Recording(c, clock)) <= HitsAt(HitsOf(c), clock)
        /\ Len(HitsOf(c)) + Cardinality(Admitting(c)) <= PerKey + Cardinality(Threads) - 1
      BY <2>1 DEF AmpleInv, NoneForgotten, NoneOverfull
  <2>4. /\ HitsAt(HitsOf(c), clock) \in Nat /\ HitsAt(HitsOf(c), clock) <= Len(HitsOf(c))
        /\ Len(HitsOf(c)) \in Nat /\ OwnAt(served, c, clock) \in Nat
      BY <2>1, HitsOfType, HitsType, ServedType
  <2>5. Recording(c, clock) \in SUBSET Threads /\ Admitting(c) \in SUBSET Threads
      BY DEF Recording, Admitting
  <2>6. /\ Cardinality(Recording(c, clock)) \in Nat /\ Cardinality(Admitting(c)) \in Nat
        /\ Cardinality(Threads) \in Nat /\ PerKey \in Nat
      BY <2>5, Counted, LimiterAssumption
  <2> QED BY <2>2, <2>3, <2>4, <2>6
<1> QED BY InitTypes, StepTypes, InitKey, StepKey, InitAmple, StepAmple, <1>1, PTL DEF Spec

-----------------------------------------------------------------------------
(* Nothing is counted twice *)

\* The ceiling's window counts what was let through, now and later; a caller's
\* counts nothing else.
AllCounted == \A at \in Nat : at >= clock => HitsAt(all, at) = AllAt(served, at)

OwnCounted ==
    \A c \in Callers : \A at \in Nat : at >= clock =>
        HitsAt(HitsOf(c), at) <= OwnAt(served, c, at) + Cardinality(Recording(c, at))

CountInv == AllCounted /\ OwnCounted

LEMMA InitCount == Init => CountInv
<1> SUFFICES ASSUME Init  PROVE  CountInv
    OBVIOUS
<1>1. all = <<>> /\ served = <<>> /\ \A c : HitsOf(c) = <<>> /\ \A at : Recording(c, at) = {}
    BY DEF Init, HitsOf, Recording, Idle
<1>2. AllCounted
    BY <1>1, HitsOfNothing, ServedNothing DEF AllCounted
<1>3. ASSUME NEW c \in Callers, NEW at \in Nat
      PROVE  HitsAt(HitsOf(c), at) <= OwnAt(served, c, at) + Cardinality(Recording(c, at))
  <2>1. HitsOf(c) = <<>> /\ Recording(c, at) = {} /\ served = <<>>
      BY <1>1
  <2>2. OwnAt(<<>>, c, at) = 0 /\ Cardinality({}) = 0 /\ HitsAt(<<>>, at) = 0
      BY HitsOfNothing, ServedNothing, FS_EmptySet
  <2> QED BY <2>1, <2>2
<1> QED BY <1>2, <1>3 DEF CountInv, OwnCounted

\* The ceiling's window is trimmed by each call and gets a hit of each admitted.
LEMMA AllStep ==
    ASSUME TypeInv, [Next]_limiterVars
    PROVE  /\ all \in Seq(Nat) /\ all' \in Seq(Nat)
           /\ \/ all' = all /\ \A t \in Threads : ~Record(t)
              \/ \E t \in Threads : CheckOverall(t) /\ ~Record(t) /\ all' = Trimmed(all, check[t].now)
              \/ \E t \in Threads : Record(t) /\ all' = Append(all, check[t].now)
<1>1. all \in Seq(Nat) /\ all' \in Seq(Nat)
  <2>1. TypeOK /\ TypeOK'
      BY StepTypes DEF TypeInv
  <2>2. all \in Seq(0..clock) /\ all' \in Seq(0..clock') /\ 0..clock \subseteq Nat /\ 0..clock' \subseteq Nat
      BY <2>1, LimiterAssumption DEF TypeOK
  <2> QED BY <2>2, SeqMonotonic
<1>2. \A t \in Threads : CheckOverall(t) => ~Record(t) /\ all' = Trimmed(all, check[t].now)
    BY StartsAt DEF CheckOverall
<1>3. \A t \in Threads : Record(t) => all' = Append(all, check[t].now)
    BY DEF Record
<1>4. (\A t \in Threads : ~CheckOverall(t) /\ ~Record(t)) => all' = all
    BY DEF Next, Arrive, Checks, Get, Size, Sweep, Drop, Room, Insert, CheckOwn, RecordOwn, Leave,
           Tick, limiterVars
<1> QED BY <1>1, <1>2, <1>3, <1>4

LEMMA StepAllCounted ==
    ASSUME TypeInv, AllCounted, [Next]_limiterVars
    PROVE  AllCounted'
<1> SUFFICES ASSUME NEW at \in Nat, at >= clock'
             PROVE  HitsAt(all', at) = AllAt(served', at)
    BY DEF AllCounted
<1>1. clock \in Nat /\ at >= clock /\ all \in Seq(Nat)
    BY ServedStep, AllStep
<1>2. HitsAt(all, at) = AllAt(served, at) /\ HitsAt(all, at) \in Nat
    BY <1>1, HitsType DEF AllCounted
<1>3. CASE all' = all /\ \A t \in Threads : ~Record(t)
    BY <1>2, <1>3, ServedStep
<1>4. ASSUME NEW t \in Threads, CheckOverall(t), all' = Trimmed(all, check[t].now)
      PROVE  HitsAt(all', at) = AllAt(served', at)
  <2> DEFINE now == check[t].now
  <2>1. now \in Nat /\ now <= clock /\ served' = served /\ all' = Trimmed(all, now)
      BY <1>4 DEF TypeInv, TypeOK, Check, CallOK, CheckOverall
  <2> HIDE DEF now
  <2>2. HitsAt(Trimmed(all, now), at) = HitsAt(all, at)
      BY <1>1, <2>1, HitsTrim
  <2> QED BY <1>2, <2>1, <2>2
<1>5. ASSUME NEW t \in Threads, Record(t), all' = Append(all, check[t].now)
      PROVE  HitsAt(all', at) = AllAt(served', at)
  <2>1. AllAt(served', at) = AllAt(served, at) + (IF check[t].now > at - Window THEN 1 ELSE 0)
      BY <1>5, ServedStep
  <2> DEFINE now == check[t].now
  <2>2. now \in Nat /\ all' = Append(all, now)
      BY <1>5 DEF TypeInv, TypeOK, Check
  <2>3. AllAt(served', at) = AllAt(served, at) + (IF now > at - Window THEN 1 ELSE 0)
      BY <2>1
  <2> HIDE DEF now
  <2>4. /\ now > at - Window => HitsAt(Append(all, now), at) = HitsAt(all, at) + 1
        /\ ~(now > at - Window) => HitsAt(Append(all, now), at) = HitsAt(all, at)
      BY <1>1, <2>2, HitsAppend
  <2> QED BY <1>2, <2>2, <2>3, <2>4
<1> QED BY <1>3, <1>4, <1>5, AllStep

LEMMA StepOwnCounted ==
    ASSUME TypeInv, KeyInv, OwnCounted, [Next]_limiterVars
    PROVE  OwnCounted'
<1> SUFFICES ASSUME NEW c \in Callers, NEW at \in Nat, at >= clock'
             PROVE  HitsAt(HitsOf(c)', at) <= OwnAt(served', c, at) + Cardinality(Recording(c, at)')
    BY DEF OwnCounted
<1>1. clock \in Nat /\ at >= clock
    BY ServedStep
<1>2. HitsAt(HitsOf(c), at) <= OwnAt(served, c, at) + Cardinality(Recording(c, at))
    BY <1>1 DEF OwnCounted
<1>3. /\ HitsOf(c) \in Seq(Nat) /\ HitsAt(HitsOf(c), at) \in Nat /\ OwnAt(served, c, at) \in Nat
    BY HitsOfType, HitsType, ServedType DEF TypeInv
<1>4. CASE UNCHANGED limiterVars \/ Tick
  <2>1. OwnAt(served', c, at) = OwnAt(served, c, at)
      BY <1>4, ServedStep
  <2>2. HitsOf(c)' = HitsOf(c) /\ Recording(c, at)' = Recording(c, at)
      BY <1>4, IdleStep
  <2> QED BY <1>2, <2>1, <2>2
<1>5. ASSUME NEW t \in Threads, Arrive(t) \/ Leave(t) \/ Checks(t)
      PROVE  HitsAt(HitsOf(c)', at) <= OwnAt(served', c, at) + Cardinality(Recording(c, at)')
  <2>1. /\ Cardinality(Recording(c, at)) \in Nat /\ Cardinality(Recording(c, at)') \in Nat
        /\ check[t].now \in Nat /\ check[t].now <= clock
      BY <1>5, RecordingStep DEF TypeInv, TypeOK, Check, CallOK
  <2>2. ~Record(t) => served' = served
      BY <1>5 DEF Arrive, Leave, Checks, CheckOverall, Get, Size, Sweep, Drop, Room, Insert, CheckOwn,
                  RecordOwn
  <2>3. Holds(t, c) => c = check[t].who
      BY DEF Holds, KeyInv
  <2>4. ~Record(t) => Cardinality(Recording(c, at)) <= Cardinality(Recording(c, at)')
      BY <1>5, RecordingStep
  <2>5. CASE CheckOwn(t)
    <3>1. ~Record(t)
        BY <2>5, StartsAt
    <3>2. HitsOf(c)' = IF Holds(t, c) THEN Trimmed(HitsOf(c), check[t].now) ELSE HitsOf(c)
        BY <1>5, <2>5, HitsOfStep
    <3> DEFINE s == HitsOf(c)
               now == check[t].now
    <3>3. s \in Seq(Nat) /\ now \in Nat /\ now <= at
        BY <1>1, <1>3, <2>1
    <3> HIDE DEF s, now
    <3>4. HitsAt(Trimmed(s, now), at) = HitsAt(s, at)
        BY <3>3, HitsTrim
    <3>5. HitsAt(HitsOf(c)', at) = HitsAt(HitsOf(c), at)
        BY <3>2, <3>4 DEF s, now
    <3> QED BY <1>2, <1>3, <2>1, <2>2, <2>4, <3>1, <3>5
  <2>6. CASE RecordOwn(t)
    <3>1. ~Record(t) /\ check'[t].at = "record"
        BY <2>6, StartsAt, Moves
    <3>2. Cardinality(Recording(c, at)') = Cardinality(Recording(c, at))
              + (IF check[t].who = c /\ check[t].now > at - Window THEN 1 ELSE 0)
        BY <1>5, <3>1, RecordingStep
    <3>3. HitsOf(c)' = IF Holds(t, c) THEN Append(HitsOf(c), check[t].now) ELSE HitsOf(c)
        BY <1>5, <2>6, HitsOfStep
    <3> DEFINE s == HitsOf(c)
               now == check[t].now
    <3>4. s \in Seq(Nat) /\ now \in Nat
        BY <1>3, <2>1
    <3> HIDE DEF s, now
    <3>5. /\ now > at - Window => HitsAt(Append(s, now), at) = HitsAt(s, at) + 1
          /\ ~(now > at - Window) => HitsAt(Append(s, now), at) = HitsAt(s, at)
        BY <3>4, HitsAppend
    <3>6. HitsAt(HitsOf(c)', at) <= HitsAt(HitsOf(c), at)
              + (IF check[t].who = c /\ check[t].now > at - Window THEN 1 ELSE 0)
        BY <1>3, <2>3, <3>3, <3>5 DEF s, now
    <3>7. HitsAt(HitsOf(c)', at) \in Nat
      <4>1. TypeInv'
          BY StepTypes
      <4>2. Append(HitsOf(c), check[t].now) \in Seq(Nat)
          BY <1>3, <2>1, AppendProperties
      <4>3. HitsOf(c)' \in Seq(Nat)
          BY <1>3, <3>3, <4>2
      <4> DEFINE s2 == HitsOf(c)'
      <4>4. s2 \in Seq(Nat)
          BY <4>3
      <4> HIDE DEF s2
      <4>5. HitsAt(s2, at) \in Nat
          BY <4>4, HitsType
      <4> QED BY <4>5 DEF s2
    <3> QED BY <1>2, <1>3, <2>1, <2>2, <3>1, <3>2, <3>6, <3>7
  <2>7. CASE Record(t)
    <3>1. HitsOf(c)' = HitsOf(c)
      <4>1. ~Drop(t) /\ ~CheckOwn(t) /\ ~RecordOwn(t)
          BY <2>7, StartsAt
      <4> QED BY <1>5, <4>1, HitsOfStep
    <3>2. Cardinality(Recording(c, at)') = Cardinality(Recording(c, at))
              - (IF check[t].who = c /\ check[t].now > at - Window THEN 1 ELSE 0)
        BY <1>5, <2>7, RecordingStep
    <3>3. OwnAt(served', c, at) = OwnAt(served, c, at)
              + (IF check[t].who = c /\ check[t].now > at - Window THEN 1 ELSE 0)
        BY <2>7, ServedStep
    <3> QED BY <1>2, <1>3, <2>1, <3>1, <3>2, <3>3
  <2>8. CASE Drop(t)
    <3>1. ~Record(t)
        BY <2>8, StartsAt
    <3>2. HitsOf(c)' \in {HitsOf(c), <<>>}
        BY <1>5, <2>8, HitsOfStep
    <3>3. HitsAt(HitsOf(c)', at) = HitsAt(HitsOf(c), at) \/ HitsAt(HitsOf(c)', at) = 0
        BY <3>2, HitsOfNothing
    <3> QED BY <1>2, <1>3, <2>1, <2>2, <2>4, <3>1, <3>3
  <2>9. CASE ~CheckOwn(t) /\ ~RecordOwn(t) /\ ~Record(t) /\ ~Drop(t)
    <3>1. HitsOf(c)' = HitsOf(c)
        BY <1>5, <2>9, HitsOfStep
    <3> QED BY <1>2, <1>3, <2>1, <2>2, <2>4, <2>9, <3>1
  <2> QED BY <2>5, <2>6, <2>7, <2>8, <2>9
<1> QED BY <1>4, <1>5 DEF Next

LEMMA StepCount == TypeInv /\ KeyInv /\ CountInv /\ [Next]_limiterVars => CountInv'
BY StepAllCounted, StepOwnCounted DEF CountInv

-----------------------------------------------------------------------------
(* Checks that do not overlap *)

Sorted(s) == \A i, j \in 1..Len(s) : i <= j => s[i] <= s[j]

\* One call at a time, and it takes none.
OneCallOnly ==
    /\ \A t, u \in Threads : check[t] # Idle /\ check[u] # Idle => t = u
    /\ \A t \in Threads : check[t].at \in Running => check[t].now = clock

\* Hits come in the order of time.
InOrder == Sorted(all) /\ \A c \in Callers : Sorted(HitsOf(c))

\* What the call has seen of the table is still so.
SeenRight ==
    \A t \in Threads :
        /\ check[t].at # "failed"
        /\ check[t].at = "sweep" => check[t].size = Cardinality(DOMAIN keys)
        /\ check[t].stale \subseteq DOMAIN keys
        /\ check[t].at \in {"size", "sweep", "drop", "room", "insert"}
              => check[t].who \notin DOMAIN keys
        /\ check[t].at \in {"own", "recordOwn"} => Holds(t, check[t].who)

OrderInv == alone => OneCallOnly /\ InOrder /\ SeenRight

LEMMA InitOrder == Init => OrderInv
<1> SUFFICES ASSUME Init  PROVE  OrderInv
    OBVIOUS
<1>1. \A t \in Threads : check[t] = Idle
    BY DEF Init
<1>2. OneCallOnly /\ SeenRight
    BY <1>1 DEF OneCallOnly, SeenRight, Idle, Running
<1>3. all = <<>> /\ \A c : HitsOf(c) = <<>>
    BY DEF Init, HitsOf
<1>4. Sorted(<<>>)
    BY DEF Sorted
<1> QED BY <1>2, <1>3, <1>4 DEF OrderInv, InOrder

\* Nobody else has a call on its way.
LEMMA AloneStep ==
    ASSUME TypeInv, alone, OneCallOnly, NEW t \in Threads, Arrive(t) \/ Leave(t) \/ Checks(t)
    PROVE  /\ \A u \in Threads \ {t} : check[u] = Idle /\ check'[u] = Idle
           /\ clock' = clock /\ clock \in Nat
           /\ Checks(t) => check[t].now = clock
<1>1. \A u \in Threads \ {t} : check'[u] = check[u]
    BY OneMoves
<1>2. \A u \in Threads \ {t} : check[u] = Idle
  <2>1. CASE Arrive(t)
      BY <2>1, ArriveStep
  <2>2. CASE Leave(t) \/ Checks(t)
    <3>1. check[t].at # "idle"
        BY <2>2, StartsAt DEF Checks
    <3>2. check[t] # Idle
        BY <3>1 DEF Idle
    <3> QED BY <3>2 DEF OneCallOnly
  <2> QED BY <2>1, <2>2
<1>3. clock' = clock
    BY DEF Arrive, Leave, Checks, CheckOverall, Get, Size, Sweep, Drop, Room, Insert, CheckOwn,
           RecordOwn, Record
<1>4. clock \in Nat
    BY LimiterAssumption DEF TypeInv, TypeOK
<1>5. Checks(t) => check[t].now = clock
    BY ChecksStep DEF OneCallOnly
<1> QED BY <1>1, <1>2, <1>3, <1>4, <1>5

LEMMA StepOneCallOnly ==
    ASSUME TypeInv, alone, OneCallOnly, [Next]_limiterVars
    PROVE  OneCallOnly'
<1>1. CASE UNCHANGED limiterVars
    BY <1>1 DEF limiterVars, OneCallOnly
<1>2. CASE Tick
  <2>1. check' = check /\ \A t \in Threads : check[t] = Idle
      BY <1>2 DEF Tick
  <2>2. Idle.at \notin Running
      BY DEF Idle, Running
  <2>3. \A t \in Threads : check'[t] = Idle
      BY <2>1
  <2> QED BY <2>2, <2>3 DEF OneCallOnly
<1>3. ASSUME NEW t \in Threads, Arrive(t) \/ Leave(t) \/ Checks(t)  PROVE  OneCallOnly'
  <2>1. (\A u \in Threads \ {t} : check'[u] = Idle) /\ clock' = clock
      BY <1>3, AloneStep
  <2>2. check'[t].at \in Running => check'[t].now = clock
    <3>1. CASE Arrive(t)
        BY <3>1, ArriveStep
    <3>2. CASE Leave(t)
        BY <3>2, Moves DEF Running
    <3>3. CASE Checks(t)
        BY <3>3, ChecksStep, AloneStep
    <3> QED BY <1>3, <3>1, <3>2, <3>3
  <2>3. Idle.at \notin Running
      BY DEF Idle, Running
  <2> QED BY <2>1, <2>2, <2>3 DEF OneCallOnly
<1> QED BY <1>1, <1>2, <1>3 DEF Next

\* Trimming a window in order leaves nothing that is out of it.
LEMMA TrimInOrder ==
    ASSUME NEW s \in Seq(Nat), Sorted(s), NEW now \in Nat
    PROVE  LET r == Trimmed(s, now) IN
           /\ r \in Seq(Nat) /\ Sorted(r) /\ HitsAt(r, now) = Len(r) /\ Len(r) <= Len(s)
           /\ r # <<>> => s # <<>> /\ s[1] <= r[1] /\ r[1] > now - Window
<1> DEFINE r == Trimmed(s, now)
           n == Len(s)
           m == Len(r)
<1>1. /\ r \in Seq(Nat) /\ m <= n
      /\ \A i \in 1..m : r[i] = s[n - m + i]
      /\ r # <<>> => r[1] > now - Window
  <2>1. Nat \in SUBSET Int /\ now \in Int
      OBVIOUS
  <2> QED BY <2>1, TrimmedIsAnEnd
<1> HIDE DEF r
<1>2. n \in Nat /\ m \in Nat
    BY <1>1
<1>3. r # <<>> => m >= 1
    BY <1>1, <1>2, EmptySeq
<1>4. \A i, j \in 1..n : i <= j => s[i] <= s[j]
    BY DEF Sorted
<1>5. s # <<>> <=> n # 0
    BY EmptySeq
<1> HIDE DEF n
<1>6. \A i, j \in 1..m : i <= j => r[i] <= r[j]
  <2> SUFFICES ASSUME NEW i \in 1..m, NEW j \in 1..m, i <= j  PROVE  r[i] <= r[j]
      OBVIOUS
  <2>1. n - m + i \in 1..n /\ n - m + j \in 1..n /\ n - m + i <= n - m + j
      BY <1>1, <1>2
  <2> QED BY <1>1, <1>4, <2>1
<1>7. r # <<>> => s # <<>> /\ s[1] <= r[1]
  <2> SUFFICES ASSUME r # <<>>  PROVE  s # <<>> /\ s[1] <= r[1]
      OBVIOUS
  <2>1. 1 \in 1..m /\ 1 \in 1..n /\ n - m + 1 \in 1..n /\ 1 <= n - m + 1
      BY <1>1, <1>2, <1>3
  <2> QED BY <1>1, <1>4, <1>5, <2>1
<1>8. HitsAt(r, now) = m
  <2>1. \A i \in 1..m : r[i] \in Nat
      BY <1>1
  <2>2. \A i \in 1..m : r[i] > now - Window
    <3> SUFFICES ASSUME NEW i \in 1..m  PROVE  r[i] > now - Window
        OBVIOUS
    <3>1. 1 \in 1..m /\ r # <<>>
        BY <1>2, Len(<<>>) = 0
    <3>2. r[1] <= r[i] /\ r[1] > now - Window /\ r[1] \in Nat /\ r[i] \in Nat
        BY <1>1, <1>6, <2>1, <3>1
    <3> QED BY <3>2, LimiterAssumption
  <2>3. HitsAt(r, now) = Cardinality(1..m)
    <3>1. {i \in 1..m : r[i] > now - Window} = 1..m
        BY <2>2
    <3> QED BY <3>1 DEF HitsAt
  <2> HIDE DEF m
  <2>4. Cardinality(1..m) = m
      BY <1>2, FS_Interval
  <2> QED BY <2>3, <2>4
<1> QED BY <1>1, <1>6, <1>7, <1>8 DEF r, n, Sorted

\* A hit at the latest time keeps a window in order.
LEMMA AppendInOrder ==
    ASSUME NEW now \in Nat, NEW s \in Seq(0..now), Sorted(s)
    PROVE  Sorted(Append(s, now))
<1> DEFINE r == Append(s, now)
           n == Len(s)
<1>1. n \in Nat /\ Len(r) = n + 1 /\ r[n + 1] = now /\ \A i \in 1..n : r[i] = s[i] /\ s[i] \in 0..now
    BY AppendProperties
<1>2. \A i, j \in 1..n : i <= j => s[i] <= s[j]
    BY DEF Sorted
<1> HIDE DEF r, n
<1>3. ASSUME NEW i \in 1..(n + 1), NEW j \in 1..(n + 1), i <= j  PROVE  r[i] <= r[j]
  <2>1. CASE j = n + 1 /\ i = n + 1
      BY <1>1, <2>1
  <2>2. CASE j = n + 1 /\ i # n + 1
    <3>1. i \in 1..n
        BY <1>1, <2>2
    <3> QED BY <1>1, <2>2, <3>1
  <2>3. CASE j # n + 1
    <3>1. i \in 1..n /\ j \in 1..n
        BY <1>1, <1>3, <2>3
    <3> QED BY <1>1, <1>2, <1>3, <3>1
  <2> QED BY <2>1, <2>2, <2>3
<1>4. Sorted(r)
    BY <1>1, <1>3 DEF Sorted
<1> QED BY <1>4 DEF r

\* No hit is ahead of the clock.
LEMMA HitsArePast ==
    ASSUME TypeInv, NEW c
    PROVE  HitsOf(c) \in Seq(0..clock) /\ all \in Seq(0..clock) /\ clock \in Nat
<1>1. CASE c \in DOMAIN keys
  <2>1. keys[c] \in DOMAIN hits
      BY <1>1, TableWindows
  <2> QED BY <1>1, <2>1, LimiterAssumption DEF HitsOf, TypeInv, TypeOK
<1>2. CASE c \notin DOMAIN keys
    BY <1>2, LimiterAssumption DEF HitsOf, TypeInv, TypeOK
<1> QED BY <1>1, <1>2

LEMMA StepInOrder ==
    ASSUME TypeInv, alone, OneCallOnly, InOrder, [Next]_limiterVars
    PROVE  InOrder'
<1>1. Sorted(all')
  <2>1. CASE all' = all
      BY <2>1 DEF InOrder
  <2>2. ASSUME NEW t \in Threads, CheckOverall(t), all' = Trimmed(all, check[t].now)
        PROVE  Sorted(all')
    <3>1. check[t].now = clock /\ clock \in Nat
        BY <2>2, AloneStep DEF Checks
    <3>2. Sorted(Trimmed(all, clock))
        BY <3>1, AllStep, TrimInOrder DEF InOrder
    <3> QED BY <2>2, <3>1, <3>2
  <2>3. ASSUME NEW t \in Threads, Record(t), all' = Append(all, check[t].now)
        PROVE  Sorted(all')
    <3>1. check[t].now = clock /\ clock \in Nat /\ all \in Seq(0..clock)
        BY <2>3, AloneStep, HitsArePast DEF Checks
    <3>2. Sorted(Append(all, clock))
        BY <3>1, AppendInOrder DEF InOrder
    <3> QED BY <2>3, <3>1, <3>2
  <2> QED BY <2>1, <2>2, <2>3, AllStep
<1>2. ASSUME NEW c \in Callers  PROVE  Sorted(HitsOf(c)')
  <2>1. Sorted(HitsOf(c)) /\ Sorted(<<>>) /\ HitsOf(c) \in Seq(Nat)
      BY HitsOfType DEF InOrder, Sorted
  <2>2. CASE UNCHANGED limiterVars \/ Tick
      BY <2>1, <2>2, IdleStep
  <2>3. ASSUME NEW t \in Threads, Arrive(t) \/ Leave(t) \/ Checks(t)  PROVE  Sorted(HitsOf(c)')
    <3>1. CASE CheckOwn(t)
      <4>1. check[t].now = clock /\ clock \in Nat
          BY <2>3, <3>1, AloneStep DEF Checks
      <4>2. HitsOf(c)' \in {HitsOf(c), Trimmed(HitsOf(c), clock)}
          BY <2>3, <3>1, <4>1, HitsOfStep
      <4> DEFINE s == HitsOf(c)
      <4>3. s \in Seq(Nat) /\ Sorted(s)
          BY <2>1
      <4> HIDE DEF s
      <4>4. Sorted(Trimmed(s, clock))
          BY <4>1, <4>3, TrimInOrder
      <4> QED BY <2>1, <4>2, <4>4 DEF s
    <3>2. CASE RecordOwn(t)
      <4>1. check[t].now = clock /\ clock \in Nat /\ HitsOf(c) \in Seq(0..clock)
          BY <2>3, <3>2, AloneStep, HitsArePast DEF Checks
      <4>2. HitsOf(c)' \in {HitsOf(c), Append(HitsOf(c), clock)}
          BY <2>3, <3>2, <4>1, HitsOfStep
      <4> DEFINE s == HitsOf(c)
      <4>3. s \in Seq(0..clock) /\ Sorted(s)
          BY <2>1, <4>1
      <4> HIDE DEF s
      <4>4. Sorted(Append(s, clock))
          BY <4>1, <4>3, AppendInOrder
      <4> QED BY <2>1, <4>2, <4>4 DEF s
    <3>3. CASE ~CheckOwn(t) /\ ~RecordOwn(t)
      <4>1. HitsOf(c)' \in {HitsOf(c), <<>>}
          BY <2>3, <3>3, HitsOfStep
      <4> QED BY <2>1, <4>1
    <3> QED BY <3>1, <3>2, <3>3
  <2> QED BY <2>2, <2>3 DEF Next
<1> QED BY <1>1, <1>2 DEF InOrder

\* What a sweep does to its call, and that it does not fail alone.
LEMMA SweepStep ==
    ASSUME TypeInv, NEW t \in Threads, check[t].at = "sweep" => check[t].size = Cardinality(DOMAIN keys),
           check[t].stale \subseteq DOMAIN keys
    PROVE  /\ Sweep(t) => /\ check'[t].at \in {"sweep", "drop"}
                          /\ check'[t].at = "sweep" => check'[t].size = check[t].size
                          /\ check'[t].stale \subseteq DOMAIN keys
           /\ Drop(t) => /\ check'[t].at = "drop" /\ check'[t].stale \subseteq DOMAIN keys'
           /\ Size(t) /\ check'[t].at = "sweep" => check'[t].size = Cardinality(DOMAIN keys)
<1>1. check \in [Threads -> Check] /\ check[t] \in Check
    BY DEF TypeInv, TypeOK
<1>2. ASSUME Sweep(t)
      PROVE  /\ check'[t].at \in {"sweep", "drop"}
             /\ check'[t].at = "sweep" => check'[t].size = check[t].size
             /\ check'[t].stale \subseteq DOMAIN keys
  <2>1. check[t].at = "sweep" /\ Cardinality(DOMAIN keys) = check[t].size
      BY <1>2 DEF Sweep
  <2>2. CASE check' = [check EXCEPT ![t].at = "drop", ![t].seen = {}, ![t].size = 0]
      BY <1>1, <2>2 DEF Check
  <2>3. ASSUME NEW k \in DOMAIN keys,
               check' = [check EXCEPT ![t].seen = @ \cup {k},
                              ![t].stale = IF Stale(k, check[t].now) THEN @ \cup {k} ELSE @]
        PROVE  /\ check'[t].at = "sweep" /\ check'[t].size = check[t].size
               /\ check'[t].stale \subseteq DOMAIN keys
      BY <1>1, <2>1, <2>3 DEF Check
  <2> QED BY <1>2, <2>1, <2>2, <2>3 DEF Sweep
<1>3. ASSUME Drop(t)  PROVE  check'[t].at = "drop" /\ check'[t].stale \subseteq DOMAIN keys'
  <2>1. PICK k \in check[t].stale :
         /\ keys' = Restrict(keys, DOMAIN keys \ {k})
         /\ IF k \in DOMAIN keys THEN check' = [check EXCEPT ![t].stale = @ \ {k}]
            ELSE End(t, "failed", 0)
      BY <1>3 DEF Drop
  <2>2. k \in DOMAIN keys /\ DOMAIN keys' = DOMAIN keys \ {k}
      BY <2>1 DEF Restrict
  <2>3. check' = [check EXCEPT ![t].stale = @ \ {k}]
      BY <2>1, <2>2
  <2>4. check'[t].at = check[t].at /\ check'[t].stale = check[t].stale \ {k}
      BY <1>1, <2>3 DEF Check
  <2> QED BY <1>3, <2>2, <2>4, StartsAt
<1>4. ASSUME Size(t), check'[t].at = "sweep"  PROVE  check'[t].size = Cardinality(DOMAIN keys)
  <2>1. CASE Go(t, "room")
      BY <1>1, <1>4, <2>1 DEF Go, Check
  <2>2. CASE check' = [check EXCEPT ![t].at = "sweep", ![t].size = Cardinality(DOMAIN keys)]
      BY <1>1, <2>2 DEF Check
  <2> QED BY <1>4, <2>1, <2>2 DEF Size
<1> QED BY <1>2, <1>3, <1>4

\* The keys to drop are those of the sweep alone.
LEMMA StaleStep ==
    ASSUME TypeInv, NEW t \in Threads, Arrive(t) \/ Leave(t) \/ Checks(t), ~Sweep(t), ~Drop(t)
    PROVE  check'[t].stale \in {check[t].stale, {}}
<1>1. check \in [Threads -> Check] /\ check[t] \in Check
    BY DEF TypeInv, TypeOK
<1>2. ASSUME NEW step \in Steps, Go(t, step)  PROVE  check'[t].stale = check[t].stale
    BY <1>1, <1>2 DEF Go, Check
<1>3. ASSUME NEW outcome, NEW retry, End(t, outcome, retry)  PROVE  check'[t].stale = {}
    BY <1>1, <1>3 DEF End, Idle
<1>4. CASE Arrive(t)
    BY <1>4, ArriveStep
<1>5. CASE Leave(t)
    BY <1>1, <1>5 DEF Leave, Idle
<1>6. CASE CheckOverall(t)
    BY <1>2, <1>3, <1>6 DEF CheckOverall, Steps
<1>7. CASE Get(t)
    BY <1>1, <1>2, <1>7 DEF Get, Steps, Check
<1>8. CASE Size(t)
  <2>1. CASE Go(t, "room")
      BY <1>2, <2>1 DEF Steps
  <2>2. CASE check' = [check EXCEPT ![t].at = "sweep", ![t].size = Cardinality(DOMAIN keys)]
      BY <1>1, <2>2 DEF Check
  <2> QED BY <1>8, <2>1, <2>2 DEF Size
<1>9. CASE Room(t)
    BY <1>2, <1>9 DEF Room, Steps
<1>10. CASE Insert(t)
    BY <1>1, <1>10 DEF Insert, Check
<1>11. CASE CheckOwn(t)
    BY <1>2, <1>3, <1>11 DEF CheckOwn, Steps
<1>12. CASE RecordOwn(t)
    BY <1>2, <1>12 DEF RecordOwn, Steps
<1>13. CASE Record(t)
    BY <1>3, <1>13 DEF Record
<1> QED BY <1>4, <1>5, <1>6, <1>7, <1>8, <1>9, <1>10, <1>11, <1>12, <1>13 DEF Checks

LEMMA StepSeenRight ==
    ASSUME TypeInv, KeyInv, alone, OneCallOnly, SeenRight, [Next]_limiterVars
    PROVE  SeenRight'
<1>1. CASE UNCHANGED limiterVars \/ Tick
    BY <1>1, IdleStep DEF SeenRight, Holds
<1>2. ASSUME NEW t \in Threads, Arrive(t) \/ Leave(t) \/ Checks(t)  PROVE  SeenRight'
  <2>1. \A u \in Threads \ {t} : check'[u] = Idle
      BY <1>2, AloneStep
  <2>2. /\ check[t].at = "sweep" => check[t].size = Cardinality(DOMAIN keys)
        /\ check[t].stale \subseteq DOMAIN keys
      BY DEF SeenRight
  <2>3. ~Insert(t) /\ ~Drop(t) => keys' = keys
      BY <1>2, QuietStep, OwnStep, RecordOwnStep, RecordStep DEF Checks
  <2>4. check'[t].at # "failed"
      BY <1>2, <2>2, SweepStep, Moves DEF Checks
  <2>5. check'[t].at = "sweep" => check'[t].size = Cardinality(DOMAIN keys')
    <3>1. CASE Size(t) \/ Sweep(t)
      <4>1. keys' = keys
          BY <3>1, QuietStep
      <4>2. Sweep(t) => check[t].at = "sweep"
          BY StartsAt
      <4> QED BY <2>2, <3>1, <4>1, <4>2, SweepStep
    <3>2. CASE ~(Size(t) \/ Sweep(t))
      <4>1. check'[t].at # "sweep"
          BY <1>2, <3>2, Moves DEF Checks
      <4> QED BY <4>1
    <3> QED BY <3>1, <3>2
  <2>6. check'[t].stale \subseteq DOMAIN keys'
    <3>1. CASE Sweep(t)
        BY <2>2, <3>1, SweepStep, QuietStep
    <3>2. CASE Drop(t)
        BY <2>2, <3>2, SweepStep
    <3>3. CASE ~Sweep(t) /\ ~Drop(t)
      <4>1. DOMAIN keys \subseteq DOMAIN keys'
        <5>1. CASE Insert(t)
            BY <5>1, InsertStep
        <5> QED BY <2>3, <3>3, <5>1
      <4> QED BY <1>2, <2>2, <3>3, <4>1, StaleStep
    <3> QED BY <3>1, <3>2, <3>3
  <2>7. check'[t].at \in {"size", "sweep", "drop", "room", "insert"} => check'[t].who \notin DOMAIN keys'
    <3> SUFFICES ASSUME check'[t].at \in {"size", "sweep", "drop", "room", "insert"}
                 PROVE  check'[t].who \notin DOMAIN keys'
        OBVIOUS
    <3>1. Get(t) \/ Size(t) \/ Sweep(t) \/ Drop(t) \/ Room(t)
        BY <1>2, Moves DEF Checks
    <3>2. DOMAIN keys' \subseteq DOMAIN keys
        BY <3>1, QuietStep, DropStep
    <3>3. check'[t].who = check[t].who /\ check[t].key = check[t].who
        BY <3>1, ChecksStep DEF Checks, KeyInv
    <3>4. check[t].who \notin DOMAIN keys
      <4>1. CASE Get(t)
          BY <3>3, <4>1, LookStep
      <4>2. CASE ~Get(t)
        <5>1. check[t].at \in {"size", "sweep", "drop", "room", "insert"}
            BY <3>1, <4>2, StartsAt
        <5> QED BY <5>1 DEF SeenRight
      <4> QED BY <4>1, <4>2
    <3> QED BY <3>2, <3>3, <3>4
  <2>8. check'[t].at \in {"own", "recordOwn"} =>
            check'[t].who \in DOMAIN keys' /\ check'[t].window = keys'[check'[t].who]
    <3> SUFFICES ASSUME check'[t].at \in {"own", "recordOwn"}
                 PROVE  check'[t].who \in DOMAIN keys' /\ check'[t].window = keys'[check'[t].who]
        OBVIOUS
    <3>1. Get(t) \/ Insert(t) \/ CheckOwn(t)
        BY <1>2, Moves DEF Checks
    <3>2. check'[t].who = check[t].who /\ check[t].key = check[t].who
        BY <3>1, ChecksStep DEF Checks, KeyInv
    <3>3. CASE Get(t)
        BY <3>2, <3>3, LookStep, QuietStep
    <3>4. CASE Insert(t)
      <4>1. check[t].key \in DOMAIN keys' /\ check'[t].window = keys'[check[t].key]
          BY <3>4, InsertStep
      <4> QED BY <3>2, <4>1
    <3>5. CASE CheckOwn(t)
      <4>1. check'[t].window = check[t].window
          BY <3>5, LookStep
      <4>2. Holds(t, check[t].who)
          BY <3>5, StartsAt DEF SeenRight
      <4> QED BY <3>2, <3>5, <4>1, <4>2, OwnStep DEF Holds
    <3> QED BY <3>1, <3>3, <3>4, <3>5
  <2>9. Idle.at = "idle" /\ Idle.stale = {}
      BY DEF Idle
  <2>10. ASSUME NEW u \in Threads
         PROVE  /\ check'[u].at # "failed"
                /\ check'[u].at = "sweep" => check'[u].size = Cardinality(DOMAIN keys')
                /\ check'[u].stale \subseteq DOMAIN keys'
                /\ check'[u].at \in {"size", "sweep", "drop", "room", "insert"}
                      => check'[u].who \notin DOMAIN keys'
                /\ check'[u].at \in {"own", "recordOwn"} =>
                      check'[u].who \in DOMAIN keys' /\ check'[u].window = keys'[check'[u].who]
    <3>1. CASE u = t
        BY <2>4, <2>5, <2>6, <2>7, <2>8, <3>1
    <3>2. CASE u # t
        BY <2>1, <2>9, <3>2
    <3> QED BY <3>1, <3>2
  <2> QED BY <2>10 DEF SeenRight, Holds
<1> QED BY <1>1, <1>2 DEF Next

LEMMA StepOrder == TypeInv /\ KeyInv /\ OrderInv /\ [Next]_limiterVars => OrderInv'
BY AmpleStays, StepOneCallOnly, StepInOrder, StepSeenRight DEF OrderInv

\* No window is ever too long, and one that a call will add to is not full.
NoneTooLong ==
    /\ Len(all) <= Overall
    /\ \A t \in Passing : Len(all) < Overall
    /\ \A c \in Callers : Len(HitsOf(c)) <= PerKey
    /\ \A t \in Threads : check[t].at = "recordOwn" => Len(HitsOf(check[t].who)) < PerKey

\* When the first hit of a caller has left the window, the others are all that
\* was let through of it: what was not counted came before them.
NoneMissed ==
    \A c \in Callers : \A at \in Nat :
        at >= clock =>
            (HitsOf(c) # <<>> /\ HitsOf(c)[1] <= at - Window =>
                OwnAt(served, c, at) + Cardinality(Recording(c, at)) <= HitsAt(HitsOf(c), at))

FillInv == alone => NoneTooLong /\ NoneMissed

LEMMA InitFill == Init => FillInv
<1> SUFFICES ASSUME Init  PROVE  FillInv
    OBVIOUS
<1>1. all = <<>> /\ \A c : HitsOf(c) = <<>>
    BY DEF Init, HitsOf
<1>2. \A t \in Threads : check[t].at = "idle"
    BY DEF Init, Idle
<1>3. NoneMissed
    BY <1>1 DEF NoneMissed
<1>4. NoneTooLong
    BY <1>1, <1>2, Len(<<>>) = 0, LimiterAssumption DEF NoneTooLong, Passing
<1> QED BY <1>3, <1>4 DEF FillInv

LEMMA StepAllShort ==
    ASSUME TypeInv, alone, OneCallOnly, NoneTooLong, [Next]_limiterVars
    PROVE  Len(all') <= Overall /\ \A t \in Passing' : Len(all') < Overall
<1>1. Overall \in Nat \ {0} /\ Len(all) \in Nat /\ Len(all') \in Nat /\ all \in Seq(Nat)
    BY AllStep, LimiterAssumption
<1>2. CASE UNCHANGED limiterVars \/ Tick
  <2>1. all' = all /\ Passing' = Passing
      BY <1>2, IdleStep DEF Passing
  <2> QED BY <2>1 DEF NoneTooLong
<1>3. ASSUME NEW t \in Threads, Arrive(t) \/ Leave(t) \/ Checks(t)
      PROVE  Len(all') <= Overall /\ \A u \in Passing' : Len(all') < Overall
  <2>1. \A u \in Threads \ {t} : check'[u] = Idle
      BY <1>3, AloneStep
  <2>2. Passing' \subseteq {t}
      BY <2>1 DEF Passing, Idle
  <2>3. CASE CheckOverall(t)
    <3> DEFINE now == check[t].now
    <3>1. now \in Nat /\ all' = Trimmed(all, now)
        BY <2>3 DEF CheckOverall, TypeInv, TypeOK, Check
    <3> HIDE DEF now
    <3>2. Len(all') <= Len(all)
        BY <1>1, <3>1, HitsTrim
    <3>3. check'[t].at = "get" => Len(all') < Overall
        BY <2>3, Moves
    <3>4. check'[t].at = "refusedByAll" => t \notin Passing'
        BY DEF Passing
    <3>5. check'[t].at \in {"get", "refusedByAll"}
        BY <2>3, Moves
    <3> QED BY <1>1, <2>2, <3>2, <3>3, <3>4, <3>5 DEF NoneTooLong
  <2>4. CASE Record(t)
    <3>1. t \in Passing /\ t \notin Passing'
        BY <2>4, StartsAt, Moves DEF Passing
    <3>2. Len(all') = Len(all) + 1
        BY <1>1, <2>4, AppendProperties DEF Record, TypeInv, TypeOK, Check
    <3> QED BY <1>1, <2>2, <3>1, <3>2 DEF NoneTooLong
  <2>5. CASE ~CheckOverall(t) /\ ~Record(t)
    <3>1. all' = all
        BY <1>3, <2>5 DEF Arrive, Leave, Checks, Get, Size, Sweep, Drop, Room, Insert, CheckOwn, RecordOwn
    <3>2. t \in Passing' => t \in Passing
      <4>1. CASE Arrive(t) \/ Leave(t)
          BY <4>1, Moves DEF Passing
      <4>2. CASE Checks(t)
          BY <2>5, <4>2, StartsAt DEF Checks, Passing
      <4> QED BY <1>3, <4>1, <4>2
    <3> QED BY <2>2, <3>1, <3>2 DEF NoneTooLong
  <2> QED BY <2>3, <2>4, <2>5
<1> QED BY <1>2, <1>3 DEF Next

\* What a call does to the hits of its own caller, and what it decides by them.
LEMMA OwnOutcome ==
    ASSUME TypeInv, KeyInv, alone, OneCallOnly, InOrder, SeenRight, NEW t \in Threads, CheckOwn(t),
           NEW who, who = check[t].who
    PROVE  LET own == Trimmed(HitsOf(who), clock)
           IN /\ who \in Callers /\ check'[t].who = who /\ HitsOf(who)' = own
              /\ \A c \in Callers \ {who} : HitsOf(c)' = HitsOf(c)
              /\ own \in Seq(Nat) /\ Len(own) <= Len(HitsOf(who)) /\ HitsAt(own, clock) = Len(own)
              /\ own # <<>> => HitsOf(who) # <<>> /\ HitsOf(who)[1] <= own[1] /\ own[1] > clock - Window
              /\ \/ /\ Len(own) >= PerKey /\ check'[t].at = "refusedByOwn"
                    /\ check'[t].retry = RetryAfter(own, clock)
                 \/ Len(own) < PerKey /\ check'[t].at = "recordOwn"
<1> DEFINE s == HitsOf(who)
           own == Trimmed(s, clock)
<1>1. who \in Callers /\ check'[t].who = who
    BY ChecksStep DEF Checks, KeyInv
<1>2. Holds(t, who)
    BY StartsAt DEF SeenRight
<1>3. check[t].now = clock /\ clock \in Nat
    BY AloneStep DEF Checks
<1>4. HitsOf(who)' = own
    BY <1>2, <1>3, HitsOfStep DEF Checks
<1>5. \A c \in Callers \ {who} : HitsOf(c)' = HitsOf(c)
  <2> SUFFICES ASSUME NEW c \in Callers \ {who}  PROVE  HitsOf(c)' = HitsOf(c)
      OBVIOUS
  <2>1. ~Holds(t, c)
      BY DEF Holds, KeyInv
  <2> QED BY <2>1, HitsOfStep DEF Checks
<1>6. hits[check[t].window] = s
    BY <1>2 DEF Holds, HitsOf
<1>7. \/ /\ Full(own) /\ check'[t].at = "refusedByOwn"
         /\ check'[t].retry = RetryAfter(own, clock)
      \/ ~Full(own) /\ check'[t].at = "recordOwn"
    BY <1>3, <1>6, LookStep
<1>8. s \in Seq(Nat) /\ Sorted(s)
    BY <1>1, HitsOfType DEF InOrder
<1>9. /\ own \in Seq(Nat) /\ HitsAt(own, clock) = Len(own) /\ Len(own) <= Len(s)
      /\ own # <<>> => s # <<>> /\ s[1] <= own[1] /\ own[1] > clock - Window
  <2> HIDE DEF s
  <2> QED BY <1>3, <1>8, TrimInOrder
<1>10. Len(own) \in Nat /\ PerKey \in Nat
    BY <1>9, LimiterAssumption
<1> HIDE DEF own
<1>11. Full(own) <=> ~(Len(own) < PerKey)
    BY <1>10 DEF Full
<1> QED BY <1>1, <1>4, <1>5, <1>7, <1>9, <1>10, <1>11 DEF own, Full

LEMMA StepOwnShort ==
    ASSUME TypeInv, KeyInv, alone, OneCallOnly, InOrder, SeenRight, NoneTooLong, [Next]_limiterVars
    PROVE  /\ \A c \in Callers : Len(HitsOf(c)') <= PerKey
           /\ \A t \in Threads : check'[t].at = "recordOwn" => Len(HitsOf(check[t].who)') < PerKey
<1>1. PerKey \in Nat /\ \A c : HitsOf(c) \in Seq(Nat) /\ Len(HitsOf(c)) \in Nat
    BY HitsOfType, LimiterAssumption
<1>2. \A c \in Callers : Len(HitsOf(c)) <= PerKey
    BY DEF NoneTooLong
<1>3. CASE UNCHANGED limiterVars \/ Tick
  <2>1. check' = check /\ \A c : HitsOf(c)' = HitsOf(c)
      BY <1>3, IdleStep
  <2> QED BY <2>1 DEF NoneTooLong
<1>4. ASSUME NEW t \in Threads, Arrive(t) \/ Leave(t) \/ Checks(t)
      PROVE  /\ \A c \in Callers : Len(HitsOf(c)') <= PerKey
             /\ \A u \in Threads : check'[u].at = "recordOwn" => Len(HitsOf(check[u].who)') < PerKey
  <2>1. \A u \in Threads \ {t} : check'[u].at # "recordOwn"
      BY <1>4, AloneStep DEF Idle
  <2>2. CASE CheckOwn(t)
    <3>1. PICK who : who = check[t].who
        OBVIOUS
    <3> DEFINE own == Trimmed(HitsOf(who), clock)
    <3>2. /\ who \in Callers /\ HitsOf(who)' = own /\ check'[t].who = who
          /\ \A c \in Callers \ {who} : HitsOf(c)' = HitsOf(c)
          /\ own \in Seq(Nat) /\ Len(own) <= Len(HitsOf(who))
          /\ check'[t].at = "refusedByOwn" \/ Len(own) < PerKey
        BY <2>2, <3>1, OwnOutcome
    <3> HIDE DEF own
    <3>3. Len(own) \in Nat
        BY <3>2
    <3>4. Len(own) <= PerKey
        BY <1>1, <1>2, <3>2, <3>3
    <3>5. \A c \in Callers : Len(HitsOf(c)') <= PerKey
        BY <1>2, <3>2, <3>4
    <3>6. HitsOf(check[t].who)' = own
        BY <3>2 DEF HitsOf
    <3> QED BY <2>1, <3>2, <3>5, <3>6
  <2>3. CASE RecordOwn(t)
    <3>1. Len(HitsOf(check[t].who)) < PerKey /\ check'[t].at = "record"
        BY <2>3, StartsAt, Moves DEF NoneTooLong
    <3>2. ASSUME NEW c \in Callers  PROVE  Len(HitsOf(c)') <= PerKey
      <4>1. Holds(t, c) => c = check[t].who
          BY DEF Holds, KeyInv
      <4>2. HitsOf(c)' = IF Holds(t, c) THEN Append(HitsOf(c), check[t].now) ELSE HitsOf(c)
          BY <1>4, <2>3, HitsOfStep
      <4>3. Len(Append(HitsOf(c), check[t].now)) = Len(HitsOf(c)) + 1
        <5>1. check[t].now \in Nat
            BY DEF TypeInv, TypeOK, Check
        <5> QED BY <1>1, <5>1, AppendProperties
      <4> QED BY <1>1, <1>2, <3>1, <4>1, <4>2, <4>3
    <3> QED BY <2>1, <3>1, <3>2
  <2>4. CASE ~CheckOwn(t) /\ ~RecordOwn(t)
    <3>1. \A c \in Callers : HitsOf(c)' \in {HitsOf(c), <<>>}
        BY <1>4, <2>4, HitsOfStep
    <3>2. check'[t].at # "recordOwn"
        BY <1>4, <2>4, Moves DEF Checks
    <3>3. Len(<<>>) = 0
        OBVIOUS
    <3> QED BY <1>1, <1>2, <2>1, <3>1, <3>2, <3>3
  <2> QED BY <2>2, <2>3, <2>4
<1> QED BY <1>3, <1>4 DEF Next

LEMMA StepNoneTooLong ==
    ASSUME TypeInv, KeyInv, alone, OneCallOnly, InOrder, SeenRight, NoneTooLong, [Next]_limiterVars
    PROVE  NoneTooLong'
BY StepAllShort, StepOwnShort DEF NoneTooLong

\* What was let through before now is in no window that begins after now.
LEMMA PastCounts ==
    ASSUME TypeInv, WorkInv, NEW c, NEW at \in Nat, clock <= at - Window
    PROVE  OwnAt(served, c, at) = 0 /\ Cardinality(Recording(c, at)) = 0
<1>1. clock \in Nat /\ Window \in Nat /\ all \in Seq(0..clock)
    BY HitsArePast, LimiterAssumption
<1>2. ASSUME NEW i \in 1..Len(served)  PROVE  ~(served[i].at > at - Window)
  <2>1. Len(all) - Len(served) + i \in 1..Len(all)
      BY <1>1 DEF WorkInv, IsEnd, TypeInv
  <2> DEFINE j == Len(all) - Len(served) + i
  <2>2. served[i].at = all[j] /\ j \in 1..Len(all)
      BY <2>1 DEF WorkInv, IsEnd
  <2> HIDE DEF j
  <2>3. all[j] \in 0..clock
      BY <1>1, <2>2
  <2> QED BY <1>1, <2>2, <2>3
<1>3. OwnAt(served, c, at) = 0
  <2>1. {i \in 1..Len(served) : served[i].who = c /\ served[i].at > at - Window} = {}
      BY <1>2
  <2> QED BY <2>1, FS_EmptySet DEF OwnAt
<1>4. Recording(c, at) = {}
  <2>1. \A u \in Threads : check[u].now <= clock /\ check[u].now \in Nat
      BY DEF TypeInv, TypeOK, CallOK, Check
  <2> QED BY <1>1, <2>1 DEF Recording
<1> QED BY <1>3, <1>4, FS_EmptySet

LEMMA StepNoneMissed ==
    ASSUME TypeInv, KeyInv, WorkInv, alone, OneCallOnly, InOrder, SeenRight, NoneMissed,
           [Next]_limiterVars
    PROVE  NoneMissed'
<1> SUFFICES ASSUME NEW c \in Callers, NEW at \in Nat, at >= clock',
                    HitsOf(c)' # <<>>, HitsOf(c)'[1] <= at - Window
             PROVE  OwnAt(served', c, at) + Cardinality(Recording(c, at)') <= HitsAt(HitsOf(c)', at)
    BY DEF NoneMissed
<1>1. clock \in Nat /\ at >= clock
    BY ServedStep
<1>2. HitsOf(c) # <<>> /\ HitsOf(c)[1] <= at - Window =>
          OwnAt(served, c, at) + Cardinality(Recording(c, at)) <= HitsAt(HitsOf(c), at)
    BY <1>1 DEF NoneMissed
<1>3. /\ HitsOf(c) \in Seq(Nat) /\ HitsAt(HitsOf(c), at) \in Nat /\ OwnAt(served, c, at) \in Nat
    BY HitsOfType, HitsType, ServedType DEF TypeInv
<1>4. CASE UNCHANGED limiterVars \/ Tick
  <2>1. OwnAt(served', c, at) = OwnAt(served, c, at)
      BY <1>4, ServedStep
  <2>2. HitsOf(c)' = HitsOf(c) /\ Recording(c, at)' = Recording(c, at)
      BY <1>4, IdleStep
  <2> QED BY <1>2, <2>1, <2>2
<1>5. ASSUME NEW t \in Threads, Arrive(t) \/ Leave(t) \/ Checks(t)
      PROVE  OwnAt(served', c, at) + Cardinality(Recording(c, at)') <= HitsAt(HitsOf(c)', at)
  <2>1. /\ Cardinality(Recording(c, at)) \in Nat /\ Cardinality(Recording(c, at)') \in Nat
        /\ Checks(t) => check[t].now = clock
      BY <1>5, AloneStep, RecordingStep
  <2>2. ~Record(t) => served' = served
      BY <1>5 DEF Arrive, Leave, Checks, CheckOverall, Get, Size, Sweep, Drop, Room, Insert, CheckOwn,
                  RecordOwn
  <2>3. CASE CheckOwn(t)
    <3>1. Recording(c, at)' = Recording(c, at) /\ served' = served
      <4>1. ~Record(t) /\ check'[t].at # "record"
          BY <2>3, StartsAt, Moves
      <4> QED BY <1>5, <2>2, <4>1, RecordingStep
    <3>2. CASE c # check[t].who
      <4>1. HitsOf(c)' = HitsOf(c)
          BY <2>3, <3>2, OwnOutcome
      <4> QED BY <1>2, <3>1, <4>1
    <3>3. CASE c = check[t].who
      <4> DEFINE s == HitsOf(c)
                 own == Trimmed(s, clock)
      <4>1. /\ HitsOf(c)' = own /\ own \in Seq(Nat)
            /\ own # <<>> => s # <<>> /\ s[1] <= own[1]
          BY <2>3, <3>3, OwnOutcome
      <4> HIDE DEF own
      <4>2. own # <<>> /\ own[1] <= at - Window
          BY <4>1
      <4> HIDE DEF s
      <4>3. s \in Seq(Nat) /\ s # <<>> /\ s[1] <= own[1]
          BY <1>3, <4>1, <4>2 DEF s
      <4>4. s[1] \in Nat /\ own[1] \in Nat /\ Window \in Nat
        <5>1. Len(s) \in Nat /\ Len(s) # 0 /\ Len(own) \in Nat /\ Len(own) # 0
            BY <4>1, <4>2, <4>3, EmptySeq
        <5>2. 1 \in 1..Len(s) /\ 1 \in 1..Len(own)
            BY <5>1
        <5> QED BY <4>1, <4>3, <5>2, LimiterAssumption
      <4>5. s[1] <= at - Window
          BY <4>2, <4>3, <4>4
      <4>6. HitsAt(own, at) = HitsAt(s, at)
          BY <1>1, <4>3, HitsTrim DEF own
      <4> QED BY <1>2, <3>1, <4>1, <4>3, <4>5, <4>6 DEF s
    <3> QED BY <3>2, <3>3
  <2>4. CASE RecordOwn(t)
    <3>1. ~Record(t) /\ check'[t].at = "record" /\ check[t].now = clock
        BY <2>1, <2>4, StartsAt, Moves DEF Checks
    <3>2. Cardinality(Recording(c, at)') = Cardinality(Recording(c, at))
              + (IF check[t].who = c /\ clock > at - Window THEN 1 ELSE 0)
        BY <1>5, <3>1, RecordingStep
    <3>3. HitsOf(c)' = IF c = check[t].who THEN Append(HitsOf(c), clock) ELSE HitsOf(c)
      <4>1. Holds(t, check[t].who)
          BY <2>4, StartsAt DEF SeenRight
      <4>2. Holds(t, c) => c = check[t].who
          BY DEF Holds, KeyInv
      <4> QED BY <1>5, <2>4, <3>1, <4>1, <4>2, HitsOfStep
    <3>4. CASE c # check[t].who
        BY <1>2, <2>1, <2>2, <3>1, <3>2, <3>3, <3>4
    <3>5. CASE c = check[t].who
      <4> DEFINE s == HitsOf(c)
                 r == Append(s, clock)
      <4>1. HitsOf(c)' = r /\ s \in Seq(Nat)
          BY <1>3, <3>3, <3>5
      <4> HIDE DEF s
      <4>2. /\ clock > at - Window => HitsAt(r, at) = HitsAt(s, at) + 1
            /\ ~(clock > at - Window) => HitsAt(r, at) = HitsAt(s, at)
          BY <1>1, <4>1, HitsAppend
      <4>3. HitsAt(s, at) \in Nat
          BY <1>3 DEF s
      <4>4. CASE s = <<>>
        <5>1. r[1] = clock
            BY <1>1, <4>4
        <5>2. clock <= at - Window
            BY <4>1, <5>1
        <5>3. OwnAt(served, c, at) = 0 /\ Cardinality(Recording(c, at)) = 0
            BY <5>2, PastCounts
        <5>4. ~(clock > at - Window)
            BY <1>1, <5>2, LimiterAssumption
        <5> HIDE DEF r
        <5> QED BY <2>2, <3>1, <3>2, <4>1, <4>2, <4>3, <5>3, <5>4
      <4>5. CASE s # <<>>
        <5>1. Len(s) \in Nat /\ Len(s) # 0
            BY <4>1, <4>5, EmptySeq
        <5>2. r[1] = s[1]
          <6>1. 1 \in 1..Len(s)
              BY <5>1
          <6> QED BY <1>1, <4>1, <6>1, AppendProperties
        <5>3. OwnAt(served, c, at) + Cardinality(Recording(c, at)) <= HitsAt(s, at)
            BY <1>2, <4>1, <4>5, <5>2 DEF s
        <5> HIDE DEF r
        <5> QED BY <1>3, <2>1, <2>2, <3>1, <3>2, <3>5, <4>1, <4>2, <4>3, <5>3
      <4> QED BY <4>4, <4>5
    <3> QED BY <3>4, <3>5
  <2>5. CASE Record(t)
    <3>1. HitsOf(c)' = HitsOf(c)
      <4>1. ~Drop(t) /\ ~CheckOwn(t) /\ ~RecordOwn(t)
          BY <2>5, StartsAt
      <4> QED BY <1>5, <4>1, HitsOfStep
    <3>2. Cardinality(Recording(c, at)') = Cardinality(Recording(c, at))
              - (IF check[t].who = c /\ check[t].now > at - Window THEN 1 ELSE 0)
        BY <1>5, <2>5, RecordingStep
    <3>3. OwnAt(served', c, at) = OwnAt(served, c, at)
              + (IF check[t].who = c /\ check[t].now > at - Window THEN 1 ELSE 0)
        BY <2>5, ServedStep
    <3> QED BY <1>2, <1>3, <2>1, <3>1, <3>2, <3>3
  <2>6. CASE ~CheckOwn(t) /\ ~RecordOwn(t) /\ ~Record(t)
    <3>1. HitsOf(c)' = HitsOf(c)
        BY <1>5, <2>6, HitsOfStep
    <3>2. Cardinality(Recording(c, at)') = Cardinality(Recording(c, at))
      <4>1. CASE check'[t].at # "record"
          BY <1>5, <2>6, <4>1, RecordingStep
      <4>2. CASE check'[t].at = "record"
        <5>1. Room(t)
            BY <1>5, <2>6, <4>2, Moves DEF Checks
        <5>2. check[t].who \notin DOMAIN keys
            BY <5>1, StartsAt DEF SeenRight
        <5>3. check[t].who # c
            BY <3>1, <5>2 DEF HitsOf
        <5> QED BY <1>5, <2>1, <4>2, <5>3, RecordingStep
      <4> QED BY <4>1, <4>2
    <3> QED BY <1>2, <2>2, <2>6, <3>1, <3>2
  <2> QED BY <2>3, <2>4, <2>5, <2>6
<1> QED BY <1>4, <1>5 DEF Next

LEMMA StepFill ==
    TypeInv /\ KeyInv /\ WorkInv /\ OrderInv /\ FillInv /\ [Next]_limiterVars => FillInv'
BY AmpleStays, StepNoneTooLong, StepNoneMissed DEF OrderInv, FillInv

-----------------------------------------------------------------------------
(* What they decide *)

\* A whole number of seconds later the first hit has left the window.
LEMMA RetryWaits ==
    ASSUME NEW s \in Seq(Nat), s # <<>>, NEW now \in Nat, s[1] > now - Window
    PROVE  LET retry == RetryAfter(s, now) IN
           retry \in Nat /\ retry >= now /\ s[1] <= retry - Window
<1> DEFINE first == s[1]
<1>1. first \in Nat
  <2>1. Len(s) \in Nat /\ Len(s) # 0
      BY EmptySeq
  <2> QED BY <2>1
<1> DEFINE d == Window - (now - first)
           q == d \div TicksPerSecond
<1> HIDE DEF first
<1>2. d \in Nat /\ TicksPerSecond \in Nat \ {0}
    BY <1>1, LimiterAssumption DEF first
<1>3. RetryAfter(s, now) = now + TicksPerSecond * (IF q + 1 < 1 THEN 1 ELSE q + 1)
    BY DEF RetryAfter, first
<1>4. d + now - first = Window
    BY <1>1, LimiterAssumption
<1> HIDE DEF d
<1> DEFINE T == TicksPerSecond
<1>5. T \in Nat \ {0} /\ q = d \div T
    BY <1>2
<1> HIDE DEF q, T
<1>6. q \in Nat
    BY <1>2, <1>5
<1>7. T * (q + 1) > d /\ T * (q + 1) \in Nat
    BY <1>2, <1>5, <1>6
<1>8. RetryAfter(s, now) = now + T * (q + 1)
  <2>1. ~(q + 1 < 1)
      BY <1>6
  <2> QED BY <1>3, <2>1 DEF T
<1> DEFINE p == T * (q + 1)
<1>9. RetryAfter(s, now) = now + p /\ p \in Nat /\ p > d
    BY <1>7, <1>8
<1> HIDE DEF p
<1>10. RetryAfter(s, now) \in Nat /\ RetryAfter(s, now) >= now /\ RetryAfter(s, now) > now + d
    BY <1>2, <1>9
<1> QED BY <1>1, <1>2, <1>4, <1>10, LimiterAssumption DEF first

\* A hit less is in the window when the first one has left it.
LEMMA FirstHasLeft ==
    ASSUME NEW s \in Seq(Nat), s # <<>>, NEW at \in Nat, s[1] <= at - Window
    PROVE  HitsAt(s, at) < Len(s)
<1> DEFINE n == Len(s)
           S == {i \in 1..n : s[i] > at - Window}
<1>1. n \in Nat /\ n # 0 /\ s[1] \in Nat
  <2>1. n \in Nat /\ n # 0
      BY EmptySeq
  <2> QED BY <2>1
<1>2. ~(s[1] > at - Window)
    BY <1>1, LimiterAssumption
<1>3. HitsAt(s, at) = Cardinality(S)
    BY DEF HitsAt
<1> HIDE DEF n
<1>4. S \subseteq 2..n
    BY <1>1, <1>2
<1> HIDE DEF S
<1>5. IsFiniteSet(2..n) /\ Cardinality(2..n) = n - 1
  <2>1. n \in Int /\ 2 \in Int
      BY <1>1
  <2>2. IsFiniteSet(2..n) /\ Cardinality(2..n) = IF 2 > n THEN 0 ELSE n - 2 + 1
      BY <2>1, FS_Interval
  <2> QED BY <1>1, <2>2
<1>6. Cardinality(S) <= n - 1 /\ Cardinality(S) \in Nat
    BY <1>4, <1>5, FS_Subset, FS_CardinalityType
<1> QED BY <1>1, <1>3, <1>6 DEF n

\* A call is refused if its window is full, and not when it comes back as told to;
\* otherwise there was a place in it, and the call has taken it.
OutcomeInv ==
    alone => \A t \in Threads :
        LET who == check[t].who IN
        /\ check[t].at = "refusedByAll" =>
              AllAt(served, clock) >= Overall /\ AllAt(served, check[t].retry) < Overall
        /\ check[t].at = "refusedByOwn" =>
              OwnAt(served, who, clock) >= PerKey /\ OwnAt(served, who, check[t].retry) < PerKey
        /\ check[t].at \in {"recordOwn", "record"} /\ Ample => OwnAt(served, who, clock) < PerKey
        /\ check[t].at = "admitted" => /\ AllAt(served, clock) <= Overall
                                       /\ Ample => OwnAt(served, who, clock) <= PerKey

LEMMA InitOutcome == Init => OutcomeInv
BY DEF Init, OutcomeInv, Idle

\* The ceiling refuses a call only if its window is full, and until then.
LEMMA AllDecides ==
    ASSUME TypeInv, alone, OneCallOnly, InOrder, NoneTooLong, AllCounted', NEW t \in Threads,
           CheckOverall(t), check'[t].at = "refusedByAll", [Next]_limiterVars
    PROVE  AllAt(served, clock)' >= Overall /\ AllAt(served', check'[t].retry) < Overall
<1>1. check[t].now = clock /\ clock' = clock /\ clock \in Nat
    BY AloneStep DEF Checks
<1>2. all' = Trimmed(all, clock)
    BY <1>1 DEF CheckOverall
<1>3. all \in Seq(Nat) /\ Sorted(all) /\ all' \in Seq(Nat)
    BY AllStep DEF InOrder
<1>4. /\ HitsAt(all', clock) = Len(all') /\ Len(all') <= Len(all)
      /\ all' # <<>> => all'[1] > clock - Window
    BY <1>1, <1>2, <1>3, TrimInOrder
<1>5. Len(all') >= Overall /\ check'[t].retry = RetryAfter(all', clock)
  <2>1. CASE Go(t, "get")
      BY <2>1 DEF Go, TypeInv, TypeOK, Check
  <2>2. CASE Len(all') >= Overall /\ End(t, "refusedByAll", RetryAfter(all', clock))
      BY <2>2 DEF End, Idle, TypeInv, TypeOK
  <2> QED BY <1>1, <2>1, <2>2 DEF CheckOverall
<1> DEFINE s == all'
           retry == RetryAfter(s, clock)
<1>6. s # <<>> /\ Len(s) \in Nat /\ Overall \in Nat \ {0} /\ Len(all) \in Nat
    BY <1>3, <1>5, LimiterAssumption
<1>7. s \in Seq(Nat) /\ s[1] > clock - Window
    BY <1>3, <1>4, <1>6
<1> HIDE DEF s
<1>8. retry \in Nat /\ retry >= clock /\ s[1] <= retry - Window
    BY <1>1, <1>6, <1>7, RetryWaits
<1> HIDE DEF retry
<1>9. HitsAt(s, retry) < Len(s)
    BY <1>6, <1>7, <1>8, FirstHasLeft
<1>10. \A at \in Nat : at >= clock => HitsAt(s, at) = AllAt(served', at)
    BY <1>1 DEF AllCounted, s
<1>11. AllAt(served', clock) = Len(s) /\ AllAt(served', retry) = HitsAt(s, retry)
    BY <1>1, <1>4, <1>8, <1>10 DEF s
<1>12. HitsAt(s, retry) \in Nat
    BY <1>7, <1>8, HitsType
<1>13. Len(s) <= Overall
    BY <1>4, <1>6 DEF NoneTooLong, s
<1>14. Len(s) >= Overall /\ check'[t].retry = retry
    BY <1>5 DEF s, retry
<1>15. AllAt(served, clock)' = AllAt(served', clock)
    BY <1>1
<1> QED BY <1>6, <1>9, <1>11, <1>12, <1>13, <1>14, <1>15

\* So does a caller's own limit.
LEMMA OwnDecides ==
    ASSUME TypeInv, KeyInv, alone, OneCallOnly, InOrder, SeenRight, NoneTooLong,
           OwnCounted', NoneMissed', Ample => NoneForgotten', NEW t \in Threads, CheckOwn(t),
           [Next]_limiterVars, NEW who, who = check[t].who
    PROVE  /\ check'[t].at = "refusedByOwn" => /\ OwnAt(served', who, clock) >= PerKey
                                               /\ OwnAt(served', who, check'[t].retry) < PerKey
           /\ check'[t].at = "recordOwn" /\ Ample => OwnAt(served', who, clock) < PerKey
<1>1. clock' = clock /\ clock \in Nat /\ \A u \in Threads \ {t} : check'[u] = Idle
    BY AloneStep DEF Checks
<1> DEFINE s == HitsOf(who)
           own == Trimmed(s, clock)
           retry == RetryAfter(own, clock)
<1>2. /\ who \in Callers /\ HitsOf(who)' = own
      /\ own \in Seq(Nat) /\ Len(own) <= Len(s) /\ HitsAt(own, clock) = Len(own)
      /\ own # <<>> => own[1] > clock - Window
      /\ \/ Len(own) >= PerKey /\ check'[t].at = "refusedByOwn" /\ check'[t].retry = retry
         \/ Len(own) < PerKey /\ check'[t].at = "recordOwn"
    BY OwnOutcome
<1>3. Len(s) <= PerKey /\ Len(s) \in Nat /\ Len(own) \in Nat /\ PerKey \in Nat \ {0}
    BY <1>2, HitsOfType, LimiterAssumption DEF NoneTooLong
<1>4. \A at : Recording(who, at)' = {}
  <2>1. check'[t].at # "record"
      BY <1>2
  <2> QED BY <1>1, <2>1 DEF Recording, Idle
<1>5. served' \in Seq(Served)
    BY StepTypes DEF TypeInv
<1>6. \A at \in Nat : OwnAt(served', who, at) \in Nat
    BY <1>5, ServedType
<1>7. Cardinality({}) = 0
    BY FS_EmptySet
<1>8. ASSUME NEW at \in Nat, at >= clock
      PROVE  /\ HitsAt(own, at) <= OwnAt(served', who, at)
             /\ own # <<>> /\ own[1] <= at - Window => OwnAt(served', who, at) <= HitsAt(own, at)
             /\ Ample => OwnAt(served', who, at) <= HitsAt(own, at)
  <2>1. Cardinality(Recording(who, at)') = 0 /\ HitsOf(who)' = own /\ clock' = clock
      BY <1>1, <1>2, <1>4, <1>7
  <2> HIDE DEF own
  <2>2. OwnAt(served', who, at) \in Nat /\ OwnAt(served', who, at) + 0 = OwnAt(served', who, at)
      BY <1>6
  <2>3. HitsAt(own, at) <= OwnAt(served', who, at) + 0
      BY <1>2, <1>8, <2>1 DEF OwnCounted
  <2>4. own # <<>> /\ own[1] <= at - Window => OwnAt(served', who, at) + 0 <= HitsAt(own, at)
      BY <1>2, <1>8, <2>1 DEF NoneMissed
  <2>5. Ample => OwnAt(served', who, at) + 0 <= HitsAt(own, at)
      BY <1>2, <1>8, <2>1 DEF NoneForgotten
  <2> QED BY <2>2, <2>3, <2>4, <2>5
<1> HIDE DEF own
<1>9. ASSUME check'[t].at = "refusedByOwn"
      PROVE  OwnAt(served', who, clock) >= PerKey /\ OwnAt(served', who, check'[t].retry) < PerKey
  <2>1. Len(own) >= PerKey /\ check'[t].retry = retry
      BY <1>2, <1>9
  <2>2. own # <<>>
      BY <1>3, <2>1
  <2>3. retry \in Nat /\ retry >= clock /\ own[1] <= retry - Window
      BY <1>1, <1>2, <2>2, RetryWaits
  <2> HIDE DEF retry
  <2>4. HitsAt(own, retry) < Len(own)
      BY <1>2, <2>2, <2>3, FirstHasLeft
  <2>5. OwnAt(served', who, clock) >= Len(own)
      BY <1>1, <1>2, <1>3, <1>6, <1>8
  <2>6. OwnAt(served', who, retry) <= HitsAt(own, retry) /\ OwnAt(served', who, retry) \in Nat
        /\ HitsAt(own, retry) \in Nat
      BY <1>2, <1>6, <1>8, <2>2, <2>3, HitsType
  <2>7. OwnAt(served', who, clock) \in Nat
      BY <1>1, <1>6
  <2> QED BY <1>2, <1>3, <2>1, <2>4, <2>5, <2>6, <2>7
<1>10. ASSUME check'[t].at = "recordOwn", Ample  PROVE  OwnAt(served', who, clock) < PerKey
  <2>1. OwnAt(served', who, clock) <= Len(own) /\ OwnAt(served', who, clock) \in Nat
      BY <1>1, <1>2, <1>6, <1>8, <1>10
  <2> QED BY <1>2, <1>3, <1>10, <2>1
<1> QED BY <1>9, <1>10

LEMMA StepOutcome ==
    /\ TypeInv /\ KeyInv /\ AmpleInv /\ CountInv /\ WorkInv /\ OrderInv /\ FillInv /\ OutcomeInv
    /\ [Next]_limiterVars
    => OutcomeInv'
<1> SUFFICES ASSUME TypeInv, KeyInv, AmpleInv, CountInv, WorkInv, OrderInv, FillInv, OutcomeInv,
                    [Next]_limiterVars, alone
             PROVE  OutcomeInv'
    BY AmpleStays DEF OutcomeInv
<1>1. /\ OneCallOnly /\ InOrder /\ SeenRight /\ NoneTooLong /\ NoneMissed
      /\ Ample => NoneDropped
    BY DEF OrderInv, FillInv, AmpleInv
<1>2. /\ AllCounted' /\ OwnCounted' /\ NoneTooLong' /\ NoneMissed'
      /\ Ample => NoneForgotten'
    BY AmpleStays, StepCount, StepFill, StepAmple DEF CountInv, FillInv, AmpleInv, Ample
<1>3. Ample' <=> Ample
    BY AmpleStays DEF Ample
<1>4. CASE UNCHANGED limiterVars
    BY <1>4 DEF limiterVars, OutcomeInv, Ample
<1>5. CASE Tick
  <2>1. \A t \in Threads : check'[t] = Idle
      BY <1>5, <1>1 DEF Tick
  <2> QED BY <2>1 DEF OutcomeInv, Idle
<1>6. ASSUME NEW t \in Threads, Arrive(t) \/ Leave(t) \/ Checks(t)  PROVE  OutcomeInv'
  <2>1. clock' = clock /\ clock \in Nat /\ \A u \in Threads \ {t} : check'[u] = Idle
      BY <1>1, <1>6, AloneStep
  <2>2. ~Record(t) => served' = served
      BY <1>6 DEF Arrive, Leave, Checks, CheckOverall, Get, Size, Sweep, Drop, Room, Insert, CheckOwn,
                  RecordOwn
  <2>3. PICK who : who = check[t].who
      OBVIOUS
  <2>4. Checks(t) => check'[t].who = who
      BY <2>3, ChecksStep
  <2>5. check'[t].at = "refusedByAll" =>
            AllAt(served', clock') >= Overall /\ AllAt(served', check'[t].retry) < Overall
    <3> SUFFICES ASSUME check'[t].at = "refusedByAll"
                 PROVE  AllAt(served', clock') >= Overall /\ AllAt(served', check'[t].retry) < Overall
        OBVIOUS
    <3>1. CheckOverall(t)
        BY <1>6, Moves DEF Checks
    <3> QED BY <1>1, <1>2, <3>1, AllDecides
  <2>6. check'[t].at = "refusedByOwn" =>
            /\ OwnAt(served', check'[t].who, clock') >= PerKey
            /\ OwnAt(served', check'[t].who, check'[t].retry) < PerKey
    <3> SUFFICES ASSUME check'[t].at = "refusedByOwn"
                 PROVE  /\ OwnAt(served', check'[t].who, clock') >= PerKey
                        /\ OwnAt(served', check'[t].who, check'[t].retry) < PerKey
        OBVIOUS
    <3>1. CheckOwn(t)
        BY <1>6, Moves DEF Checks
    <3>2. OwnAt(served', who, clock) >= PerKey /\ OwnAt(served', who, check'[t].retry) < PerKey
        BY <1>1, <1>2, <2>3, <3>1, OwnDecides
    <3>3. check'[t].who = who /\ clock' = clock
        BY <2>1, <2>4, <3>1 DEF Checks
    <3> QED BY <3>2, <3>3
  <2>7. check'[t].at \in {"recordOwn", "record"} /\ Ample => OwnAt(served', check'[t].who, clock') < PerKey
    <3> SUFFICES ASSUME check'[t].at \in {"recordOwn", "record"}, Ample
                 PROVE  OwnAt(served', check'[t].who, clock') < PerKey
        OBVIOUS
    <3>1. ~Room(t)
        BY <1>1, AmpleTable
    <3>2. CheckOwn(t) \/ RecordOwn(t)
        BY <1>6, <3>1, Moves DEF Checks
    <3>3. check'[t].who = who /\ clock' = clock
        BY <2>1, <2>4, <3>2 DEF Checks
    <3>4. CASE CheckOwn(t)
      <4>1. check'[t].at = "recordOwn"
          BY <3>4, Moves
      <4>2. OwnAt(served', who, clock) < PerKey
          BY <1>1, <1>2, <2>3, <3>4, <4>1, OwnDecides
      <4> QED BY <3>3, <4>2
    <3>5. CASE RecordOwn(t)
      <4>1. check[t].at = "recordOwn" /\ ~Record(t)
          BY <3>5, StartsAt
      <4>2. OwnAt(served, who, clock) < PerKey
          BY <2>3, <4>1 DEF OutcomeInv
      <4> QED BY <2>2, <3>3, <4>1, <4>2
    <3> QED BY <3>2, <3>4, <3>5
  <2>8. check'[t].at = "admitted" => /\ AllAt(served', clock') <= Overall
                                     /\ Ample => OwnAt(served', check'[t].who, clock') <= PerKey
    <3> SUFFICES ASSUME check'[t].at = "admitted"
                 PROVE  /\ AllAt(served', clock') <= Overall
                        /\ Ample => OwnAt(served', check'[t].who, clock') <= PerKey
        OBVIOUS
    <3>1. Record(t)
        BY <1>6, Moves DEF Checks
    <3>2. check'[t].who = who /\ clock' = clock
        BY <2>1, <2>4, <3>1 DEF Checks
    <3>3. AllAt(served', clock) <= Overall
      <4> DEFINE s == all'
      <4>1. s \in Seq(Nat)
          BY AllStep
      <4>2. HitsAt(s, clock) = AllAt(served', clock) /\ Len(s) <= Overall
          BY <1>2, <2>1 DEF AllCounted, NoneTooLong
      <4> HIDE DEF s
      <4>3. HitsAt(s, clock) \in Nat /\ HitsAt(s, clock) <= Len(s) /\ Len(s) \in Nat /\ Overall \in Nat
          BY <2>1, <4>1, HitsType, LimiterAssumption
      <4> QED BY <4>2, <4>3
    <3>4. Ample => OwnAt(served', who, clock) <= PerKey
      <4> SUFFICES ASSUME Ample  PROVE  OwnAt(served', who, clock) <= PerKey
          OBVIOUS
      <4>1. OwnAt(served, who, clock) < PerKey
          BY <2>3, <3>1, StartsAt DEF OutcomeInv
      <4>2. OwnAt(served', who, clock) = OwnAt(served, who, clock)
                + (IF check[t].who = who /\ check[t].now > clock - Window THEN 1 ELSE 0)
          BY <2>1, <3>1, ServedStep
      <4>3. OwnAt(served, who, clock) \in Nat /\ PerKey \in Nat
          BY <2>1, ServedType, LimiterAssumption DEF TypeInv
      <4> QED BY <4>1, <4>2, <4>3
    <3> QED BY <3>2, <3>3, <3>4
  <2>9. ASSUME NEW u \in Threads
        PROVE  /\ check'[u].at = "refusedByAll" =>
                     AllAt(served', clock') >= Overall /\ AllAt(served', check'[u].retry) < Overall
               /\ check'[u].at = "refusedByOwn" =>
                     /\ OwnAt(served', check'[u].who, clock') >= PerKey
                     /\ OwnAt(served', check'[u].who, check'[u].retry) < PerKey
               /\ check'[u].at \in {"recordOwn", "record"} /\ Ample =>
                     OwnAt(served', check'[u].who, clock') < PerKey
               /\ check'[u].at = "admitted" =>
                     /\ AllAt(served', clock') <= Overall
                     /\ Ample => OwnAt(served', check'[u].who, clock') <= PerKey
    <3>1. CASE u = t
        BY <2>5, <2>6, <2>7, <2>8, <3>1
    <3>2. CASE u # t
        BY <2>1, <3>2 DEF Idle
    <3> QED BY <3>1, <3>2
  <2> QED BY <1>3, <2>9 DEF OutcomeInv
<1> QED BY <1>4, <1>5, <1>6 DEF Next

\* What is known of the limiter when checks do not overlap.
AloneInv == KeyInv /\ AmpleInv /\ CountInv /\ WorkInv /\ OrderInv /\ FillInv /\ OutcomeInv

LEMMA InitAlone == Init => AloneInv
BY InitKey, InitAmple, InitCount, InitWork, InitOrder, InitFill, InitOutcome DEF AloneInv

LEMMA StepAlone == TypeInv /\ AloneInv /\ [Next]_limiterVars => AloneInv'
BY StepKey, StepAmple, StepCount, StepWork, StepOrder, StepFill, StepOutcome DEF AloneInv

\* When checks do not overlap, a call is refused only if as many were let through
\* in the window that ends now as the limit allows, and is let through only if
\* with it they are not more: what the limiter forgets of a caller it does not
\* miss, and no sweep fails.
THEOREM AloneStaysExact == Spec => []AloneIsExact
<1>1. TypeInv /\ AloneInv => AloneIsExact
  <2> SUFFICES ASSUME TypeInv, OrderInv, OutcomeInv, alone, NEW t \in Threads
               PROVE  LET who == check[t].who IN
                      /\ check[t].at # "failed"
                      /\ check[t].at = "refusedByAll" => Everyone(clock) >= Overall
                      /\ check[t].at = "refusedByOwn" => Own(who, clock) >= PerKey
                      /\ check[t].at = "admitted" => /\ Everyone(clock) <= Overall
                                                     /\ Ample => Own(who, clock) <= PerKey
      BY DEF AloneInv, AloneIsExact
  <2>1. DOMAIN served = 1..Len(served)
      BY DEF TypeInv
  <2>2. Everyone(clock) = AllAt(served, clock) /\ \A c : Own(c, clock) = OwnAt(served, c, clock)
      BY <2>1 DEF Everyone, AllAt, Own, OwnAt
  <2>3. check[t].at # "failed"
      BY DEF OrderInv, SeenRight
  <2> QED BY <2>2, <2>3 DEF OutcomeInv
<1> QED BY InitTypes, StepTypes, InitAlone, StepAlone, <1>1, PTL DEF Spec

\* When checks do not overlap, a refused client that waits for as long as it is
\* told to, and is the only one to come meanwhile, is not refused again by the
\* same limit: the whole seconds are never too few.
THEOREM OneWaitIsEnough == Spec => []WaitOnce
<1>1. TypeInv /\ AloneInv => WaitOnce
  <2> SUFFICES ASSUME TypeInv, OutcomeInv, alone, NEW t \in Threads
               PROVE  /\ check[t].at = "refusedByAll" => Everyone(check[t].retry) < Overall
                      /\ check[t].at = "refusedByOwn" => Own(check[t].who, check[t].retry) < PerKey
      BY DEF AloneInv, WaitOnce
  <2>1. DOMAIN served = 1..Len(served)
      BY DEF TypeInv
  <2>2. \A at : Everyone(at) = AllAt(served, at) /\ \A c : Own(c, at) = OwnAt(served, c, at)
      BY <2>1 DEF Everyone, AllAt, Own, OwnAt
  <2> QED BY <2>2 DEF OutcomeInv
<1> QED BY InitTypes, StepTypes, InitAlone, StepAlone, <1>1, PTL DEF Spec
=============================================================================
