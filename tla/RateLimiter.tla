----------------------------- MODULE RateLimiter -----------------------------
(***************************************************************************)
(* The limiter in front of the two endpoints that answer a caller without  *)
(* a token (src/app/ratelimit.py, rate_limited in routers/auth.py).        *)
(*                                                                         *)
(* `check' is called on the thread of each request, takes no lock, and may *)
(* be interrupted after each call it makes.  A step below is what runs     *)
(* between two such points, but that a _trim and the len after it are one  *)
(* step: a hit that is appended between them counts as if it had been      *)
(* there before.  A window is an object: a thread may hold one that a      *)
(* sweep has dropped from the table.                                       *)
(*                                                                         *)
(* Time is counted in ticks of which a second has several, because         *)
(* Retry-After is in whole seconds.                                        *)
(***************************************************************************)
EXTENDS Integers, Sequences, FiniteSets, Functions

CONSTANTS
    Threads,         \* requests handled at the same time
    Senders,         \* machines that call
    Proxy,           \* the reverse proxy, an address like the senders'
    trusted_proxies, \* peers whose X-Forwarded-For is believed
    Objects,         \* _Window objects
    PerKey, Overall, \* auth_rate_limit_per_ip, auth_rate_limit_overall
    Window,          \* auth_rate_limit_window_seconds, in ticks
    TicksPerSecond,
    TableSizes,      \* values of max_tracked_keys
    MaxClock,        \* bound: the last tick
    None             \* no window

Callers == Senders \cup {Proxy}

ASSUME LimiterAssumption ==
    /\ PerKey \in Nat \ {0} /\ Overall \in Nat \ {0} /\ TableSizes \subseteq Nat
    /\ Window \in Nat \ {0} /\ TicksPerSecond \in Nat \ {0} /\ MaxClock \in Nat
    /\ IsFiniteSet(Threads) /\ Threads # {} /\ IsFiniteSet(Senders)
    /\ None \notin Objects
    /\ IsFiniteSet(Objects)  \* memory does not run out
          => Cardinality(Objects) >= Cardinality(Callers) + Cardinality(Threads)

\* A machine whose word is taken for another's address is a proxy of ours, none
\* of the senders.
ASSUME TrustAssumption == Senders \cap trusted_proxies = {}

VARIABLES
    clock,             \* time.monotonic()
    all,               \* _all.hits
    keys,              \* _keys: the window of each caller that is tracked
    hits,              \* the hits of each window in use
    check,             \* the call of `check' on each thread
    max_tracked_keys,
    alone,             \* checks do not overlap
    served             \* who was admitted in the window, for the properties

limiterVars == <<clock, all, keys, hits, check, max_tracked_keys, alone, served>>
settings == <<max_tracked_keys, alone>>

Steps == {"idle", "overall", "get", "size", "sweep", "drop", "room", "insert", "own",
          "recordOwn", "record", "admitted", "refusedByAll", "refusedByOwn", "failed"}

(* A call: its key, whom the request can be shown to come from, its `now',   *)
(* its window; of a sweep the size of the table, the keys it has seen and    *)
(* those to drop; and when Retry-After lets the caller return.               *)
Check == [at: Steps, key: Callers \cup {None}, who: Callers \cup {None}, now: Nat,
          window: Objects \cup {None}, size: Nat, seen: SUBSET Callers,
          stale: SUBSET Callers, retry: Nat]

Idle == [at |-> "idle", key |-> None, who |-> None, now |-> 0, window |-> None,
         size |-> 0, seen |-> {}, stale |-> {}, retry |-> 0]

Init ==
    /\ clock = 0
    /\ all = <<>> /\ keys = <<>> /\ hits = <<>> /\ served = <<>>
    /\ check = [t \in Threads |-> Idle]
    /\ max_tracked_keys \in TableSizes
    /\ alone \in BOOLEAN

-----------------------------------------------------------------------------
(* Windows *)

\* Mutant: hits leave a tick early.
EarlyCutoff(now) == now - Window + 1

Cutoff(now) == now - Window

Oldest(S) == CHOOSE i \in S : \A j \in S : i <= j

\* _trim: pops from the left what has left the window.
Trimmed(s, now) ==
    LET keep == {i \in 1..Len(s) : s[i] > Cutoff(now)}
    IN IF keep = {} THEN <<>> ELSE SubSeq(s, Oldest(keep), Len(s))

\* Mutant: whole seconds without the one that int() cut off.
RetryAtOnce(s, now) ==
    LET left == (Window - (now - s[1])) \div TicksPerSecond
    IN now + TicksPerSecond * (IF left < 1 THEN 1 ELSE left)

\* _too_many: when the oldest hit has left the window, in whole seconds.
RetryAfter(s, now) ==
    LET left == (Window - (now - s[1])) \div TicksPerSecond + 1
    IN now + TicksPerSecond * (IF left < 1 THEN 1 ELSE left)

\* Objects that nothing refers to any more are gone.
Used(table, calls) == (Range(table) \cup {calls[t].window : t \in Threads}) \ {None}

Collected(h, table, calls) == [o \in Used(table, calls) \cap DOMAIN h |-> h[o]]

\* What was admitted, from the oldest that is still in the window on.
Recent(s, now) ==
    LET keep == {i \in 1..Len(s) : s[i].at > now - Window}
    IN IF keep = {} THEN <<>> ELSE SubSeq(s, Oldest(keep), Len(s))

-----------------------------------------------------------------------------
(* Who is calling *)

\* Mutant: the leftmost entry, the one the caller may have written.
Leftmost(peer, forwarded) ==
    IF peer \notin trusted_proxies \/ forwarded = <<>> THEN peer ELSE Head(forwarded)

\* client_key: the rightmost entry, if the peer is a proxy of ours.
client_key(peer, forwarded) ==
    IF peer \notin trusted_proxies \/ forwarded = <<>> THEN peer
    ELSE forwarded[Len(forwarded)]

Go(t, step) == check' = [check EXCEPT ![t].at = step]

\* `check' returns or raises.
End(t, outcome, retry) ==
    check' = [check EXCEPT ![t] = [Idle EXCEPT !.at = outcome, !.who = check[t].who,
                                              !.retry = retry]]

\* A request of s, which may write a header of its own, reaches the server
\* directly or through the proxy, which appends whom it has it from.  Of a
\* sender behind a proxy that is not trusted only the proxy is known.
Arrive(t) ==
    /\ check[t] = Idle /\ (alone => \A u \in Threads : check[u] = Idle)
    /\ \E s \in Senders, proxied \in BOOLEAN, written \in {<<>>} \cup {<<f>> : f \in Senders} :
         LET key == IF proxied THEN client_key(Proxy, Append(written, s))
                    ELSE client_key(s, written)
         IN check' = [check EXCEPT ![t] = [Idle EXCEPT
                !.at = "overall", !.key = key, !.now = clock,
                !.who = IF proxied /\ Proxy \notin trusted_proxies THEN Proxy ELSE s]]
    /\ UNCHANGED <<clock, all, keys, hits, served, settings>>

-----------------------------------------------------------------------------
(* check *)

\* Nothing is left of a caller's window at time now.
Stale(k, now) ==
    LET own == hits[keys[k]] IN own = <<>> \/ own[Len(own)] <= Cutoff(now)

\* _trim(self._all), len and the comparison.
CheckOverall(t) ==
    /\ check[t].at = "overall"
    /\ all' = Trimmed(all, check[t].now)
    /\ IF Len(all') >= Overall
       THEN End(t, "refusedByAll", RetryAfter(all', check[t].now))
       ELSE Go(t, "get")
    /\ UNCHANGED <<clock, keys, hits, served, settings>>

\* _keys.get(key).
Get(t) ==
    /\ check[t].at = "get"
    /\ IF check[t].key \in DOMAIN keys
       THEN check' = [check EXCEPT ![t].window = keys[check[t].key], ![t].at = "own"]
       ELSE Go(t, "size")
    /\ UNCHANGED <<clock, all, keys, hits, served, settings>>

\* A table at its limit is swept.
Size(t) ==
    /\ check[t].at = "size"
    /\ LET size == Cardinality(DOMAIN keys) IN
       IF size < max_tracked_keys THEN Go(t, "room")
       ELSE check' = [check EXCEPT ![t].at = "sweep", ![t].size = size]
    /\ UNCHANGED <<clock, all, keys, hits, served, settings>>

\* _sweep iterates over the table, one key at a time, and a RuntimeError ends it
\* if the size of the table has changed since it began.
Sweep(t) ==
    /\ check[t].at = "sweep"
    /\ IF Cardinality(DOMAIN keys) # check[t].size THEN End(t, "failed", 0)
       ELSE IF Cardinality(check[t].seen) >= check[t].size
       THEN check' = [check EXCEPT ![t].at = "drop", ![t].seen = {}, ![t].size = 0]
       ELSE \E k \in DOMAIN keys \ check[t].seen :
              check' = [check EXCEPT ![t].seen = @ \cup {k},
                            ![t].stale = IF Stale(k, check[t].now) THEN @ \cup {k} ELSE @]
    /\ UNCHANGED <<clock, all, keys, hits, served, settings>>

\* del self._keys[k] for each: a KeyError at one that is gone.
Drop(t) ==
    /\ check[t].at = "drop" /\ check[t].stale # {}
    /\ \E k \in check[t].stale :
         /\ keys' = Restrict(keys, DOMAIN keys \ {k})
         /\ IF k \in DOMAIN keys THEN check' = [check EXCEPT ![t].stale = @ \ {k}]
            ELSE End(t, "failed", 0)
    /\ hits' = Collected(hits, keys', check')
    /\ UNCHANGED <<clock, all, served, settings>>

\* Mutant: off by one.
LastPlace == Cardinality(DOMAIN keys) <= max_tracked_keys

HasRoom == Cardinality(DOMAIN keys) < max_tracked_keys

\* Is there room for the key now?  If not it is counted by the ceiling alone,
\* even if it has got into the table meanwhile.
Room(t) ==
    /\ check[t].at = "room" \/ (check[t].at = "drop" /\ check[t].stale = {})
    /\ Go(t, IF HasRoom THEN "insert" ELSE "record")
    /\ UNCHANGED <<clock, all, keys, hits, served, settings>>

\* Mutant: one default window for all.
SharedWindow == CHOOSE o \in Objects : TRUE

NewWindow == CHOOSE o \in Objects : o \notin Used(keys, check)

\* setdefault(key, _Window()), which keeps a window that is there by now.
Insert(t) ==
    /\ check[t].at = "insert"
    /\ LET key == check[t].key
           window == IF key \in DOMAIN keys THEN keys[key] ELSE NewWindow
       IN /\ keys' = [k \in DOMAIN keys \cup {key} |-> IF k = key THEN window ELSE keys[k]]
          /\ hits' = [o \in DOMAIN hits \cup {window} |-> IF o \in DOMAIN hits THEN hits[o] ELSE <<>>]
          /\ check' = [check EXCEPT ![t].window = window, ![t].at = "own"]
    /\ UNCHANGED <<clock, all, served, settings>>

\* Mutant: the comparison lets one too many in.
OneTooMany(s) == Len(s) > PerKey

Full(s) == Len(s) >= PerKey

\* _trim(window), len and the comparison.
CheckOwn(t) ==
    /\ check[t].at = "own"
    /\ LET own == Trimmed(hits[check[t].window], check[t].now) IN
       /\ IF Full(own)
          THEN End(t, "refusedByOwn", RetryAfter(own, check[t].now))
          ELSE Go(t, "recordOwn")
       /\ hits' = Collected([hits EXCEPT ![check[t].window] = own], keys, check')
    /\ UNCHANGED <<clock, all, keys, served, settings>>

\* window.hits.append(now).
RecordOwn(t) ==
    /\ check[t].at = "recordOwn"
    /\ hits' = [hits EXCEPT ![check[t].window] = Append(@, check[t].now)]
    /\ Go(t, "record")
    /\ UNCHANGED <<clock, all, keys, served, settings>>

\* _all.hits.append(now).
Record(t) ==
    /\ check[t].at = "record"
    /\ End(t, "admitted", 0)
    /\ hits' = Collected(hits, keys, check')
    /\ all' = Append(all, check[t].now)
    /\ served' = Recent(Append(served, [who |-> check[t].who, at |-> check[t].now]), clock)
    /\ UNCHANGED <<clock, keys, settings>>

\* The handler runs, or the caller is told 429 or 500.
Leave(t) ==
    /\ check[t].at \in {"admitted", "refusedByAll", "refusedByOwn", "failed"}
    /\ check' = [check EXCEPT ![t] = Idle]
    /\ UNCHANGED <<clock, all, keys, hits, served, settings>>

\* A check that does not overlap another takes no time either.
Tick ==
    /\ clock < MaxClock /\ (alone => \A t \in Threads : check[t] = Idle)
    /\ clock' = clock + 1
    /\ served' = Recent(served, clock')
    /\ UNCHANGED <<all, keys, hits, check, settings>>

Checks(t) == \/ CheckOverall(t) \/ Get(t) \/ Size(t) \/ Sweep(t) \/ Drop(t) \/ Room(t)
             \/ Insert(t) \/ CheckOwn(t) \/ RecordOwn(t) \/ Record(t)

Next == Tick \/ \E t \in Threads : Arrive(t) \/ Checks(t) \/ Leave(t)

Spec == Init /\ [][Next]_limiterVars

-----------------------------------------------------------------------------
(* What must hold *)

Own(who, at) == Cardinality({i \in DOMAIN served : served[i].who = who /\ served[i].at > at - Window})
Everyone(at) == Cardinality({i \in DOMAIN served : served[i].at > at - Window})
Ample == max_tracked_keys > Cardinality(Callers)

\* Types, and no two callers are counted in one window.
TypeOK ==
    /\ clock \in 0..MaxClock
    /\ all \in Seq(0..clock)
    /\ keys \in [DOMAIN keys -> Objects] /\ DOMAIN keys \subseteq Callers
    /\ \A k, l \in DOMAIN keys : keys[k] = keys[l] => k = l
    /\ hits \in [Used(keys, check) -> Seq(0..clock)]
    /\ check \in [Threads -> Check]
    /\ max_tracked_keys \in TableSizes
    /\ alone \in BOOLEAN

\* "One limit that cannot be split is what actually bounds the work": requests
\* of one window that were let through exceed the ceiling by no more than the
\* threads that passed its check together.
WorkBounded == Len(served) <= Overall + Cardinality(Threads) - 1

\* A sender is never let through more often than its own limit, whatever
\* headers it writes, but for the threads that check at the same time.
SenderBounded ==
    Ample => \A c \in Callers : Own(c, clock) <= PerKey + Cardinality(Threads) - 1

\* When checks do not overlap they decide as one sliding window would.
AloneIsExact ==
    alone => \A t \in Threads :
        LET who == check[t].who IN
        /\ check[t].at # "failed"
        /\ check[t].at = "refusedByAll" => Everyone(clock) >= Overall
        /\ check[t].at = "refusedByOwn" => Own(who, clock) >= PerKey
        /\ check[t].at = "admitted" => /\ Everyone(clock) <= Overall
                                       /\ Ample => Own(who, clock) <= PerKey

\* "A well-behaved client can wait exactly once".
WaitOnce ==
    alone => \A t \in Threads :
        /\ check[t].at = "refusedByAll" => Everyone(check[t].retry) < Overall
        /\ check[t].at = "refusedByOwn" => Own(check[t].who, check[t].retry) < PerKey

\* The table of callers is bounded.
TableBounded ==
    Cardinality(DOMAIN keys) <= max_tracked_keys + Cardinality(Threads) - 1
=============================================================================
