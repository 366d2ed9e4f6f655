----------------------------- MODULE RateLimiter -----------------------------
(***************************************************************************)
(* The per-source token buckets of transport/rgtp_ratelimit.c: an          *)
(* open-addressing hash table with linear probing, in which the oldest     *)
(* bucket makes room when the table is full.                               *)
(*                                                                         *)
(* An exposure has a table of its own, so a key is a source address.  Time *)
(* is counted in ticks and TOKEN ticks refill one token; the tokens of a   *)
(* bucket, a double in the code, are counted in ticks too, so fractions of *)
(* a token are kept exactly.  The clock is CLOCK_MONOTONIC and has left 0. *)
(***************************************************************************)
EXTENDS Naturals, Sequences

LOCAL INSTANCE FiniteSetsExt

CONSTANTS
  Keys,           \* source addresses
  BUCKET_COUNT,   \* slots of the table
  Hash,           \* hash_key: Hash[k] is the slot where the probe for k starts
  MAX_TOKENS,     \* RGTP_RATELIMIT_MAX_RPS, the depth of a bucket
  TOKEN,          \* ticks that refill one token
  MaxTime,        \* bound: the clock stops there
  MaxGranted,     \* bound: requests let through altogether
  NULL            \* no key

ASSUME RateLimiterAssumption ==
  /\ BUCKET_COUNT \in Nat \ {0}
  /\ Hash \in [Keys -> 0 .. BUCKET_COUNT - 1]
  /\ MAX_TOKENS \in Nat \ {0}
  /\ TOKEN \in Nat \ {0}
  /\ MaxTime \in Nat
  /\ MaxGranted \in Nat
  /\ NULL \notin Keys

VARIABLES
  entries,    \* rl->entries
  rateNow,    \* the clock, read by rgtp_poll before each check
  ret,        \* what the last check returned, and to which source
  granted,    \* history: when requests of each source were let through
  evicted     \* history: sources whose bucket was given to another

rateHistory == <<granted, evicted>>
rateVars == <<entries, rateNow, ret, rateHistory>>

Slots == 0 .. BUCKET_COUNT - 1
FULL == MAX_TOKENS * TOKEN

Entry == [key : Keys \cup {NULL}, tokens : 0 .. FULL, last_refill : Nat]
NoEntry == [key |-> NULL, tokens |-> 0, last_refill |-> 0]

RateTypeOK ==
  /\ entries \in [Slots -> Entry]
  /\ rateNow \in Nat
  /\ ret \in [key : Keys, code : {"RGTP_OK", "RGTP_ERR_RATE_LIMITED"}] \cup {NULL}
  /\ granted \in [Keys -> Seq(Nat)]
  /\ evicted \subseteq Keys

\* rgtp_ratelimit_init
RateInit ==
  /\ entries = [s \in Slots |-> NoEntry]
  /\ rateNow = 1
  /\ ret = NULL
  /\ granted = [k \in Keys |-> << >>]
  /\ evicted = {}

RateTick ==
  /\ rateNow < MaxTime
  /\ rateNow' = rateNow + 1
  /\ UNCHANGED <<entries, ret, rateHistory>>

-----------------------------------------------------------------------------
(* The probe                                                               *)

\* The i-th slot looked at for key k, with i in 0 .. BUCKET_COUNT - 1.
ProbeAt(k, i) == (Hash[k] + i) % BUCKET_COUNT

\* Mutation: a bucket without tokens passes for an empty slot.
IsEmptyByTokens(s) == entries[s].tokens = 0

IsEmpty(s) == entries[s].last_refill = 0

\* The probe stops at an empty slot or at the bucket of k.
Stops(k) == {i \in Slots : IsEmpty(ProbeAt(k, i)) \/ entries[ProbeAt(k, i)].key = k}

Least(S) == CHOOSE i \in S : \A j \in S : i <= j

\* Where the probe for k ends; only if Stops(k) is not empty.
Found(k) == ProbeAt(k, Least(Stops(k)))

\* The oldest bucket, the first of its age along the probe.
Oldest(k) ==
  LET age(i) == entries[ProbeAt(k, i)].last_refill
  IN  ProbeAt(k, Least({i \in Slots : \A j \in Slots : age(i) <= age(j)}))

-----------------------------------------------------------------------------
(* rgtp_ratelimit_check                                                    *)

Grant(k) ==
  /\ MapThenSumSet(LAMBDA j : Len(granted[j]), Keys) < MaxGranted
  /\ ret' = [key |-> k, code |-> "RGTP_OK"]
  /\ granted' = [granted EXCEPT ![k] = Append(@, rateNow)]

NewBucket(k) == [key |-> k, tokens |-> FULL - TOKEN, last_refill |-> rateNow]

CheckInsert(k) ==
  /\ Stops(k) # {}
  /\ IsEmpty(Found(k))
  /\ entries' = [entries EXCEPT ![Found(k)] = NewBucket(k)]
  /\ Grant(k)
  /\ UNCHANGED <<rateNow, evicted>>

CheckEvict(k) ==
  /\ Stops(k) = {}
  /\ entries' = [entries EXCEPT ![Oldest(k)] = NewBucket(k)]
  /\ evicted' = evicted \cup {entries[Oldest(k)].key}
  /\ Grant(k)
  /\ UNCHANGED rateNow

\* Mutation: the depth of the bucket is not enforced.
RefilledUncapped(e) == e.tokens + (rateNow - e.last_refill)

\* Tokens after the refill for the time since the last one, the bucket's depth at most.
Refilled(e) ==
  LET t == e.tokens + (rateNow - e.last_refill)
  IN  IF t > FULL THEN FULL ELSE t

\* Mutation: a token is taken whether there is one or not.
CheckConsumeAlways(k) ==
  LET e == entries[Found(k)] IN
  /\ Stops(k) # {}
  /\ e.last_refill # 0
  /\ entries' = [entries EXCEPT ![Found(k)] =
       [e EXCEPT !.tokens = Refilled(e) - TOKEN, !.last_refill = rateNow]]
  /\ Grant(k)
  /\ UNCHANGED <<rateNow, evicted>>

CheckConsume(k) ==
  LET e == entries[Found(k)] IN
  /\ Stops(k) # {}
  /\ e.last_refill # 0
  /\ Refilled(e) >= TOKEN
  /\ entries' = [entries EXCEPT ![Found(k)] =
       [e EXCEPT !.tokens = Refilled(e) - TOKEN, !.last_refill = rateNow]]
  /\ Grant(k)
  /\ UNCHANGED <<rateNow, evicted>>

\* Refused, but refilled all the same.
CheckRefuse(k) ==
  LET e == entries[Found(k)] IN
  /\ Stops(k) # {}
  /\ e.last_refill # 0
  /\ Refilled(e) < TOKEN
  /\ entries' = [entries EXCEPT ![Found(k)] =
       [e EXCEPT !.tokens = Refilled(e), !.last_refill = rateNow]]
  /\ ret' = [key |-> k, code |-> "RGTP_ERR_RATE_LIMITED"]
  /\ UNCHANGED <<rateNow, rateHistory>>

Check(k) == CheckInsert(k) \/ CheckEvict(k) \/ CheckConsume(k) \/ CheckRefuse(k)

RateNext == RateTick \/ \E k \in Keys : Check(k)

RateSpec == RateInit /\ [][RateNext]_rateVars

-----------------------------------------------------------------------------
(* Properties                                                              *)

\* Every bucket is the one the probe of rgtp_ratelimit_check finds for its key: no
\* empty slot and no second bucket of that key lies before it, so a source cannot end
\* up with two buckets, whatever collisions, wrap-arounds and evictions came before.
Findable ==
  \A s \in Slots : ~IsEmpty(s) => Found(entries[s].key) = s

\* Between any two requests of k let through there is time for all but a burst.
Within(k) ==
  LET at == granted[k] IN
  \A i, j \in DOMAIN at :
    i <= j => (j - i + 1) * TOKEN <= FULL + (at[j] - at[i])

\* "Limits pull requests from a single source IP to RGTP_RATELIMIT_MAX_RPS requests
\* per second" (rgtp_ratelimit.c), as a token bucket means it: over any stretch of time
\* one burst of MAX_TOKENS and the refill rate, also after a long pause.  It holds as
\* long as the source keeps its bucket.
RateBound == \A k \in Keys \ evicted : Within(k)

=============================================================================
