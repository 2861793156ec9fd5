----------------------------- MODULE RateLimiter -----------------------------
(***************************************************************************)
(* The rate limiter (proxy/src/middleware/rate_limit.rs, RateLimiter.check) *)
(* that decides step 9 of forward_request: a Redis sorted set under one    *)
(* key, "global", shared by all calls.  A call reads the clock, then runs  *)
(* one atomic pipeline, and takes its entry back in a command of its own   *)
(* when the pipeline counted too many.                                     *)
(***************************************************************************)
EXTENDS Naturals, FiniteSets

CONSTANTS
    Calls,        \* calls of check in one behaviour
    MaxRequests,  \* max_requests
    Window,       \* window_secs, in clock ticks
    MaxTime       \* bound: the clock stops here

ASSUME LimiterAssumption ==
    /\ IsFiniteSet(Calls)
    /\ MaxRequests \in Nat /\ Window \in Nat \ {0}
    /\ MaxTime \in Nat

VARIABLES
    now,
    log,      \* the sorted set: entries [call, at], one per member
    expires,  \* when Redis deletes the key (EXPIRE)
    stage,    \* the await a call is at, or its answer
    stamp,    \* now_ms of a call
    late      \* calls whose pipeline ran after that of a younger stamp, calls
              \* whose pipeline ran more than a window after their stamp, and
              \* calls whose entry was never taken back: a history variable

vars == <<now, log, expires, stage, stamp, late>>

Entry == [call: Calls, at: 0..MaxTime]

\* "connect": before the connection; "pipeline": the clock was read;
\* "remove": counted too many; then the answers.
Stages == {"connect", "pipeline", "remove", "Allowed", "Limited", "Failed"}

TypeOK ==
    /\ now \in 0..MaxTime
    /\ log \subseteq Entry
    /\ expires \in 0..(MaxTime + 2 * Window)
    /\ stage \in [Calls -> Stages]
    /\ stamp \in [Calls -> 0..MaxTime]
    /\ late \in [overtaken: SUBSET Calls, slow: SUBSET Calls, kept: SUBSET Calls]

Init ==
    /\ now = 0
    /\ log = {}
    /\ expires = 0
    /\ stage = [c \in Calls |-> "connect"]
    /\ stamp = [c \in Calls |-> 0]
    /\ late = [overtaken |-> {}, slow |-> {}, kept |-> {}]

-----------------------------------------------------------------------------

\* Mutant of ReadClock: the clock is rounded up.
ReadClockAhead(c) ==
    /\ stage[c] = "connect"
    /\ stage' = [stage EXCEPT ![c] = "pipeline"]
    /\ stamp' = [stamp EXCEPT ![c] = now + 1]
    /\ UNCHANGED <<now, log, expires, late>>

ReadClock(c) ==
    /\ stage[c] = "connect"
    /\ stage' = [stage EXCEPT ![c] = "pipeline"]
    /\ stamp' = [stamp EXCEPT ![c] = now]
    /\ UNCHANGED <<now, log, expires, late>>

\* Mutant of Evicted: one tick too many.
EvictedEarly(t) == {e \in log : e.at + Window <= t + 1}

\* ZREMRANGEBYSCORE 0 .. now_ms - window, both ends included.
Evicted(t) == {e \in log : e.at + Window <= t}

\* Mutant of Added: the member is the millisecond alone, and calls of the
\* same millisecond share an entry.
AddedByTime(c) ==
    LET same == {e \in log \ Evicted(stamp[c]) : e.at = stamp[c]}
    IN  (log \ Evicted(stamp[c]))
          \cup (IF same = {} THEN {[call |-> c, at |-> stamp[c]]} ELSE {})

\* ZREMRANGEBYSCORE and ZADD with a member of its own.
Added(c) == (log \ Evicted(stamp[c])) \cup {[call |-> c, at |-> stamp[c]]}

Executed == {d \in Calls : stage[d] \in {"remove", "Allowed", "Limited"}} \cup late.kept

Pipeline(c) ==
    /\ stage[c] = "pipeline"
    /\ log' = Added(c)
    /\ expires' = now + 2 * Window
    /\ stage' = [stage EXCEPT ![c] = IF Cardinality(Added(c)) > MaxRequests
                                     THEN "remove" ELSE "Allowed"]
    /\ late' = [late EXCEPT
          !.overtaken = IF \E d \in Executed : stamp[d] > stamp[c] THEN @ \cup {c} ELSE @,
          !.slow = IF now > stamp[c] + Window THEN @ \cup {c} ELSE @]
    /\ UNCHANGED <<now, stamp>>

\* Mutant of Remove: the entry of a refused call is left behind.
RemoveNothing(c) ==
    /\ stage[c] = "remove"
    /\ stage' = [stage EXCEPT ![c] = "Limited"]
    /\ UNCHANGED <<now, log, expires, stamp, late>>

\* ZREM; an error is ignored and the entry stays.
Remove(c) ==
    /\ stage[c] = "remove"
    /\ stage' = [stage EXCEPT ![c] = "Limited"]
    /\ \/ /\ log' = {e \in log : e.call # c}
          /\ UNCHANGED late
       \/ /\ late' = [late EXCEPT !.kept = @ \cup {c}]
          /\ UNCHANGED log
    /\ UNCHANGED <<now, expires, stamp>>

\* The connection or the pipeline fails, its answer is lost, or the handler
\* is dropped; an entry that was added stays.
Fail(c) ==
    /\ stage[c] \in {"connect", "pipeline", "remove"}
    /\ stage' = [stage EXCEPT ![c] = "Failed"]
    /\ \/ /\ late' = IF stage[c] = "remove" THEN [late EXCEPT !.kept = @ \cup {c}] ELSE late
          /\ UNCHANGED <<log, expires>>
       \/ /\ stage[c] = "pipeline"
          /\ log' = Added(c)
          /\ expires' = now + 2 * Window
          /\ late' = [late EXCEPT !.kept = @ \cup {c}]
    /\ UNCHANGED <<now, stamp>>

Expire ==
    /\ log # {} /\ now >= expires
    /\ log' = {}
    /\ UNCHANGED <<now, expires, stage, stamp, late>>

Tick ==
    /\ now < MaxTime
    /\ now' = now + 1
    /\ UNCHANGED <<log, expires, stage, stamp, late>>

Answered(c) == stage[c] \in {"Allowed", "Limited", "Failed"}

Done ==
    /\ now = MaxTime /\ \A c \in Calls : Answered(c)
    /\ UNCHANGED vars

Next ==
    \/ \E c \in Calls : ReadClock(c) \/ Pipeline(c) \/ Remove(c) \/ Fail(c)
    \/ Expire \/ Tick \/ Done

Spec == Init /\ [][Next]_vars

-----------------------------------------------------------------------------
(* Properties. *)

\* The calls allowed with a stamp in the window that ends at t.
AllowedIn(t) ==
    {c \in Calls : stage[c] = "Allowed" /\ stamp[c] <= t /\ t < stamp[c] + Window}

\* The sliding window, for calls whose pipelines run in the order of their
\* stamps and within a window of them: at most MaxRequests of them are
\* allowed in any window, although the key expires, calls come and go between
\* pipelines, and any number of other calls run late.  Nothing in check keeps
\* a call from being late: one that waits for its pipeline while the key
\* expires finds an empty set.
InOrderWindow ==
    \A t \in 0..MaxTime :
        Cardinality(AllowedIn(t) \ (late.overtaken \cup late.slow)) <= MaxRequests

\* A call is refused for a cause: MaxRequests others are in its window that
\* were allowed, or are being refused at the same time, or could not take
\* their entry back.  A refusal that is complete blocks nobody.
Blocking(c) ==
    {d \in Calls \ {c} :
        /\ stamp[d] + Window > stamp[c]
        /\ stage[d] \in {"Allowed", "remove"} \/ d \in late.kept}

RefusedForCause ==
    [][\A c \in Calls :
          stage[c] # "remove" /\ stage'[c] = "remove"
            => Cardinality(Blocking(c)) >= MaxRequests]_vars

\* What keeps the window right between pipelines: an allowed call stays in
\* the log until a call a full window younger has run, or the log was left
\* alone for two windows.
AllowedStaysLogged ==
    \A c \in Calls : stage[c] = "Allowed" =>
        \/ [call |-> c, at |-> stamp[c]] \in log
        \/ \E d \in Calls : stage[d] # "connect" /\ stamp[d] >= stamp[c] + Window
        \/ now >= stamp[c] + 2 * Window
=============================================================================
