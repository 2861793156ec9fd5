-------------------------- MODULE RateLimiter_proofs --------------------------
(***************************************************************************)
(* Theorems about RateLimiter, for every number of calls, every limit and  *)
(* every window.  What makes the window hold is that a call that was       *)
(* allowed stays in the sorted set for as long as a younger call may have  *)
(* to count it: evictions come too late to matter for the calls that run   *)
(* in the order of their stamps, and so does the expiry of the key.        *)
(***************************************************************************)
EXTENDS RateLimiter, FiniteSetTheorems, TLAPS

-----------------------------------------------------------------------------
(* The inductive invariant. *)

EntryOf(c) == [call |-> c, at |-> stamp[c]]

\* A stamp is not of the future.
ClockInv == \A c \in Calls : stamp[c] <= now

\* The entries belong to calls whose pipeline has run, and carry their stamps.
LogInv ==
    /\ IsFiniteSet(log)
    /\ \A e \in log :
          /\ e = EntryOf(e.call)
          /\ stage[e.call] \in {"Allowed", "remove"} \/ e.call \in late.kept
    /\ \A c \in late.kept : stage[c] \in {"Limited", "Failed"}

\* An allowed call is in the log, or the time has come when it need not be.
LoggedInv ==
    \A c \in Calls : stage[c] = "Allowed" =>
        /\ expires >= stamp[c] + 2 * Window
        /\ \/ EntryOf(c) \in log
           \/ \E d \in Executed : stamp[d] >= stamp[c] + Window
           \/ now >= stamp[c] + 2 * Window

IInv == TypeOK /\ ClockInv /\ LogInv /\ LoggedInv

-----------------------------------------------------------------------------

LEMMA InitIInv == Init => IInv
<1> SUFFICES ASSUME Init PROVE IInv
  OBVIOUS
<1>1. TypeOK
  BY LimiterAssumption DEF Init, TypeOK, Stages
<1>2. ClockInv /\ LogInv /\ LoggedInv
  BY FS_EmptySet, LimiterAssumption DEF Init, ClockInv, LogInv, LoggedInv
<1>3. QED
  BY <1>1, <1>2 DEF IInv

\* What a pipeline leaves in the log.
LEMMA AddedOK ==
    ASSUME IInv, NEW c \in Calls
    PROVE  /\ Added(c) \subseteq Entry /\ IsFiniteSet(Added(c))
           /\ EntryOf(c) \in Added(c)
           /\ \A e \in Added(c) : e = EntryOf(c) \/ e \in log
           /\ \A e \in log : e.at + Window > stamp[c] => e \in Added(c)
<1>1. EntryOf(c) \in Entry
  BY DEF IInv, TypeOK, Entry, EntryOf
<1>2. IsFiniteSet(log \ Evicted(stamp[c]))
  BY FS_Subset DEF IInv, LogInv, Evicted
<1>3. IsFiniteSet(Added(c))
  BY <1>2, FS_AddElement DEF Added
<1>4. \A e \in log : e.at \in Nat
  BY LimiterAssumption DEF IInv, TypeOK, Entry
<1>5. \A e \in log : e.at + Window > stamp[c] => e \notin Evicted(stamp[c])
  BY <1>4, LimiterAssumption DEF Evicted, IInv, TypeOK
<1>6. QED
  BY <1>1, <1>3, <1>5 DEF Added, EntryOf, IInv, TypeOK

-----------------------------------------------------------------------------
(* A step keeps the invariant. *)

LEMMA ReadClockIInv ==
    ASSUME IInv, NEW c \in Calls, ReadClock(c)
    PROVE  IInv'
<1> USE DEF ReadClock, IInv
<1>1. TypeOK'
  BY DEF TypeOK, Stages
<1>2. \A d \in Calls : d # c => stage'[d] = stage[d] /\ stamp'[d] = stamp[d]
  BY DEF TypeOK
<1>3. stage'[c] = "pipeline" /\ stamp'[c] = now
  BY DEF TypeOK
<1>4. ClockInv'
  BY <1>2, <1>3, LimiterAssumption DEF ClockInv, TypeOK
<1>5. \A e \in log : e.call \in Calls /\ e.call # c
  BY DEF LogInv, TypeOK, Entry
<1>6. c \notin late.kept
  BY DEF LogInv
<1>7. LogInv'
  BY <1>2, <1>5, <1>6 DEF LogInv, EntryOf, TypeOK
<1>8. Executed' = Executed /\ c \notin Executed
  BY <1>2, <1>3, <1>6 DEF Executed
<1>9. LoggedInv'
  BY <1>2, <1>3, <1>8 DEF LoggedInv, EntryOf, Executed, TypeOK
<1>10. QED
  BY <1>1, <1>4, <1>7, <1>9

\* A call whose pipeline runs, and is counted from then on.
LEMMA RunsIInv ==
    ASSUME IInv, NEW c \in Calls, stage[c] = "pipeline",
           log' = Added(c), expires' = now + 2 * Window,
           NEW answer \in {"remove", "Allowed", "Failed"},
           stage' = [stage EXCEPT ![c] = answer],
           late' \in [overtaken: SUBSET Calls, slow: SUBSET Calls, kept: SUBSET Calls],
           late'.kept = IF answer = "Failed" THEN late.kept \cup {c} ELSE late.kept,
           UNCHANGED <<now, stamp>>
    PROVE  IInv'
<1> USE DEF IInv
<1>1. TypeOK'
  <2>1. now + 2 * Window \in 0..(MaxTime + 2 * Window)
    BY LimiterAssumption DEF TypeOK
  <2>2. QED
    BY <2>1, AddedOK DEF TypeOK, Stages
<1>2. /\ stage'[c] = answer
      /\ \A d \in Calls : d # c => stage'[d] = stage[d]
  BY DEF TypeOK
<1>3. ClockInv'
  BY <1>2 DEF ClockInv
<1>4. LogInv'
  <2>1. \A e \in log : e.call \in Calls /\ e.call # c
    BY DEF LogInv, TypeOK, Entry
  <2>2. \A e \in log : /\ e = EntryOf(e.call)'
                       /\ stage'[e.call] \in {"Allowed", "remove"} \/ e.call \in late'.kept
    BY <1>2, <2>1 DEF LogInv, EntryOf
  <2>3. EntryOf(c).call = c /\ EntryOf(c)' = EntryOf(c)
    BY DEF EntryOf
  <2>4. stage'[c] \in {"Allowed", "remove"} \/ c \in late'.kept
    BY <1>2
  <2>5. \A d \in late'.kept : stage'[d] \in {"Limited", "Failed"}
    BY <1>2 DEF LogInv, TypeOK
  <2>6. \A e \in log' : e = EntryOf(c) \/ e \in log
    BY AddedOK
  <2>7. IsFiniteSet(log')
    BY AddedOK
  <2>8. QED
    BY <2>2, <2>3, <2>4, <2>5, <2>6, <2>7 DEF LogInv
<1>5. Executed \subseteq Executed' /\ c \in Executed'
  BY <1>2 DEF Executed, TypeOK
<1>6. LoggedInv'
  <2> SUFFICES ASSUME NEW d \in Calls, stage'[d] = "Allowed"
               PROVE  /\ expires' >= stamp[d] + 2 * Window
                      /\ \/ EntryOf(d) \in log'
                         \/ \E x \in Executed' : stamp[x] >= stamp[d] + Window
                         \/ now >= stamp[d] + 2 * Window
    BY DEF LoggedInv, EntryOf
  <2>1. expires' >= stamp[d] + 2 * Window
    BY LimiterAssumption DEF ClockInv, TypeOK
  <2>2. CASE d = c
    BY <2>1, <2>2, AddedOK
  <2>3. CASE d # c
    <3>1. stage[d] = "Allowed"
      BY <1>2, <2>3
    <3>2. CASE EntryOf(d) \in log
      <4>1. CASE stamp[d] + Window > stamp[c]
        BY <2>1, <3>2, <4>1, AddedOK DEF EntryOf
      <4>2. CASE ~(stamp[d] + Window > stamp[c])
        <5>1. stamp[c] >= stamp[d] + Window
          BY <4>2, LimiterAssumption DEF TypeOK
        <5>2. QED
          BY <1>5, <2>1, <5>1
      <4>3. QED
        BY <4>1, <4>2
    <3>3. CASE EntryOf(d) \notin log
      BY <1>5, <2>1, <3>1, <3>3 DEF LoggedInv
    <3>4. QED
      BY <3>2, <3>3
  <2>4. QED
    BY <2>2, <2>3
<1>7. QED
  BY <1>1, <1>3, <1>4, <1>6

LEMMA PipelineIInv ==
    ASSUME IInv, NEW c \in Calls, Pipeline(c)
    PROVE  IInv'
<1> DEFINE answer == IF Cardinality(Added(c)) > MaxRequests THEN "remove" ELSE "Allowed"
<1>1. late' \in [overtaken: SUBSET Calls, slow: SUBSET Calls, kept: SUBSET Calls] /\ late'.kept = late.kept
  BY DEF Pipeline, IInv, TypeOK
<1>2. answer \in {"remove", "Allowed"}
  OBVIOUS
<1>3. stage' = [stage EXCEPT ![c] = answer]
  BY DEF Pipeline
<1> HIDE DEF answer
<1>4. QED
  BY <1>1, <1>2, <1>3, RunsIInv DEF Pipeline

\* A call that was refused is answered; it takes its entry back, or keeps it.
LEMMA RemovedIInv ==
    ASSUME IInv, NEW c \in Calls, stage[c] \in {"connect", "pipeline", "remove"},
           NEW answer \in {"Limited", "Failed"},
           stage' = [stage EXCEPT ![c] = answer],
           \/ log' = {e \in log : e.call # c} /\ late' = late /\ answer = "Limited"
           \/ log' = log /\ late' = [late EXCEPT !.kept = @ \cup {c}]
           \/ log' = log /\ late' = late /\ stage[c] # "remove",
           answer = "Limited" => stage[c] = "remove",
           UNCHANGED <<now, expires, stamp>>
    PROVE  IInv'
<1> USE DEF IInv
<1>1. late' \in [overtaken: SUBSET Calls, slow: SUBSET Calls, kept: SUBSET Calls]
      /\ late'.kept \in {late.kept, late.kept \cup {c}}
  BY DEF TypeOK
<1>2. TypeOK'
  BY <1>1 DEF TypeOK, Stages
<1>3. /\ stage'[c] = answer
      /\ \A d \in Calls : d # c => stage'[d] = stage[d]
  BY DEF TypeOK
<1>4. ClockInv'
  BY <1>3 DEF ClockInv
<1>5. LogInv'
  <2>1. \A e \in log : e.call \in Calls
    BY DEF TypeOK, Entry
  <2>2. log' \subseteq log /\ IsFiniteSet(log')
    BY FS_Subset DEF LogInv
  <2>3. \A e \in log' : e.call = c => c \in late'.kept
    <3>1. \A e \in log : e.call = c => stage[c] = "remove" \/ c \in late.kept
      BY DEF LogInv
    <3>2. QED
      BY <2>2, <3>1, <1>1 DEF TypeOK
  <2>4. \A e \in log' : /\ e = EntryOf(e.call)'
                        /\ stage'[e.call] \in {"Allowed", "remove"} \/ e.call \in late'.kept
    BY <1>1, <1>3, <2>1, <2>2, <2>3 DEF LogInv, EntryOf
  <2>5. \A d \in late'.kept : stage'[d] \in {"Limited", "Failed"}
    BY <1>1, <1>3 DEF LogInv, TypeOK
  <2>6. QED
    BY <2>2, <2>4, <2>5 DEF LogInv
<1>6. Executed \subseteq Executed'
  BY <1>1, <1>3 DEF Executed, TypeOK
<1>7. \A d \in Calls : stage'[d] = "Allowed" =>
          stage[d] = "Allowed" /\ (EntryOf(d) \in log => EntryOf(d) \in log')
  BY <1>3 DEF EntryOf
<1>8. LoggedInv'
  BY <1>6, <1>7 DEF LoggedInv, EntryOf
<1>9. QED
  BY <1>2, <1>4, <1>5, <1>8

LEMMA FailIInv ==
    ASSUME IInv, NEW c \in Calls, Fail(c)
    PROVE  IInv'
<1>1. CASE UNCHANGED <<log, expires>> /\ late' = IF stage[c] = "remove"
              THEN [late EXCEPT !.kept = @ \cup {c}] ELSE late
  BY <1>1, RemovedIInv DEF Fail
<1>2. CASE /\ stage[c] = "pipeline" /\ log' = Added(c) /\ expires' = now + 2 * Window
           /\ late' = [late EXCEPT !.kept = @ \cup {c}]
  <2>1. late' \in [overtaken: SUBSET Calls, slow: SUBSET Calls, kept: SUBSET Calls]
        /\ late'.kept = late.kept \cup {c}
    BY <1>2 DEF IInv, TypeOK
  <2>2. stage' = [stage EXCEPT ![c] = "Failed"] /\ UNCHANGED <<now, stamp>>
    BY DEF Fail
  <2>3. QED
    BY <1>2, <2>1, <2>2, RunsIInv
<1>3. QED
  BY <1>1, <1>2 DEF Fail

LEMMA TimeIInv ==
    ASSUME IInv, Expire \/ Tick \/ UNCHANGED vars
    PROVE  IInv'
<1> USE DEF IInv
<1>1. CASE Expire
  <2>1. TypeOK' /\ ClockInv' /\ LogInv'
    BY <1>1, FS_EmptySet DEF Expire, TypeOK, ClockInv, LogInv
  <2>2. \A c \in Calls : stage[c] = "Allowed" => now >= stamp[c] + 2 * Window
    BY <1>1, LimiterAssumption DEF Expire, LoggedInv, TypeOK
  <2>3. LoggedInv'
    BY <1>1, <2>2 DEF Expire, LoggedInv
  <2>4. QED
    BY <2>1, <2>3
<1>2. CASE Tick
  <2>1. TypeOK'
    BY <1>2, LimiterAssumption DEF Tick, TypeOK
  <2>2. ClockInv'
    BY <1>2, LimiterAssumption DEF Tick, TypeOK, ClockInv
  <2>3. LogInv'
    BY <1>2 DEF Tick, LogInv, EntryOf
  <2>4. Executed' = Executed
    BY <1>2 DEF Tick, Executed
  <2>5. \A c \in Calls : now >= stamp[c] + 2 * Window => now' >= stamp[c] + 2 * Window
    BY <1>2, LimiterAssumption DEF Tick, TypeOK
  <2>6. LoggedInv'
    BY <1>2, <2>4, <2>5 DEF Tick, LoggedInv, EntryOf
  <2>7. QED
    BY <2>1, <2>2, <2>3, <2>6
<1>3. CASE UNCHANGED vars
  BY <1>3 DEF vars, TypeOK, ClockInv, LogInv, LoggedInv, EntryOf, Executed
<1>4. QED
  BY <1>1, <1>2, <1>3

LEMMA NextIInv == IInv /\ [Next]_vars => IInv'
<1> SUFFICES ASSUME IInv, [Next]_vars PROVE IInv'
  OBVIOUS
<1>1. ASSUME NEW c \in Calls, Remove(c) PROVE IInv'
  BY <1>1, RemovedIInv DEF Remove
<1>2. QED
  BY <1>1, ReadClockIInv, PipelineIInv, FailIInv, TimeIInv DEF Next, Done

\* The types, clocks, entries and histories are as IInv says.
THEOREM IInvCorrect == Spec => []IInv
<1>1. QED
  BY InitIInv, NextIInv, PTL DEF Spec

\* Type correctness of the rate limiter.
THEOREM TypeCorrect == Spec => []TypeOK
<1>1. IInv => TypeOK
  BY DEF IInv
<1>2. QED
  BY <1>1, IInvCorrect, PTL

\* An allowed call is counted until a call that is a full window younger has
\* run, or two windows have gone by, whatever fails and whoever is refused.
THEOREM AllowedStaysLoggedCorrect == Spec => []AllowedStaysLogged
<1>1. IInv => AllowedStaysLogged
  <2> SUFFICES ASSUME IInv, NEW c \in Calls, stage[c] = "Allowed",
                      NEW d \in Executed, stamp[d] >= stamp[c] + Window
               PROVE  \E x \in Calls : stage[x] # "connect" /\ stamp[x] >= stamp[c] + Window
    BY DEF IInv, LoggedInv, AllowedStaysLogged, EntryOf
  <2>1. d \in Calls /\ stage[d] # "connect"
    BY DEF Executed, IInv, LogInv, TypeOK
  <2>2. QED
    BY <2>1
<1>2. QED
  BY <1>1, IInvCorrect, PTL

-----------------------------------------------------------------------------
(* The window. *)

\* What counts in the window that ends at t.
Counted(t) == AllowedIn(t) \ (late.overtaken \cup late.slow)

\* A call that is allowed in order finds every other one of its window in the
\* log.
LEMMA InOrderCounts ==
    ASSUME IInv, NEW c \in Calls, Pipeline(c), NEW t \in 0..MaxTime, c \in Counted(t)',
           NEW d \in Counted(t)'
    PROVE  EntryOf(d) \in Added(c)
<1> USE DEF IInv
<1>1. /\ stamp[c] <= t /\ t < stamp[c] + Window /\ c \notin late'.overtaken \cup late'.slow
      /\ d \in Calls /\ stage'[d] = "Allowed" /\ stamp[d] <= t /\ t < stamp[d] + Window
  BY DEF Counted, AllowedIn, Pipeline
<1>2. CASE d = c
  BY <1>2, AddedOK
<1>3. CASE d # c
  <2>1. stage[d] = "Allowed"
    BY <1>1, <1>3 DEF Pipeline, TypeOK
  <2>2. \A x \in Executed : ~(stamp[x] > stamp[c])
    BY <1>1 DEF Pipeline, TypeOK
  <2>3. Executed \subseteq Calls
    BY DEF Executed, TypeOK
  <2>4. \A x \in Executed : ~(stamp[x] >= stamp[d] + Window)
    BY <1>1, <2>2, <2>3, LimiterAssumption DEF TypeOK
  <2>5. now <= stamp[c] + Window
    BY <1>1, LimiterAssumption DEF Pipeline, TypeOK
  <2>6. ~(now >= stamp[d] + 2 * Window)
    BY <1>1, <2>5, LimiterAssumption DEF TypeOK
  <2>7. EntryOf(d) \in log
    BY <2>1, <2>4, <2>6, <1>1 DEF LoggedInv
  <2>8. stamp[d] + Window > stamp[c]
    BY <1>1, LimiterAssumption DEF TypeOK
  <2>9. QED
    BY <2>7, <2>8, AddedOK DEF EntryOf
<1>4. QED
  BY <1>2, <1>3

\* Distinct calls have distinct entries.
LEMMA AsManyEntries ==
    ASSUME NEW D \in SUBSET Calls, NEW E, IsFiniteSet(E), \A d \in D : EntryOf(d) \in E
    PROVE  IsFiniteSet(D) /\ Cardinality(D) <= Cardinality(E)
<1> DEFINE f == [d \in D |-> EntryOf(d)]
<1>1. f \in Injection(D, E)
  BY DEF Injection, IsInjective, EntryOf
<1>2. QED
  BY <1>1, FS_Injection

LEMMA CountedFinite ==
    ASSUME NEW t
    PROVE  IsFiniteSet(Counted(t)) /\ Cardinality(Counted(t)) \in Nat
<1>1. Counted(t) \subseteq Calls
  BY DEF Counted, AllowedIn
<1>2. QED
  BY <1>1, LimiterAssumption, FS_Subset, FS_CardinalityType

LEMMA NextInOrder == IInv /\ InOrderWindow /\ [Next]_vars => InOrderWindow'
<1> SUFFICES ASSUME IInv, InOrderWindow, [Next]_vars, NEW t \in 0..MaxTime
             PROVE  Cardinality(Counted(t)') <= MaxRequests
  BY DEF InOrderWindow, Counted
<1>1. Cardinality(Counted(t)) <= MaxRequests
  BY DEF InOrderWindow, Counted
<1>2. CASE Counted(t)' \subseteq Counted(t)
  <2>1. Cardinality(Counted(t)') <= Cardinality(Counted(t)) /\ Cardinality(Counted(t)') \in Nat
    BY <1>2, CountedFinite, FS_Subset, FS_CardinalityType
  <2>2. QED
    BY <1>1, <2>1, CountedFinite, LimiterAssumption
<1>3. ASSUME NEW c \in Calls, Pipeline(c), c \in Counted(t)'
      PROVE  Cardinality(Counted(t)') <= MaxRequests
  <2>1. Cardinality(Added(c)) <= MaxRequests
    <3>1. stage'[c] = "Allowed"
      BY <1>3 DEF Counted, AllowedIn
    <3>2. stage'[c] = IF Cardinality(Added(c)) > MaxRequests THEN "remove" ELSE "Allowed"
      BY <1>3 DEF Pipeline, IInv, TypeOK
    <3>3. Cardinality(Added(c)) \in Nat
      BY AddedOK, FS_CardinalityType
    <3>4. QED
      BY <3>1, <3>2, <3>3, LimiterAssumption
  <2>2. \A d \in Counted(t)' : EntryOf(d) \in Added(c)
    BY <1>3, InOrderCounts
  <2>3. Counted(t)' \in SUBSET Calls
    BY DEF Counted, AllowedIn
  <2>4. /\ IsFiniteSet(Counted(t)')
        /\ Cardinality(Counted(t)') <= Cardinality(Added(c))
    BY <2>2, <2>3, AddedOK, AsManyEntries
  <2>5. QED
    BY <2>1, <2>4, AddedOK, FS_CardinalityType, LimiterAssumption
<1>4. ASSUME NEW c \in Calls, Pipeline(c), c \notin Counted(t)'
      PROVE  Counted(t)' \subseteq Counted(t)
  BY <1>4 DEF Counted, AllowedIn, Pipeline, IInv, TypeOK
<1>5. ASSUME NEW c \in Calls, ReadClock(c) \/ Remove(c) \/ Fail(c)
      PROVE  Counted(t)' \subseteq Counted(t)
  <2>1. stage'[c] # "Allowed" /\ \A d \in Calls : d # c => stage'[d] = stage[d] /\ stamp'[d] = stamp[d]
    BY <1>5 DEF ReadClock, Remove, Fail, IInv, TypeOK
  <2>2. late'.overtaken = late.overtaken /\ late'.slow = late.slow
    BY <1>5 DEF ReadClock, Remove, Fail, IInv, TypeOK
  <2>3. QED
    BY <2>1, <2>2 DEF Counted, AllowedIn
<1>6. CASE Expire \/ Tick \/ Done \/ UNCHANGED vars
  <2>1. UNCHANGED <<stage, stamp, late>>
    BY <1>6 DEF Expire, Tick, Done, vars
  <2>2. Counted(t)' = Counted(t)
    BY <2>1 DEF Counted, AllowedIn
  <2>3. QED
    BY <1>2, <2>2
<1>7. QED
  BY <1>2, <1>3, <1>4, <1>5, <1>6 DEF Next

\* The sliding window: of the calls that run in the order of their stamps and
\* within a window of them, at most MaxRequests are allowed in any window,
\* however late other calls run.
THEOREM InOrderWindowCorrect == Spec => []InOrderWindow
<1>1. Init => InOrderWindow
  <2> SUFFICES ASSUME Init, NEW t \in 0..MaxTime PROVE Cardinality(Counted(t)) <= MaxRequests
    BY DEF InOrderWindow, Counted
  <2>1. Counted(t) = {}
    BY DEF Init, Counted, AllowedIn
  <2>2. QED
    BY <2>1, FS_EmptySet, LimiterAssumption
<1>2. QED
  BY <1>1, NextInOrder, IInvCorrect, PTL DEF Spec

-----------------------------------------------------------------------------
(* Refusals. *)

\* The log that a refused call found holds nothing but calls that block it.
LEMMA RefusedStep ==
    ASSUME IInv, NEW c \in Calls, Pipeline(c), stage'[c] = "remove"
    PROVE  Cardinality(Blocking(c)) >= MaxRequests
<1> USE DEF IInv
<1> DEFINE others == log \ Evicted(stamp[c])
           callOf == [e \in others |-> e.call]
<1>1. \A e \in others : /\ e = EntryOf(e.call) /\ e.call \in Calls /\ e.call # c
                        /\ stamp[e.call] + Window > stamp[c]
                        /\ stage[e.call] \in {"Allowed", "remove"} \/ e.call \in late.kept
  <2> TAKE e \in others
  <2>1. e.call \in Calls /\ e.at \in Nat /\ e = EntryOf(e.call)
    BY LimiterAssumption DEF TypeOK, Entry, LogInv
  <2>2. stage[e.call] \in {"Allowed", "remove"} \/ e.call \in late.kept
    BY DEF LogInv
  <2>3. stage[c] = "pipeline" /\ c \notin late.kept
    BY DEF Pipeline, LogInv
  <2>4. e.at = stamp[e.call]
    BY <2>1 DEF EntryOf
  <2>5. ~(e.at + Window <= stamp[c])
    BY DEF Evicted
  <2>6. stamp[e.call] + Window > stamp[c]
    BY <2>1, <2>4, <2>5, LimiterAssumption DEF TypeOK
  <2>7. QED
    BY <2>1, <2>2, <2>3, <2>6
<1>2. \A e \in others : callOf[e] \in Blocking(c)
  BY <1>1 DEF Blocking
<1>3. callOf \in Injection(others, Blocking(c))
  BY <1>1, <1>2 DEF Injection, IsInjective
<1>4. IsFiniteSet(Blocking(c))
  BY LimiterAssumption, FS_Subset DEF Blocking
<1>5. Cardinality(others) <= Cardinality(Blocking(c)) /\ IsFiniteSet(others)
  BY <1>3, <1>4, FS_Injection
<1>6. Cardinality(Added(c)) > MaxRequests
  BY DEF Pipeline, TypeOK
<1>7. EntryOf(c) \notin others
  BY <1>1 DEF EntryOf
<1>8. Cardinality(Added(c)) = Cardinality(others) + 1
  BY <1>5, <1>7, FS_AddElement DEF Added, EntryOf
<1>9. QED
  BY <1>4, <1>5, <1>6, <1>8, FS_CardinalityType, LimiterAssumption

\* A call is refused only when as many others as the limit allows are in its
\* window.
THEOREM RefusedForCauseCorrect == Spec => RefusedForCause
<1> DEFINE Caused == \A c \in Calls : stage[c] # "remove" /\ stage'[c] = "remove"
                        => Cardinality(Blocking(c)) >= MaxRequests
<1>1. IInv /\ [Next]_vars => [Caused]_vars
  <2> SUFFICES ASSUME IInv, Next, NEW c \in Calls, stage[c] # "remove", stage'[c] = "remove"
               PROVE  Cardinality(Blocking(c)) >= MaxRequests
    OBVIOUS
  <2>1. Pipeline(c)
    BY DEF Next, ReadClock, Pipeline, Remove, Fail, Expire, Tick, Done, vars, IInv, TypeOK
  <2>2. QED
    BY <2>1, RefusedStep
<1>2. QED
  BY <1>1, IInvCorrect, PTL DEF Spec, RefusedForCause
=============================================================================
