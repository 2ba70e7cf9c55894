------------------------------ MODULE RateWindows ------------------------------
(***************************************************************************)
(* The limits per user of src/api/middleware/rate_limiter.py: a counter in *)
(* Redis for each clock minute and clock hour, and when a command fails, a *)
(* list of the admissions of the last 60 and 3600 seconds in memory.       *)
(* One user, whose requests overlap; time in ticks.                        *)
(***************************************************************************)
EXTENDS Integers, Sequences, FiniteSets, Lists

CONSTANTS
  Hit,          \* requests of the user
  PerMinute, PerHour,
  MinuteTicks,  \* length of a minute
  HourTicks,    \* and of an hour
  LastTick      \* bound: the clock stops here

ASSUME WindowAssumption ==
  /\ {PerMinute, PerHour, MinuteTicks, HourTicks} \subseteq Nat \ {0}
  /\ LastTick \in Nat

VARIABLES
  clock,
  minuteCount, hourCount,  \* ratelimit:{user}:minute:{n} and hour:{n}
  localMinute, localHour,  \* _local_minute and _local_hour of the user
  hit,                     \* the requests: pc, and the time they took first
  admitted                 \* history: for each request let through, when and how

windowVars == <<clock, minuteCount, hourCount, localMinute, localHour, hit, admitted>>

Time == 0..LastTick

HitPC == {"new", "minute", "hour", "local", "allowed", "refused"}

WindowTypeOK ==
  /\ clock \in Time
  /\ minuteCount \in [Time -> Nat] /\ hourCount \in [Time -> Nat]
  /\ localMinute \in Seq(Time) /\ localHour \in Seq(Time)
  /\ hit \in [Hit -> [pc : HitPC, at : Time]]
  /\ admitted \subseteq [of : Hit, at : Time, via : {"redis", "local"}]

WindowInit ==
  /\ clock = 0
  /\ minuteCount = [t \in Time |-> 0] /\ hourCount = [t \in Time |-> 0]
  /\ localMinute = <<>> /\ localHour = <<>>
  /\ hit = [r \in Hit |-> [pc |-> "new", at |-> 0]]
  /\ admitted = {}

HitAt(r, pc) == hit[r].pc = pc
GoHit(r, pc) == hit' = [hit EXCEPT ![r].pc = pc]

Admit(r, t, via) == admitted' = admitted \cup {[of |-> r, at |-> t, via |-> via]}

-----------------------------------------------------------------------------

Advance ==
  /\ clock < LastTick
  /\ clock' = clock + 1
  /\ UNCHANGED <<minuteCount, hourCount, localMinute, localHour, hit, admitted>>

\* RateLimitMiddleware and check_rate_limit: the time is taken once.
CheckLimit(r) ==
  /\ HitAt(r, "new")
  /\ hit' = [hit EXCEPT ![r] = [pc |-> "minute", at |-> clock]]
  /\ UNCHANGED <<clock, minuteCount, hourCount, localMinute, localHour, admitted>>

Minute(t) == t \div MinuteTicks
Hour(t) == t \div HourTicks

\* INCR of the minute; a refused request has been counted, too.
CountMinute(r) ==
  LET w == Minute(hit[r].at)
  IN  /\ HitAt(r, "minute")
      /\ minuteCount' = [minuteCount EXCEPT ![w] = @ + 1]
      /\ GoHit(r, IF minuteCount'[w] > PerMinute THEN "refused" ELSE "hour")
      /\ UNCHANGED <<clock, hourCount, localMinute, localHour, admitted>>

\* INCR of the hour.
CountHour(r) ==
  LET w == Hour(hit[r].at)
  IN  /\ HitAt(r, "hour")
      /\ hourCount' = [hourCount EXCEPT ![w] = @ + 1]
      /\ \/ hourCount'[w] > PerHour /\ GoHit(r, "refused") /\ UNCHANGED admitted
         \/ hourCount'[w] <= PerHour /\ GoHit(r, "allowed") /\ Admit(r, hit[r].at, "redis")
      /\ UNCHANGED <<clock, minuteCount, localMinute, localHour>>

\* A command raises, before or after it took effect.
CountFails(r) ==
  /\ hit[r].pc \in {"minute", "hour"}
  /\ \/ UNCHANGED <<minuteCount, hourCount>>
     \/ /\ HitAt(r, "minute")
        /\ minuteCount' = [minuteCount EXCEPT ![Minute(hit[r].at)] = @ + 1]
        /\ UNCHANGED hourCount
     \/ /\ HitAt(r, "hour")
        /\ hourCount' = [hourCount EXCEPT ![Hour(hit[r].at)] = @ + 1]
        /\ UNCHANGED minuteCount
  /\ GoHit(r, "local")
  /\ UNCHANGED <<clock, localMinute, localHour, admitted>>

\* The entries of the last n ticks.
Within(s, n) == Those(s, {t \in Time : clock - t < n})

\* _check_local, which does not await.
CheckLocal(r) ==
  /\ HitAt(r, "local")
  /\ LET m == Within(localMinute, MinuteTicks)
         h == Within(localHour, HourTicks)
     IN  \/ /\ Len(m) >= PerMinute
            /\ localMinute' = m /\ UNCHANGED <<localHour, admitted>>
            /\ GoHit(r, "refused")
         \/ /\ Len(m) < PerMinute /\ Len(h) >= PerHour
            /\ localMinute' = m /\ localHour' = h /\ UNCHANGED admitted
            /\ GoHit(r, "refused")
         \/ /\ Len(m) < PerMinute /\ Len(h) < PerHour
            /\ localMinute' = Append(m, clock) /\ localHour' = Append(h, clock)
            /\ GoHit(r, "allowed") /\ Admit(r, clock, "local")
  /\ UNCHANGED <<clock, minuteCount, hourCount>>

WindowNext ==
  \/ Advance
  \/ \E r \in Hit : CheckLimit(r) \/ CountMinute(r) \/ CountHour(r) \/ CountFails(r) \/ CheckLocal(r)

WindowSpec == WindowInit /\ [][WindowNext]_windowVars

-----------------------------------------------------------------------------
(* Properties *)

Admitted(via, from, to) ==
  Cardinality({a \in admitted : a.via = via /\ a.at \in from..to})

\* Requests that overlap are never let through beyond the limits of a clock
\* minute or hour, and the fallback of a process lets through no more than
\* that again, in any minute or hour whatever.
AdmissionsAreBounded ==
  \A t \in Time :
    /\ Admitted("redis", Minute(t) * MinuteTicks, (Minute(t) + 1) * MinuteTicks - 1) <= PerMinute
    /\ Admitted("redis", Hour(t) * HourTicks, (Hour(t) + 1) * HourTicks - 1) <= PerHour
    /\ Admitted("local", t, t + MinuteTicks - 1) <= PerMinute
    /\ Admitted("local", t, t + HourTicks - 1) <= PerHour

\* The lists of the fallback do not grow beyond the limits, however long a
\* process goes without Redis.
LocalListsStaySmall == Len(localMinute) <= PerMinute /\ Len(localHour) <= PerHour

\* The windows hold, in Redis and without it.
WindowsHold == WindowTypeOK /\ AdmissionsAreBounded /\ LocalListsStaySmall
=============================================================================
