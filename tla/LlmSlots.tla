-------------------------------- MODULE LlmSlots --------------------------------
(***************************************************************************)
(* The global LLM semaphore of src/api/middleware/rate_limiter.py: a Redis *)
(* set with one expiry for all its members, taken with SCARD, SADD and     *)
(* EXPIRE, and a set in the memory of the process for when Redis fails.    *)
(*                                                                         *)
(* A request stands for a task that uses the LLM again and again, each     *)
(* time under a new id; an id whose user is gone is only counted.          *)
(***************************************************************************)
EXTENDS Integers, FiniteSets

CONSTANTS
  Caller,      \* tasks that use the LLM
  Process,     \* API processes
  Home,        \* Home[r]: the process r runs in
  MaxSlots,    \* max_concurrent
  MaxTries,    \* polls of 0.5 s that fit into the timeout
  SlotTtl,     \* slot_ttl, in ticks
  SlotFaults,  \* "redis": its commands may fail; "crash": processes may die
  MaxLost      \* bound: ids nobody will remove

ASSUME SlotAssumption ==
  /\ IsFiniteSet(Caller) /\ Home \in [Caller -> Process]
  /\ {MaxSlots, MaxTries, SlotTtl} \subseteq Nat \ {0} /\ MaxLost \in Nat
  /\ SlotFaults \subseteq {"redis", "crash"}

VARIABLES
  slots,       \* ids in the Redis set whose caller may still remove them
  lost,        \* how many others it has
  ttl,         \* its expiry; NoTtl when EXPIRE was never reached
  localSlots,  \* _local_slots of each process, likewise
  localLost,
  caller,      \* the callers: program counter and polls so far
  raced,       \* history: ids added although the set was full by then
  expired,     \* history: callers whose id expired while they used the LLM
  unset        \* history: the one who created the key never sent its EXPIRE

slotVars == <<slots, lost, ttl, localSlots, localLost, caller, raced, expired,
              unset>>

NoTtl == SlotTtl + 1

SlotTypeOK ==
  /\ slots \subseteq Caller /\ raced \subseteq Caller /\ expired \subseteq Caller /\ unset \in BOOLEAN
  /\ lost \in 0..MaxLost /\ ttl \in 0..NoTtl
  /\ localSlots \in [Process -> SUBSET Caller]
  /\ localLost \in [Process -> 0..MaxSlots]
  /\ caller \in [Caller -> [pc : {"idle", "poll", "add", "expire", "local", "held", "release"},
                            tries : 0..MaxTries, via : {"none", "redis", "local"}]]

Away == [pc |-> "idle", tries |-> 0, via |-> "none"]

SlotInit ==
  /\ slots = {} /\ lost = 0 /\ ttl = NoTtl
  /\ localSlots = [p \in Process |-> {}]
  /\ localLost = [p \in Process |-> 0]
  /\ caller = [r \in Caller |-> Away]
  /\ raced = {} /\ expired = {} /\ unset = FALSE

At(r, pc) == caller[r].pc = pc

Goto(r, pc) == caller' = [caller EXCEPT ![r].pc = pc]

\* SCARD.
Card == Cardinality(slots) + lost

LocalCard(p) == Cardinality(localSlots[p]) + localLost[p]

\* The callers in gone forget their ids, and what Redis has of them is lost.
Leave(gone) ==
  /\ lost + Cardinality(slots \cap gone) <= MaxLost
  /\ slots' = slots \ gone
  /\ lost' = lost + Cardinality(slots \cap gone)
  /\ raced' = raced \ gone /\ expired' = expired \ gone
  /\ caller' = [r \in Caller |-> IF r \in gone THEN Away ELSE caller[r]]

-----------------------------------------------------------------------------
(* acquire_llm_slot *)

Acquire(r) ==
  /\ At(r, "idle")
  /\ Goto(r, "poll")
  /\ UNCHANGED <<slots, lost, ttl, localSlots, localLost, raced, expired, unset>>

\* One turn of the loop: SCARD, and a pause when there is no room.
Poll(r) ==
  /\ At(r, "poll")
  /\ \/ caller[r].tries = MaxTries /\ caller' = [caller EXCEPT ![r] = Away]
     \/ caller[r].tries < MaxTries /\ Card < MaxSlots /\ Goto(r, "add")
     \/ /\ caller[r].tries < MaxTries /\ Card >= MaxSlots
        /\ caller' = [caller EXCEPT ![r].tries = @ + 1]
  /\ UNCHANGED <<slots, lost, ttl, localSlots, localLost, raced, expired, unset>>

\* SADD, which creates a key without expiry.
Add(r) ==
  /\ At(r, "add")
  /\ slots' = slots \cup {r}
  /\ raced' = IF Card >= MaxSlots THEN raced \cup {r} ELSE raced \ {r}
  /\ ttl' = IF Card = 0 THEN NoTtl ELSE ttl
  /\ unset' = (unset /\ Card > 0)
  /\ Goto(r, "expire")
  /\ UNCHANGED <<lost, localSlots, localLost, expired>>

\* EXPIRE, for all slots of the set.
Renew(r) ==
  /\ At(r, "expire")
  /\ ttl' = IF Card = 0 THEN NoTtl ELSE SlotTtl
  /\ unset' = (unset /\ Card = 0)
  /\ caller' = [caller EXCEPT ![r] = [pc |-> "held", tries |-> 0, via |-> "redis"]]
  /\ UNCHANGED <<slots, lost, localSlots, localLost, raced, expired>>

\* A command raises; an id that was added stays in Redis.
RedisFails(r) ==
  /\ "redis" \in SlotFaults
  /\ caller[r].pc \in {"poll", "add", "expire"}
  /\ unset' = (unset \/ (At(r, "expire") /\ ttl = NoTtl))
  /\ Goto(r, "local")
  /\ UNCHANGED <<slots, lost, ttl, localSlots, localLost, raced, expired>>

\* _acquire_local_slot; a caller that is refused will not release anything.
AcquireLocal(r) ==
  /\ At(r, "local")
  /\ \/ /\ LocalCard(Home[r]) < MaxSlots
        /\ localSlots' = [localSlots EXCEPT ![Home[r]] = @ \cup {r}]
        /\ caller' = [caller EXCEPT ![r] = [pc |-> "held", tries |-> 0, via |-> "local"]]
        /\ UNCHANGED <<slots, lost, raced, expired>>
     \/ /\ LocalCard(Home[r]) >= MaxSlots
        /\ Leave({r})
        /\ UNCHANGED localSlots
  /\ UNCHANGED <<ttl, localLost, unset>>

-----------------------------------------------------------------------------
(* release_llm_slot *)

Finish(r) ==
  /\ At(r, "held")
  /\ Goto(r, "release")
  /\ UNCHANGED <<slots, lost, ttl, localSlots, localLost, raced, expired, unset>>

\* Mutant: the whole key is deleted.
ReleaseKey(r) ==
  /\ At(r, "release")
  /\ slots' = {} /\ lost' = 0 /\ ttl' = NoTtl
  /\ localSlots' = [localSlots EXCEPT ![Home[r]] = @ \ {r}]
  /\ raced' = {} /\ expired' = expired \ {r}
  /\ caller' = [caller EXCEPT ![r] = Away]
  /\ UNCHANGED <<localLost, unset>>

\* SREM works, and a local slot of this id is not looked for; or it fails, and
\* then only the local set is.
Release(r) ==
  LET p == Home[r]
  IN  /\ At(r, "release")
      /\ \/ /\ slots' = slots \ {r} /\ lost' = lost
            /\ raced' = raced \ {r} /\ expired' = expired \ {r}
            /\ caller' = [caller EXCEPT ![r] = Away]
            /\ localLost' = [localLost EXCEPT ![p] = IF r \in localSlots[p] THEN @ + 1 ELSE @]
         \/ "redis" \in SlotFaults /\ Leave({r}) /\ UNCHANGED localLost
      /\ ttl' = IF Cardinality(slots') + lost' = 0 THEN NoTtl ELSE ttl
      /\ localSlots' = [localSlots EXCEPT ![p] = @ \ {r}]
      /\ UNCHANGED unset

-----------------------------------------------------------------------------
(* Time and crashes *)

\* The expiry runs, and takes every slot with it when it ends.
Tick ==
  /\ ttl # NoTtl
  /\ \/ /\ ttl > 1
        /\ ttl' = ttl - 1
        /\ UNCHANGED <<slots, lost, raced, expired>>
     \/ /\ ttl = 1
        /\ ttl' = NoTtl
        /\ slots' = {} /\ lost' = 0 /\ raced' = {}
        /\ expired' = expired \cup slots
  /\ UNCHANGED <<localSlots, localLost, caller, unset>>

\* A process dies: its memory is gone, its ids in Redis are not.
Crash(p) ==
  LET gone == {r \in Caller : Home[r] = p}
  IN  /\ "crash" \in SlotFaults
      /\ \E r \in gone : ~At(r, "idle")
      /\ Leave(gone)
      /\ localSlots' = [localSlots EXCEPT ![p] = {}]
      /\ localLost' = [localLost EXCEPT ![p] = 0]
      /\ unset' = (unset \/ (ttl = NoTtl /\ \E r \in gone : At(r, "expire")))
      /\ UNCHANGED ttl

SlotStep(r) ==
  Poll(r) \/ Add(r) \/ Renew(r) \/ AcquireLocal(r) \/ Finish(r) \/ Release(r)

SlotNext ==
  \/ \E r \in Caller : Acquire(r) \/ SlotStep(r) \/ RedisFails(r)
  \/ Tick
  \/ \E p \in Process : Crash(p)

\* The loop of a process runs its tasks and its calls end; time passes.
SlotFairness == WF_slotVars(Tick) /\ \A r \in Caller : WF_slotVars(SlotStep(r))

SlotSpec == SlotInit /\ [][SlotNext]_slotVars /\ SlotFairness

-----------------------------------------------------------------------------
(* Properties *)

Using(via) == {r \in Caller : caller[r].pc \in {"held", "release"} /\ caller[r].via = via}

\* The limit holds in Redis, but for callers that passed the SCARD of another
\* (rate_limiter.py, lines 156 and 158) and those whose id expired under them;
\* a process that fell back to its own memory adds at most the limit again.
LimitHoldsUnlessRaced ==
  /\ Cardinality(Using("redis") \ (raced \cup expired)) <= MaxSlots
  /\ \A p \in Process : Cardinality({r \in Using("local") : Home[r] = p}) <= MaxSlots

\* Whoever uses the LLM is counted where it was admitted, until its id expires:
\* no release, crash or expiry of another takes its slot away.
UsersAreCounted ==
  /\ Using("redis") \ expired \subseteq slots
  /\ \A r \in Using("local") : r \in localSlots[Home[r]]

\* A caller that has gone holds no slot under its own id: what is left behind
\* is in lost, which expires, or in localLost, which only a restart clears.
NobodyElseIsCounted ==
  \A r \in Caller : At(r, "idle") \/ At(r, "poll") =>
    r \notin slots /\ r \notin localSlots[Home[r]]

\* The slots of crashed processes come back when nobody asks for one any more,
\* since every new slot renews the expiry of all ("auto-expire slots for crash
\* recovery"), unless whoever created the key never sent its EXPIRE.
QuietSlotsComeBack ==
  <>[](\A r \in Caller : At(r, "idle")) => <>[](lost = 0 \/ unset)

\* Nobody waits for a slot for ever.
AcquireAnswers == \A r \in Caller : At(r, "poll") ~> ~At(r, "poll")

\* What releasing is for: a caller that has given its slot back leaves nothing.
ReleaseGivesBack == \A p \in Process : localLost[p] = 0

\* The slots are counted: whoever uses the LLM is, nobody else is under its own
\* id, and so the limit holds but for the races and expiries it names.
SlotsAreCounted ==
  SlotTypeOK /\ LimitHoldsUnlessRaced /\ UsersAreCounted /\ NobodyElseIsCounted
=============================================================================
