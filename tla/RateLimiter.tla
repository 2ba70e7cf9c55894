------------------------------ MODULE RateLimiter -------------------------------
(***************************************************************************)
(* src/api/middleware/rate_limiter.py: both of its limits, that of a       *)
(* user's requests and that of the LLM slots.  They share no state.        *)
(***************************************************************************)
EXTENDS RateWindows, LlmSlots

RateLimiterSpec == WindowSpec /\ SlotSpec

\* Both limits of rate_limiter.py hold, that of requests and that of slots.
LimitsHold == WindowsHold /\ SlotsAreCounted
=============================================================================
