----------------------------- MODULE RateLimit -----------------------------
(***************************************************************************)
(* The RateLimiter of one connection to the server (ws.rs), and what is    *)
(* checked of a message before it is handled: its size, then the rate.     *)
(* Time goes by in ticks, a few to the second.                             *)
(***************************************************************************)
EXTENDS Integers, Sequences

CONSTANTS
  MaxMessages,  \* MAX_MESSAGES_PER_SECOND
  Second,       \* a second, in ticks
  Horizon       \* bound on the time

ASSUME RateAssumption == MaxMessages \in Nat \ {0} /\ Second \in Nat \ {0} /\ Horizon \in Nat

VARIABLES
  now,       \* the clock
  tokens, lastRefill,
  admitted   \* history: when each message that the limiter let through came

rateVars == <<now, tokens, lastRefill, admitted>>

RateTypeOK ==
  /\ now \in 0..Horizon /\ lastRefill \in 0..now
  /\ tokens \in 0..MaxMessages
  /\ admitted \in Seq(Nat)

RateInit ==
  /\ now = 0 /\ lastRefill = 0
  /\ tokens = MaxMessages
  /\ admitted = <<>>

Tick ==
  /\ now < Horizon
  /\ now' = now + 1
  /\ UNCHANGED <<tokens, lastRefill, admitted>>

\* Mutant of Refill: the window is not restarted.
RefillOnly ==
  IF now - lastRefill >= Second
    THEN tokens' = MaxMessages - 1 /\ UNCHANGED lastRefill
    ELSE tokens' = tokens - 1 /\ UNCHANGED lastRefill

\* The window restarts at the first message after its end; one token is taken.
Refill ==
  IF now - lastRefill >= Second
    THEN tokens' = MaxMessages - 1 /\ lastRefill' = now
    ELSE tokens' = tokens - 1 /\ UNCHANGED lastRefill

\* A message that is not too long, with a token left or a new window.
Admit ==
  /\ tokens > 0 \/ now - lastRefill >= Second
  /\ Refill
  /\ admitted' = Append(admitted, now)
  /\ UNCHANGED now

\* A message that is too long, or comes too soon: it is answered with an Error and
\* takes no token.
Reject == UNCHANGED rateVars

RateNext == Tick \/ Admit \/ Reject

RateSpec == RateInit /\ [][RateNext]_rateVars

\* ws.rs, the comment of RateLimiter: at a boundary of its window the limiter lets through
\* twice the limit within a second, and never more.
BurstBounded ==
  \A i \in 1..(Len(admitted) - 2 * MaxMessages) :
    admitted[i + 2 * MaxMessages] - admitted[i] >= Second
=============================================================================
