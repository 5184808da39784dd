---------------------------- MODULE TokenBucket ----------------------------
(***************************************************************************)
(* The token bucket that the rate limiter keeps in Redis for one API key:  *)
(* a Lua script, atomic in Redis, that refills the bucket by the time      *)
(* since its last use and takes one token.  The time is the API server's,  *)
(* in whole seconds, read when the script is sent; one server sends all    *)
(* scripts, in order, over one connection, and its clock does not go back. *)
(*                                                                         *)
(* Amounts are in sixtieths of a token, so that the refill per second is   *)
(* the tier's rpm.                                                         *)
(***************************************************************************)
EXTENDS Integers, Sequences

CONSTANTS RPM, BURST,   \* the limits of the key's tier
          TTL,          \* EXPIRE of the bucket, in seconds
          LATENCY,      \* seconds a script may be on its way at most
          MaxClock, MaxInFlight, MaxErrors  \* bounds

TOKEN == 60
CAP == TOKEN * BURST

ASSUME LimitAssumption == RPM \in Nat \ {0} /\ BURST \in Nat \ {0}
ASSUME TimeAssumption == TTL \in Nat /\ LATENCY \in Nat /\ MaxClock \in Nat
ASSUME BoundAssumption == MaxInFlight \in Nat /\ MaxErrors \in Nat
\* A bucket is full again before it expires: in the code TTL is 3600 seconds
\* and every tier refills its burst in two minutes or less.
ASSUME RefillAssumption == LATENCY <= TTL /\ RPM * (TTL - LATENCY) >= CAP

VARIABLES
  clock,         \* the time
  line,          \* scripts on their way: the time each was given
  tokens, ts,    \* the bucket
  written,       \* when Redis last set its expiry; -1: never
  since,         \* history: the start of a window of time, chosen anywhere
  admitted,      \* history: requests admitted by the bucket in the window
  failedOpen,    \* history: requests admitted because Redis failed
  full, spent    \* history: when a script last found the bucket full, and the
                 \* tokens taken since, that one included

bucket == <<tokens, ts, written>>
account == <<full, spent>>
vars == <<clock, line, bucket, since, admitted, failedOpen, account>>

TypeOK ==
  /\ clock \in Nat
  /\ line \in Seq(Nat)
  /\ tokens \in 0..CAP
  /\ ts \in Nat
  /\ written \in Nat \cup {-1}
  /\ since \in Nat
  /\ admitted \in Nat
  /\ failedOpen \in Nat
  /\ full \in Nat /\ spent \in Nat

Init ==
  /\ clock = 0
  /\ line = <<>>
  /\ tokens = CAP /\ ts = 0 /\ written = -1
  /\ since = 0
  /\ admitted = 0
  /\ failedOpen = 0
  /\ full = 0 /\ spent = 0

-----------------------------------------------------------------------------
Min2(a, b) == IF a <= b THEN a ELSE b
Max2(a, b) == IF a >= b THEN a ELSE b

\* A script is on its way for LATENCY seconds at most.
Tick ==
  /\ clock < MaxClock
  /\ line # <<>> => clock < Head(line) + LATENCY
  /\ clock' = clock + 1
  /\ UNCHANGED <<line, bucket, since, admitted, failedOpen, account>>

\* The middleware reads the time and sends the script.
Send ==
  /\ Len(line) < MaxInFlight
  /\ line' = Append(line, clock)
  /\ UNCHANGED <<clock, bucket, since, admitted, failedOpen, account>>

-----------------------------------------------------------------------------
(* TOKEN_BUCKET_LUA *)

Expired == written = -1 \/ clock >= written + TTL

\* A missing bucket reads as a full one written now.
Filled(now) ==
  IF Expired THEN CAP ELSE Min2(CAP, tokens + Max2(0, now - ts) * RPM)

\* Deliberate errors: the time of the refill is not stored; a refusal stores
\* the time and not the refill; the tokens left are not looked at.
WriteTokensOnly(now, n) ==
  /\ tokens' = n
  /\ ts' = ts
  /\ written' = clock

DenyTimeOnly(now) ==
  /\ Filled(now) < TOKEN
  /\ tokens' = tokens
  /\ ts' = now
  /\ written' = clock

AllowAlways(now) ==
  /\ tokens' = Filled(now) - TOKEN
  /\ ts' = now
  /\ written' = clock

Write(now, n) ==
  /\ tokens' = n
  /\ ts' = now
  /\ written' = clock

Allow(now) ==
  /\ Filled(now) >= TOKEN
  /\ Write(now, Filled(now) - TOKEN)

Deny(now) ==
  /\ Filled(now) < TOKEN
  /\ Write(now, Filled(now))

-----------------------------------------------------------------------------
(* What the middleware makes of it *)

Answered == line # <<>> /\ line' = Tail(line)

\* Observation only: a script with the time now has taken n tokens.
Book(now, n) ==
  IF Filled(now) = CAP
    THEN full' = now /\ spent' = n
    ELSE full' = full /\ spent' = spent + n

Admit ==
  /\ Answered
  /\ Allow(Head(line)) /\ Book(Head(line), 1)
  /\ admitted' = admitted + 1
  /\ UNCHANGED <<clock, since, failedOpen>>

Reject ==
  /\ Answered
  /\ Deny(Head(line)) /\ Book(Head(line), 0)
  /\ UNCHANGED <<clock, since, admitted, failedOpen>>

\* redis.eval fails, after the script has run or not: the request is let through.
FailOpen ==
  /\ failedOpen < MaxErrors
  /\ Answered
  /\ \/ UNCHANGED <<bucket, account>>
     \/ Allow(Head(line)) /\ Book(Head(line), 1)
     \/ Deny(Head(line)) /\ Book(Head(line), 0)
  /\ failedOpen' = failedOpen + 1
  /\ UNCHANGED <<clock, since, admitted>>

\* Observation only: a window of time starts here.
StartWindow ==
  /\ since' = clock
  /\ admitted' = 0
  /\ failedOpen' = 0
  /\ UNCHANGED <<clock, line, bucket, account>>

Next == Tick \/ Send \/ Admit \/ Reject \/ FailOpen \/ StartWindow

Spec == Init /\ [][Next]_vars

-----------------------------------------------------------------------------
(* Properties *)

\* In any window of time, wherever it starts, the bucket admits the burst and
\* the refill of the window (and of the seconds a script may be late), however
\* the requests fall and even when the bucket expires and is made anew.
WindowBounded ==
  TOKEN * admitted <= CAP + RPM * (clock - since + LATENCY)

\* A refused request costs nothing: a client that keeps asking while its bucket
\* is empty gets its tokens back as fast as one that waits.
Level == IF Expired THEN CAP ELSE Min2(CAP, tokens + (clock - ts) * RPM)

RejectIsFree == [][Reject => Level' = Level]_vars

\* Nobody is refused who keeps to the limits: a request is refused only if, with
\* it, more was asked for since the bucket was last full than its burst and the
\* refill of that time, however refusals, expiries and late scripts fall.
RefusalIsEarned ==
  [][Reject => TOKEN * (spent + 1) > CAP + RPM * (Head(line) - full)]_vars
=============================================================================
