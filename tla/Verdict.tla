------------------------------- MODULE Verdict -------------------------------
(***************************************************************************)
(* verdict: error contexts, retries and the wire between them.  A caller    *)
(* runs an operation with with_retry or with_retry_delay.  The operation's  *)
(* error becomes a Context, gathers frames on the way up (the oldest are    *)
(* evicted to the overflow spout of a bounded one), may cross the wire, and *)
(* is resolved by the retry loop.  What the retry returns gathers more      *)
(* frames and crosses the wire again: decode_context keeps its status,      *)
(* from_bytes makes it Dynamic, and so it may be an error of the next       *)
(* caller's operation.                                                      *)
(***************************************************************************)
EXTENDS ByteCast
LOCAL INSTANCE SequencesExt

CONSTANTS
  Attempts,     \* the max_attempts callers ask for
  FrameLimits,  \* the max_frames of bounded contexts
  Base, Cap,    \* arguments of exponential_backoff
  MaxShift,     \* greatest shift of its multiplier: 31
  MaxDuration,  \* Duration::MAX
  MaxContexts,  \* bound: frames a caller adds to a context
  MaxHops       \* bound: times a context crosses the wire

ASSUME VerdictAssumption ==
  /\ Attempts \subseteq Nat /\ FrameLimits \subseteq Nat
  /\ {Base, Cap, MaxShift, MaxDuration, MaxContexts, MaxHops} \subseteq Nat

VARIABLES
  pc,       \* "start", "calling", "wrapping" (the error is on its way up), "waiting",
            \* "ok", "returned" (the retry gave up), "decoded"
  limit,    \* max_attempts
  delayed,  \* with_retry_delay
  attempt,
  waits,    \* the delays so far
  last,     \* last_temp
  ctx,      \* the context that is on its way
  hops

vars == <<pc, limit, delayed, attempt, waits, last, ctx, hops>>

Greater(a, b) == IF a > b THEN a ELSE b
Lesser(a, b) == IF a < b THEN a ELSE b
UsizeMax == (2 * Radix) ^ UsizeWidth - 1

-------------------------------------------------------------------------------
(* Contexts: error is the status its value reports, kept what a collecting overflow
   spout holds, counted what a counting one says.  past, all frames that were added,
   is a history variable. *)

\* ErrorStatusValue: the value of each is its discriminant.
Permanent == 0
Temporary == 1
Exhausted == 2
Statuses  == {Permanent, Temporary, Exhausted}
Dynamic   == 3
IsRetryable(status) == status = Temporary

\* The status of a typed context, or of the error of a Dynamic one.
StatusValue(c) == IF c.status = Dynamic THEN c.error ELSE c.status

NoContext == [none |-> TRUE]

Frame(message) == <<<<1>>, 2, 1, message>>
AttemptFrame(n, max) == Frame(<<1, n, max>>)
IsAttempt(f) == Len(f[4]) = 3

NewContext(e, max, spout) ==
  [error |-> e, frames |-> <<>>, max |-> max, overflow |-> 0, status |-> Dynamic,
   spout |-> spout, kept |-> <<>>, counted |-> 0, past |-> <<>>]

\* Context::new, bounded, bounded_collect and with_overflow
Contexts(e) ==
  {NewContext(e, UsizeMax, "drop")}
    \cup {NewContext(e, Greater(m, 1), s) : m \in FrameLimits, s \in {"drop", "collect", "tee"}}

\* What the overflow spout makes of a frame.
Spilled(c, f) ==
  [c EXCEPT !.kept    = IF c.spout = "drop" THEN @ ELSE Append(@, f),
            !.counted = IF c.spout = "tee" THEN @ + 1 ELSE @]

Pushed(c, f) == [c EXCEPT !.frames = Append(@, f), !.past = Append(@, f)]

\* add_context, of with_ctx, with_ctx_lazy, with_frame and the wrap_ctx forms.
Added(c, f) ==
  IF Len(c.frames) < c.max THEN Pushed(c, f)
  ELSE LET s == Spilled(c, Head(c.frames))
       IN  Pushed([s EXCEPT !.frames = Tail(@), !.overflow = Lesser(@ + 1, UsizeMax)], f)

Transition(c, status) == [c EXCEPT !.status = status]

\* LogRecord
LogRecord(c) ==
  [status |-> StatusValue(c), retryable |-> IsRetryable(StatusValue(c)),
   frames |-> c.frames, overflow |-> c.overflow]

-------------------------------------------------------------------------------
(* The wire *)

StatusType == Enum(U32Width, <<Arm(Permanent, <<>>), Arm(Temporary, <<>>), Arm(Exhausted, <<>>)>>)
FrameType  == Prod(<<Str, U32, U32, Str>>)
Wire       == Prod(<<StatusType, Prim(1), Vec(FrameType), Usize, Usize>>)

WireValue(c) == <<Variant(StatusValue(c) + 1, <<>>), c.error, c.frames, c.max, c.overflow>>
ToBytes(c) == Encode(Wire, WireValue(c))

\* Mutant of Arrived: the count starts again.
ArrivedAnew(c, v, status) ==
  [c EXCEPT !.error = v[2], !.frames = v[3], !.max = Greater(v[4], 1), !.overflow = 0,
            !.status = status, !.spout = "drop", !.kept = <<>>, !.counted = 0]

\* The context that is made of the fields; its overflow spout is a DropSpout.
Arrived(c, v, status) ==
  [c EXCEPT !.error = v[2], !.frames = v[3], !.max = Greater(v[4], 1), !.overflow = v[5],
            !.status = status, !.spout = "drop", !.kept = <<>>, !.counted = 0]

\* Context::from_bytes: the status on the wire is read and dropped.
FromBytes(c) == LET r == DecodeExact(Wire, ToBytes(c)) IN Arrived(c, r.val, Dynamic)

\* decode_context
DecodeContext(c) ==
  LET r == DecodeExact(Wire, ToBytes(c)) IN Arrived(c, r.val, r.val[1].arm - 1)

\* to_vec makes the bytes, and reading makes the fields of them.
CanSend(c) == Fits(Wire, WireValue(c), 0) /\ DecodeExact(Wire, ToBytes(c)).ok

-------------------------------------------------------------------------------
(* Retries *)

\* exponential_backoff
Backoff(n) ==
  Lesser(Lesser(Base * 2 ^ Lesser(Greater(n - 1, 0), MaxShift), MaxDuration), Cap)

Init ==
  /\ pc = "start" /\ limit = 0 /\ delayed = FALSE /\ attempt = 0 /\ waits = <<>>
  /\ last = NoContext /\ ctx = NoContext /\ hops = 0

\* The caller's retry makes its first attempt; the error ctx comes from the operation.
Enter(next) ==
  /\ limit' \in {Greater(n, 1) : n \in Attempts}
  /\ delayed' \in BOOLEAN
  /\ attempt' = 1
  /\ waits' = <<>>
  /\ last' = NoContext
  /\ pc' = next

Start ==
  /\ pc = "start"
  /\ Enter("calling")
  /\ UNCHANGED <<ctx, hops>>

Succeed ==
  /\ pc = "calling"
  /\ pc' = "ok"
  /\ UNCHANGED <<limit, delayed, attempt, waits, last, ctx, hops>>

Fail ==
  /\ pc = "calling"
  /\ \E e \in Statuses : ctx' \in Contexts(e)
  /\ pc' = "wrapping"
  /\ UNCHANGED <<limit, delayed, attempt, waits, last, hops>>

\* One caller above adds what it was doing.
WithContext ==
  /\ pc \in {"wrapping", "returned"}
  /\ Len(SelectSeq(ctx.past, LAMBDA f : ~IsAttempt(f))) < MaxContexts * (hops + 1)
  /\ ctx' = Added(ctx, Frame(<<Len(ctx.past) \div Radix, Len(ctx.past) % Radix>>))
  /\ UNCHANGED <<pc, limit, delayed, attempt, waits, last, hops>>

\* The operation's error has come from another process.
CrossWire ==
  /\ pc = "wrapping" /\ hops < MaxHops
  /\ CanSend(ctx)
  /\ ctx' = FromBytes(ctx)
  /\ hops' = hops + 1
  /\ UNCHANGED <<pc, limit, delayed, attempt, waits, last>>

\* The loop goes on after a temporary error: at once, or after a delay.
Again ==
  IF delayed THEN pc' = "waiting" /\ UNCHANGED attempt
             ELSE pc' = "calling" /\ attempt' = attempt + 1

\* Mutant of Resolve: one attempt too many.
ResolveOneMore ==
  /\ pc = "wrapping" /\ ctx.spout = "drop"
  /\ IF ctx.error = Temporary
     THEN /\ last' = Added(Transition(ctx, Temporary), AttemptFrame(attempt, limit))
          /\ IF attempt <= limit THEN Again /\ ctx' = NoContext
             ELSE /\ ctx' = Transition(last', Exhausted)
                  /\ pc' = "returned"
                  /\ UNCHANGED attempt
     ELSE /\ ctx' = Transition(ctx, ctx.error)
          /\ pc' = "returned"
          /\ UNCHANGED <<attempt, last>>
  /\ UNCHANGED <<limit, delayed, waits, hops>>

\* The attempt ends with the error ctx: only a temporary one is tried again, and only
\* the context of the last attempt is kept.
Resolve ==
  /\ pc = "wrapping" /\ ctx.spout = "drop"
  /\ IF ctx.error = Temporary
     THEN /\ last' = Added(Transition(ctx, Temporary), AttemptFrame(attempt, limit))
          /\ IF attempt < limit THEN Again /\ ctx' = NoContext
             ELSE /\ ctx' = Transition(last', Exhausted)
                  /\ pc' = "returned"
                  /\ UNCHANGED attempt
     ELSE /\ ctx' = Transition(ctx, ctx.error)
          /\ pc' = "returned"
          /\ UNCHANGED <<attempt, last>>
  /\ UNCHANGED <<limit, delayed, waits, hops>>

\* thread::sleep(delay(attempt - 1)), seen from the next attempt
Sleep ==
  /\ pc = "waiting"
  /\ waits' = Append(waits, Backoff(attempt))
  /\ attempt' = attempt + 1
  /\ pc' = "calling"
  /\ UNCHANGED <<limit, delayed, last, ctx, hops>>

\* The caller sends what the retry returned, and the receiver knows it is final ...
SendTyped ==
  /\ pc = "returned" /\ CanSend(ctx)
  /\ ctx' = DecodeContext(ctx)
  /\ pc' = "decoded"
  /\ UNCHANGED <<limit, delayed, attempt, waits, last, hops>>

\* ... or reads it as any error, which its own retry resolves.
SendDynamic ==
  /\ pc = "returned" /\ hops < MaxHops
  /\ CanSend(ctx)
  /\ ctx' = FromBytes(ctx)
  /\ hops' = hops + 1
  /\ Enter("wrapping")

Next ==
  \/ Start \/ Succeed \/ Fail \/ WithContext \/ CrossWire \/ Resolve \/ Sleep
  \/ SendTyped \/ SendDynamic

Spec == Init /\ [][Next]_vars

-------------------------------------------------------------------------------
(* Properties *)

Accounted(c) ==
  LET evicted == Len(c.past) - Len(c.frames)
      arrived == DecodeExact(Wire, ToBytes(c))
  IN  /\ Len(c.frames) <= c.max
      /\ c.frames = SubSeq(c.past, evicted + 1, Len(c.past))
      /\ LogRecord(c).overflow = evicted
      /\ c.spout # "drop" => c.kept = SubSeq(c.past, 1, evicted)
      /\ c.spout = "tee" => c.counted = evicted
      /\ ByteLen(Wire, WireValue(c)) = Len(ToBytes(c))
      /\ arrived.ok /\ LET after == Arrived(c, arrived.val, Dynamic)
                       IN  after.frames = c.frames /\ after.overflow = evicted

\* A context holds the newest frames, at most max_frames of them, and says how many
\* older ones it has evicted: frames and count make up all that was ever added, on
\* this side of the wire or the other, and an overflow spout that collects has the
\* evicted ones in their order (context.rs add_context, to_bytes, from_bytes).
FramesAccounted ==
  \A c \in {ctx, last} : c # NoContext => Accounted(c)

\* A retry calls its operation at most max_attempts times and again only after a
\* temporary error; it sleeps once between two attempts, never shorter than before nor
\* longer than the cap; what it returns cannot be retried, an exhausted one carries the
\* label of the attempt it comes from as the last label added, and keeps its status
\* where it is decoded (retry.rs with_retry, with_retry_delay).
RetryIsHonest ==
  /\ attempt <= limit
  /\ pc = "calling" /\ attempt > 1 => last # NoContext /\ StatusValue(last) = Temporary
  /\ delayed /\ pc \in {"calling", "wrapping", "returned"} => Len(waits) = attempt - 1
  /\ \A i \in DOMAIN waits : waits[i] <= Cap /\ (i > 1 => waits[i - 1] <= waits[i])
  /\ pc \in {"returned", "decoded"} =>
       /\ ~LogRecord(ctx).retryable
       /\ ctx.error = Temporary =>
            /\ StatusValue(ctx) = Exhausted /\ attempt = limit
            /\ LET labels == SelectSeq(ctx.past, IsAttempt)
               IN  labels # <<>> /\ Last(labels) = AttemptFrame(limit, limit)

\* Does not hold (see the README): an error whose retries are exhausted is not retried
\* again by the caller that receives it.
ExhaustedStaysExhausted ==
  pc = "calling" /\ attempt > 1 => \A f \in ToSet(last.past) : IsAttempt(f) =>
    f = Last(SelectSeq(last.past, IsAttempt))

\* Does not hold (see the README): each delay is the base doubled once more, up to the cap.
BackoffDoubles ==
  \A i \in DOMAIN waits : waits[i] = Lesser(Base * 2 ^ (i - 1), Cap)
===============================================================================
