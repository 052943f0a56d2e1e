----------------------------------- MODULE Gear ---------------------------------
(***************************************************************************)
(* Gear.cpp, the frame loop: each mainLoop runs the frame's logic, works   *)
(* out in unsigned milliseconds how much of the frame is left, keeps what  *)
(* a frame was late as wait_time_ to be caught up with, and in the time    *)
(* left, if there is any, clears the RefPool and sleeps.  The logic and    *)
(* usleep take what time they take.                                        *)
(***************************************************************************)
EXTENDS Integers

CONSTANTS U32,         \* the values of a uint32_t: 2^32
          FrameMsec,   \* frame_msec_
          Durations,   \* the milliseconds a frame's logic may take
          Short,       \* a bound on those of a frame that is not late by itself
          Oversleep,   \* what usleep may add
          Starts,      \* kit::time() when the loop begins
          MaxTime      \* bound: the time, and begine_time_

ASSUME GearAssumption ==
    /\ FrameMsec \in Nat \ {0} /\ U32 \in Nat /\ U32 > 4 * FrameMsec
    /\ Durations \subseteq Nat
    /\ Short \in 0 .. FrameMsec - 1 /\ Oversleep \subseteq Nat /\ 0 \in Oversleep
    /\ Starts \subseteq Nat /\ MaxTime \in Nat

VARIABLES
    g_begin,    \* begine_time_, uint32_t
    g_wait,     \* wait_time_
    g_now,      \* the milliseconds since the first kit::time()
    g_due,      \* history: begine_time_ before it is cut to 32 bits
    g_debt,     \* history: how late the last frame ended that was longer than Short or slept
    g_unclear   \* history: the frames since then: short, and the pool is not cleared

gearVars == <<g_begin, g_wait, g_now, g_due, g_debt, g_unclear>>

\* begin.
GearInit ==
    /\ g_now \in Starts
    /\ g_begin = (g_now - FrameMsec) % U32 /\ g_due = g_now - FrameMsec
    /\ g_wait = 0 /\ g_debt = 0 /\ g_unclear = 0

\* Mutant of timing: a late frame's lateness is added to what is owed.
timingAdds(begin, end) ==
    LET passed == end - begin
    IN  IF end > begin
          THEN IF passed > FrameMsec THEN [spare |-> 0, wait |-> g_wait + passed - FrameMsec]
               ELSE [spare |-> FrameMsec - passed, wait |-> g_wait]
          ELSE [spare |-> begin - end, wait |-> g_wait]

\* What is left of the frame when the logic ends at end, and the new wait_time_ before it
\* is paid: late by more than a frame, late, or ahead.
timing(begin, end) ==
    LET passed == end - begin
    IN  CASE end > begin /\ passed > FrameMsec -> [spare |-> 0, wait |-> passed - FrameMsec]
          [] end > begin /\ passed <= FrameMsec -> [spare |-> FrameMsec - passed, wait |-> g_wait]
          [] OTHER -> [spare |-> begin - end, wait |-> g_wait]

\* wait_time_ is paid from the time left.  (Where less is owed than is left, spare is
\* reduced by a wait_time_ that is already 0.)
paid(t) == IF t.wait >= t.spare THEN [spare |-> 0, wait |-> t.wait - t.spare]
                                ELSE [t EXCEPT !.wait = 0]

mainLoop(duration, over) ==
    LET begin == (g_begin + FrameMsec) % U32
        end   == g_now + duration
        t     == timing(begin, end % U32)
        r     == paid(t)
        late  == g_now' - (g_due' + FrameMsec)
    IN  /\ end + r.spare + over <= MaxTime /\ g_due + FrameMsec <= MaxTime
        /\ r.spare = 0 => over = 0
        /\ g_begin' = begin /\ g_due' = g_due + FrameMsec
        /\ g_wait' = r.wait
        /\ g_now' = end + r.spare + over
        /\ IF duration > Short \/ r.spare > 0
             THEN g_debt' = (IF late > 0 THEN late ELSE 0) /\ g_unclear' = 0
             ELSE g_debt' = g_debt /\ g_unclear' = g_unclear + 1

GearNext == \E duration \in Durations, over \in Oversleep :
                mainLoop(duration, over)

GearSpec == GearInit /\ [][GearNext]_gearVars

---------------------------------------------------------------------------------
\* Neither of the two times the loop compares has passed 2^32 milliseconds.  (When one has
\* and the other not, their unsigned difference is nearly 2^32: the loop sleeps that long,
\* or takes itself to be that late and neither sleeps nor clears the pool.)
Unwrapped == g_now < U32 /\ g_due < U32

\* However late a frame was, or a sleep, the frames after it that are short pay it back at
\* their rate and then clear the pool again: references do not pile up after one bad frame.
\* (While every frame is longer than FrameMsec, none does.)
PoolClearedAgain ==
    Unwrapped => g_unclear * (FrameMsec - Short) <= g_debt + 2 * FrameMsec
=================================================================================
