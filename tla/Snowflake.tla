------------------------------ MODULE Snowflake ------------------------------
(****************************************************************************)
(* SnowflakeIdGenerator: one instance per process, shared by all requests.  *)
(* A number is the millisecond, the worker and a sequence number within the *)
(* millisecond, packed from high bits to low.                               *)
(*                                                                          *)
(* NextId runs under a lock, so it is one step, except where it spins: then *)
(* it holds the lock and reads the clock again and again, and everyone else *)
(* waits.  The clock is the machine's: it may stand still, jump ahead, or   *)
(* be set back.                                                             *)
(****************************************************************************)
EXTENDS Integers

CONSTANTS
    Callers,        \* requests that may draw a number
    Times,          \* the milliseconds the clock may show, none negative
    Epoch,          \* the millisecond that numbers count from
    Workers,        \* 2 ^ WorkerBits
    Worker,         \* this process's workerId
    MaxSequence,    \* 2 ^ SequenceBits - 1
    None

ASSUME TimesAreNat == Times \subseteq Nat /\ Times # {}
ASSUME FieldsFit ==
    /\ Epoch \in Int
    /\ Workers \in Nat /\ Worker \in 0 .. Workers - 1
    /\ MaxSequence \in Nat
ASSUME NoneIsNoCaller == None \notin Callers

VARIABLES
    clock,      \* DateTimeOffset.UtcNow
    lastMs,     \* _lastMs: -1 in a process that has drawn no number
    sequence,   \* _sequence
    spinner,    \* the caller that spins inside the lock, or None
    drawn       \* what NextId returned to each caller, as millisecond and
                \* sequence, or None

generatorVars == <<clock, lastMs, sequence, spinner, drawn>>

(* The fields do not overlap, so the shifts and ors are sums.              *)
Number(ms, seq) == ((ms - Epoch) * Workers + Worker) * (MaxSequence + 1) + seq

Drawn == [ms : Int, seq : 0 .. MaxSequence]

GeneratorTypeOK ==
    /\ clock \in Times
    /\ lastMs \in Times \cup {-1}
    /\ sequence \in 0 .. MaxSequence
    /\ spinner \in Callers \cup {None}
    /\ drawn \in [Callers -> Drawn \cup {None}]

GeneratorInit ==
    /\ clock \in Times
    /\ lastMs = -1
    /\ sequence = 0
    /\ spinner = None
    /\ drawn = [c \in Callers |-> None]

(* Mutant of Clamped: the clock as it is.                                  *)
ClampedNot == clock

(* A clock that was set back is held at the last millisecond used.         *)
Clamped == IF clock < lastMs THEN lastMs ELSE clock

(* Mutant of Following: without the mask.                                  *)
FollowingUnmasked(seq) == seq + 1

(* _sequence = (_sequence + 1) & MaxSequence                               *)
Following(seq) == (seq + 1) % (MaxSequence + 1)

Return(c, ms, seq) ==
    /\ lastMs' = ms
    /\ sequence' = seq
    /\ drawn' = [drawn EXCEPT ![c] = [ms |-> ms, seq |-> seq]]

(* NextId in a new millisecond, in the one last used, and in the one last  *)
(* used when its sequence is exhausted.                                    *)
NextMillisecond(c) ==
    /\ Clamped # lastMs
    /\ Return(c, Clamped, 0)
    /\ UNCHANGED spinner

SameMillisecond(c) ==
    /\ Clamped = lastMs
    /\ Following(sequence) # 0
    /\ Return(c, lastMs, Following(sequence))
    /\ UNCHANGED spinner

(* The bound of the clock: a spin begins only where time can still pass.   *)
TimeGoesOn == \E t \in Times : t > lastMs

Exhausted(c) ==
    /\ Clamped = lastMs
    /\ Following(sequence) = 0
    /\ TimeGoesOn
    /\ sequence' = 0
    /\ spinner' = c
    /\ UNCHANGED <<lastMs, drawn>>

NextId(c) ==
    /\ spinner = None
    /\ NextMillisecond(c) \/ SameMillisecond(c) \/ Exhausted(c)
    /\ UNCHANGED clock

(* Mutant of LeavesSpin: the loop does not read the clock, so "now" is     *)
(* still the last millisecond.                                             *)
LeavesSpinUnread == LET now == lastMs IN now > lastMs

(* The last turn of the spin: the clock is read once more, and is past.    *)
LeavesSpin == clock > lastMs

Spin(c) ==
    /\ spinner = c
    /\ LeavesSpin
    /\ Return(c, clock, sequence)
    /\ spinner' = None
    /\ UNCHANGED clock

(* A process that starts anew has a new generator, with no memory.         *)
NewGenerator ==
    /\ lastMs' = -1
    /\ sequence' = 0
    /\ spinner' = None
    /\ drawn' = [c \in Callers |-> None]

(* Time passes, or the machine's clock is set.                             *)
ClockJumps ==
    /\ clock' \in Times \ {clock}
    /\ UNCHANGED <<lastMs, sequence, spinner, drawn>>

ClockCatchesUp == ClockJumps /\ clock' > lastMs

(* The greatest number drawn.  While a caller spins the sequence has been  *)
(* reset ahead of the millisecond it will belong to.                       *)
LastNumber ==
    IF spinner = None THEN Number(lastMs, sequence) ELSE Number(lastMs, MaxSequence)
=============================================================================
