----------------------------- MODULE CVMAssembler -----------------------------
(***************************************************************************)
(* CVMAssembler: the byte buffer both the code emitter and the ARM64       *)
(* assembler write into.  The constructor rounds the requested capacity up *)
(* to a power of two, one shift per turn of a loop; WriteStream doubles    *)
(* the buffer, at most once, when the next value does not fit, copies what *)
(* was written so far and asserts that there is room now.                  *)
(*                                                                         *)
(* int arithmetic wraps at MaxInt.  Values are the object representations  *)
(* that WriteStream copies: sequences of bytes.                            *)
(***************************************************************************)
EXTENDS Integers, Sequences

CONSTANTS
    Requests,     \* capacities a client asks the constructor for
    Values,       \* what it writes
    Byte,
    Unset,         \* what new char[n] leaves in a byte
    MaxInt        \* INT_MAX

ASSUME MaxIntAssumption == MaxInt \in Nat \ {0}
ASSUME RequestsAssumption == Requests \subseteq 1 .. MaxInt
ASSUME UnsetAssumption == Unset \notin Byte
ASSUME ValuesAssumption == Values \subseteq Seq(Byte) \ {<<>>}

VARIABLES
    want,         \* the constructor's argument
    pos,          \* _pos
    capacity,     \* _capacity, and RoundUp's res before it is stored
    code,         \* _code: offset -> byte, over the whole allocation
    status

vars == <<want, pos, capacity, code, status>>

\* "unallocated": the constructor has left _code uninitialised.  "wild": an
\* uninitialised pointer has been freed.
Status == {"rounding", "open", "unallocated", "aborted", "wild"}

\* n << 1 on an int.
Doubled(n) ==
    IF 2 * n > MaxInt THEN 2 * n - 2 * (MaxInt + 1)
    ELSE IF 2 * n < -(MaxInt + 1) THEN 2 * n + 2 * (MaxInt + 1)
    ELSE 2 * n

-------------------------------------------------------------------------------
Init ==
    /\ want \in Requests
    /\ pos = 0
    /\ capacity = 1
    /\ code = <<>>
    /\ status = "rounding"

\* Mutant: the loop runs on to a power of two above the request.
RoundUp_PastWant ==
    /\ status = "rounding"
    /\ capacity <= want
    /\ capacity' = Doubled(capacity)
    /\ UNCHANGED <<want, pos, code, status>>

\* One turn of RoundUp's loop.
RoundUp ==
    /\ status = "rounding"
    /\ capacity < want
    /\ capacity' = Doubled(capacity)
    /\ UNCHANGED <<want, pos, code, status>>

\* The rest of the constructor: a buffer of one byte is never allocated.
Allocate ==
    /\ status = "rounding"
    /\ capacity >= want
    /\ IF capacity > 1
       THEN /\ code' = [k \in 0 .. (capacity - 1) |-> Unset]
            /\ status' = "open"
       ELSE /\ status' = "unallocated"
            /\ UNCHANGED code
    /\ UNCHANGED <<want, pos, capacity>>

(* WriteStream. *)

\* Mutant: > for >=, as if the last byte of the buffer could be used.
Grows_Strict(v) == pos + Len(v) > capacity

Grows(v) == pos + Len(v) >= capacity
\* Mutant: the capacity is shifted by two.
NewCapacity_Quadruples(v) == IF Grows(v) THEN Doubled(Doubled(capacity)) ELSE capacity

NewCapacity(v) == IF Grows(v) THEN Doubled(capacity) ELSE capacity
Fits(v) == NewCapacity(v) > 0 /\ pos + Len(v) < NewCapacity(v)

\* Mutant: the new buffer is not filled from the old one.
Buffer_Uncopied(v) == IF Grows(v) THEN [k \in 0 .. (NewCapacity(v) - 1) |-> Unset] ELSE code

\* The buffer the value is copied to: a new one holds the first _pos bytes.
Buffer(v) ==
    IF Grows(v)
    THEN [k \in 0 .. (NewCapacity(v) - 1) |-> IF k < pos THEN code[k] ELSE Unset]
    ELSE code

\* Mutant: _capacity is not updated when the buffer grows.
WriteStream_StaleCapacity(v) ==
    /\ status = "open"
    /\ Fits(v)
    /\ code' = [k \in DOMAIN Buffer(v) |->
                   IF k \in pos .. (pos + Len(v) - 1) THEN v[k - pos + 1]
                   ELSE Buffer(v)[k]]
    /\ pos' = pos + Len(v)
    /\ UNCHANGED <<want, capacity, status>>

\* Mutant: a value is laid over the last byte of the one before it.
WriteStream_OneBack(v) ==
    /\ status = "open"
    /\ Fits(v)
    /\ LET at == IF pos = 0 THEN 0 ELSE pos - 1
       IN  /\ code' = [k \in DOMAIN Buffer(v) |->
                         IF k \in at .. (at + Len(v) - 1) THEN v[k - at + 1]
                         ELSE Buffer(v)[k]]
           /\ pos' = at + Len(v)
    /\ capacity' = NewCapacity(v)
    /\ UNCHANGED <<want, status>>

WriteStream(v) ==
    /\ status = "open"
    /\ Fits(v)
    /\ code' = [k \in DOMAIN Buffer(v) |->
                   IF k \in pos .. (pos + Len(v) - 1) THEN v[k - pos + 1]
                   ELSE Buffer(v)[k]]
    /\ capacity' = NewCapacity(v)
    /\ pos' = pos + Len(v)
    /\ UNCHANGED <<want, status>>

\* assert(new_size > 0) or assert(end < _capacity).
\* The program ends there; a growth the second one follows is not kept.
AssertFails(v) ==
    /\ status = "open"
    /\ ~Fits(v)
    /\ status' = "aborted"
    /\ UNCHANGED <<want, pos, capacity, code>>

\* The first write to a one-byte assembler grows it, and deletes _code.
WriteUnallocated ==
    /\ status = "unallocated"
    /\ Values # {}
    /\ status' = "wild"
    /\ UNCHANGED <<want, pos, capacity, code>>

Next ==
    \/ RoundUp \/ Allocate \/ WriteUnallocated
    \/ \E v \in Values : WriteStream(v) \/ AssertFails(v)

Spec == Init /\ [][Next]_vars

\* The constructor runs to its end; nothing obliges a client to write.
FairSpec == Spec /\ WF_vars(RoundUp \/ Allocate)

-------------------------------------------------------------------------------
TypeOK ==
    /\ want \in 1 .. MaxInt
    /\ pos \in Nat
    /\ capacity \in Int
    /\ status \in Status
    /\ status \in {"open", "aborted"} => DOMAIN code = 0 .. (capacity - 1)
    /\ \A k \in DOMAIN code : code[k] \in Byte \cup {Unset}

\* The offsets below _pos hold what was written there: there is always a
\* byte to spare, and no byte below _pos is one that new left uninitialised.
\* It is what GetCode and GetPos hand to the compiler.
Filled ==
    status \in {"open", "aborted"} =>
        /\ pos < capacity
        /\ \A k \in 0 .. (pos - 1) : code[k] \in Byte

\* Doubling once is enough: when no value is longer than the capacity asked
\* for, the two assertions of WriteStream fail only once an int cannot hold
\* the doubled capacity, never because the buffer has grown too little.
AssertsOnlyAtLimit ==
    (status = "aborted" /\ \A v \in Values : Len(v) <= want) =>
        2 * capacity > MaxInt

\* The buffer never takes more than twice what was asked for or written.
Proportionate ==
    status \in {"open", "aborted"} => (capacity < 2 * want \/ capacity <= 2 * pos)

\* The stream of bytes below _pos: growing keeps it, a write appends to it,
\* and nothing else changes it.
Stream == INSTANCE ByteStream WITH written <- [k \in 1 .. pos |-> code[k - 1]]

AppendsOnly == Stream!Spec

\* An int can hold the requested capacity rounded up to a power of two.
Representable == want <= (MaxInt + 1) \div 2

\* RoundUp ends for every such request; for a larger one it shifts res to 0
\* and never returns.
ConstructorReturns == Representable ~> (status # "rounding")
===============================================================================
