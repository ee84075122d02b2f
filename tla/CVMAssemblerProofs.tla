-------------------------- MODULE CVMAssemblerProofs --------------------------
(***************************************************************************)
(* Proofs about CVMAssembler, for every set of requests and of values and  *)
(* every width of int: the buffer never loses or leaks a byte, one         *)
(* doubling is enough, and it implements a stream of bytes.                *)
(***************************************************************************)
EXTENDS CVMAssembler, SequenceTheorems, TLAPS

\* The inductive invariant: before a buffer is allocated nothing is written,
\* afterwards it is as long as _capacity says and was never made smaller
\* than requested.
Allocated == status \in {"open", "aborted"}

Inv ==
    /\ TypeOK
    /\ Filled
    /\ ~Allocated => (pos = 0 /\ code = <<>>)
    /\ Allocated => capacity >= want
    /\ AssertsOnlyAtLimit

\* A value has at least one byte, and all of it are bytes.
LEMMA ValueBytes ==
    ASSUME NEW v \in Values
    PROVE  /\ v \in Seq(Byte) /\ Len(v) \in Nat /\ Len(v) > 0
           /\ \A k \in 1 .. Len(v) : v[k] \in Byte
BY ValuesAssumption

\* The buffer a value is written to is as long as the new capacity and
\* starts with what was written before (the memcpy of the first _pos bytes).
LEMMA BufferKeeps ==
    ASSUME Inv, status = "open", NEW v \in Values
    PROVE  /\ DOMAIN Buffer(v) = 0 .. (NewCapacity(v) - 1)
           /\ \A k \in DOMAIN Buffer(v) : Buffer(v)[k] \in Byte \cup {Unset}
           /\ Fits(v) => \A k \in 0 .. (pos - 1) :
                            k \in DOMAIN Buffer(v) /\ Buffer(v)[k] = code[k]
<1>1. /\ pos \in Nat /\ capacity \in Int /\ pos < capacity
      /\ DOMAIN code = 0 .. (capacity - 1)
      /\ \A k \in DOMAIN code : code[k] \in Byte \cup {Unset}
      /\ Len(v) \in Nat /\ Len(v) > 0
  BY ValueBytes DEF Inv, TypeOK, Filled
<1>2. NewCapacity(v) \in Int
  BY <1>1, MaxIntAssumption DEF NewCapacity, Doubled
<1>3. CASE Grows(v)
  <2>1. Buffer(v) = [k \in 0 .. (NewCapacity(v) - 1) |-> IF k < pos THEN code[k] ELSE Unset]
    BY <1>3 DEF Buffer
  <2>2. \A k \in 0 .. (NewCapacity(v) - 1) : k < pos => k \in DOMAIN code
    BY <1>1, <1>2
  <2>3. Fits(v) => \A k \in 0 .. (pos - 1) : k \in 0 .. (NewCapacity(v) - 1)
    BY <1>1, <1>2 DEF Fits
  <2> QED
    BY <2>1, <2>2, <2>3, <1>1, <1>2
<1>4. CASE ~Grows(v)
  <2>1. Buffer(v) = code /\ NewCapacity(v) = capacity
    BY <1>4 DEF Buffer, NewCapacity
  <2> QED
    BY <2>1, <1>1
<1> QED
  BY <1>3, <1>4

\* A capacity that an int can double is doubled.
LEMMA DoublesExactly ==
    ASSUME NEW n \in Nat, 2 * n <= MaxInt
    PROVE  Doubled(n) = 2 * n
BY MaxIntAssumption DEF Doubled

\* One doubling makes room, whatever is left of the buffer.
LEMMA OneDoublingFits ==
    ASSUME Inv, status = "open", NEW v \in Values,
           Len(v) <= want, 2 * capacity <= MaxInt
    PROVE  Fits(v)
<1>1. /\ pos \in Nat /\ capacity \in Nat /\ pos < capacity /\ capacity >= want
      /\ Len(v) \in Nat /\ want \in Nat
  BY ValueBytes DEF Inv, TypeOK, Filled, Allocated
<1>2. CASE Grows(v)
  <2>1. NewCapacity(v) = 2 * capacity
    BY <1>1, <1>2, DoublesExactly DEF NewCapacity
  <2> QED
    BY <1>1, <2>1 DEF Fits
<1>3. CASE ~Grows(v)
  BY <1>1, <1>3 DEF Fits, Grows, NewCapacity
<1> QED
  BY <1>2, <1>3

-------------------------------------------------------------------------------
\* Before the constructor's loop nothing is allocated.
LEMMA InvInit == Init => Inv
BY RequestsAssumption, MaxIntAssumption
   DEF Init, Inv, TypeOK, Filled, Allocated, AssertsOnlyAtLimit, Status

\* The constructor's loop, its allocation and WriteStream keep Inv.
LEMMA InvStep == Inv /\ [Next]_vars => Inv'
<1> SUFFICES ASSUME Inv, [Next]_vars PROVE Inv'
  OBVIOUS
<1> USE MaxIntAssumption
<1>1. CASE RoundUp
  BY <1>1 DEF RoundUp, Inv, TypeOK, Filled, Allocated, AssertsOnlyAtLimit, Doubled
<1>2. CASE Allocate
  BY <1>2 DEF Allocate, Inv, TypeOK, Filled, Allocated, AssertsOnlyAtLimit, Status
<1>3. ASSUME NEW v \in Values, WriteStream(v) PROVE Inv'
  <2> DEFINE end == pos + Len(v)
  <2>1. /\ pos \in Nat /\ Len(v) \in Nat /\ Len(v) > 0 /\ capacity \in Nat
        /\ want \in Nat /\ capacity >= want /\ pos < capacity
        /\ \A k \in 0 .. (pos - 1) : code[k] \in Byte
    BY <1>3, ValueBytes DEF Inv, TypeOK, Filled, Allocated, WriteStream
  <2>2. NewCapacity(v) \in Int /\ end < NewCapacity(v) /\ NewCapacity(v) >= capacity
    BY <1>3, <2>1 DEF WriteStream, Fits, NewCapacity, Doubled, Grows
  <2>3. /\ pos' = end /\ capacity' = NewCapacity(v) /\ status' = "open" /\ want' = want
        /\ DOMAIN code' = 0 .. (NewCapacity(v) - 1)
    BY <1>3, BufferKeeps DEF WriteStream
  <2>4. \A k \in DOMAIN code' :
           code'[k] = IF k \in pos .. (end - 1) THEN v[k - pos + 1] ELSE Buffer(v)[k]
    <3>1. code' = [k \in DOMAIN Buffer(v) |->
                     IF k \in pos .. (pos + Len(v) - 1) THEN v[k - pos + 1]
                     ELSE Buffer(v)[k]]
      BY <1>3 DEF WriteStream
    <3> QED
      BY <3>1, <2>1
  <2>5. \A k \in pos .. (end - 1) : v[k - pos + 1] \in Byte
    <3>1. \A k \in pos .. (end - 1) : k - pos + 1 \in 1 .. Len(v)
      BY <2>1
    <3> QED
      BY <3>1, ValueBytes
  <2>6. \A k \in DOMAIN code' : code'[k] \in Byte \cup {Unset}
    BY <1>3, <2>3, <2>4, <2>5, BufferKeeps DEF WriteStream
  <2>7. \A k \in 0 .. (pos' - 1) : code'[k] \in Byte
    <3>1. \A k \in 0 .. (pos - 1) : Buffer(v)[k] = code[k]
      BY <1>3, BufferKeeps DEF WriteStream
    <3>2. \A k \in 0 .. (end - 1) :
             k \in DOMAIN code' /\ (k \in 0 .. (pos - 1) \/ k \in pos .. (end - 1))
      BY <2>1, <2>2, <2>3
    <3> QED
      BY <3>1, <3>2, <2>1, <2>3, <2>4, <2>5
  <2>8. TypeOK'
    BY <2>1, <2>2, <2>3, <2>6 DEF Inv, TypeOK, Status
  <2> QED
    BY <2>1, <2>2, <2>3, <2>7, <2>8 DEF Inv, Filled, Allocated, AssertsOnlyAtLimit
<1>4. ASSUME NEW v \in Values, AssertFails(v) PROVE Inv'
  <2>1. (\A w \in Values : Len(w) <= want) => 2 * capacity > MaxInt
    <3>1. SUFFICES ASSUME \A w \in Values : Len(w) <= want, ~(2 * capacity > MaxInt)
                   PROVE  FALSE
      OBVIOUS
    <3>2. 2 * capacity <= MaxInt
      BY <3>1 DEF Inv, TypeOK
    <3> QED
      BY <1>4, <3>1, <3>2, OneDoublingFits DEF AssertFails
  <2> QED
    BY <1>4, <2>1 DEF AssertFails, Inv, TypeOK, Filled, Allocated, AssertsOnlyAtLimit, Status
<1>5. CASE WriteUnallocated
  BY <1>5 DEF WriteUnallocated, Inv, TypeOK, Filled, Allocated, AssertsOnlyAtLimit, Status
<1>6. CASE UNCHANGED vars
  BY <1>6 DEF vars, Inv, TypeOK, Filled, Allocated, AssertsOnlyAtLimit
<1> QED
  BY <1>1, <1>2, <1>3, <1>4, <1>5, <1>6 DEF Next

\* The invariant behind the theorems below.
THEOREM InvAlways == Spec => []Inv
BY InvInit, InvStep, PTL DEF Spec

\* Every byte below _pos is one that was written, and _pos never reaches the
\* capacity, however often the buffer grows.
THEOREM FilledAlways == Spec => []Filled
<1>1. Inv => Filled
  BY DEF Inv
<1> QED
  BY <1>1, InvAlways, PTL

\* WriteStream's two assertions fail only when an int cannot hold twice the
\* capacity.
THEOREM AssertsOnlyAtLimitAlways == Spec => []AssertsOnlyAtLimit
<1>1. Inv => AssertsOnlyAtLimit
  BY DEF Inv
<1> QED
  BY <1>1, InvAlways, PTL

\* Every field keeps its type, and an allocated buffer has the length that
\* _capacity says.
THEOREM TypeCorrect == Spec => []TypeOK
<1>1. Inv => TypeOK
  BY DEF Inv
<1> QED
  BY <1>1, InvAlways, PTL

\* The bound on the capacity, which RoundUp has to keep for Allocate: there it
\* is less than twice the request.  The doubling wraps only for a request of
\* more than half of what an int can hold, which bounds what it wraps to.
Bounded ==
    /\ ~Allocated => (capacity < 2 * want /\ (capacity < 1 => 2 * want > MaxInt))
    /\ Proportionate

\* A step keeps the bound: RoundUp doubles only what is below the request, and
\* WriteStream only what the value fills.
LEMMA BoundedStep == Inv /\ Bounded /\ [Next]_vars => Bounded'
<1> SUFFICES ASSUME Inv, Bounded, [Next]_vars PROVE Bounded'
  OBVIOUS
<1> USE MaxIntAssumption
<1>1. /\ pos \in Nat /\ capacity \in Int /\ want \in 1 .. MaxInt
      /\ Allocated => (pos < capacity /\ Proportionate)
  BY DEF Inv, TypeOK, Filled, Allocated, Bounded
<1>2. CASE RoundUp
  BY <1>1, <1>2 DEF RoundUp, Bounded, Proportionate, Doubled, Allocated
<1>3. CASE Allocate
  BY <1>1, <1>3 DEF Allocate, Bounded, Proportionate, Allocated
<1>4. ASSUME NEW v \in Values, WriteStream(v) PROVE Bounded'
  <2>1. /\ Len(v) \in Nat /\ pos' = pos + Len(v) /\ capacity' = NewCapacity(v)
        /\ want' = want /\ status = "open" /\ status' = "open"
        /\ pos < capacity
    BY <1>1, <1>4, ValueBytes DEF WriteStream, Allocated
  <2>2. CASE Grows(v)
    <3>1. capacity' \in Int /\ capacity' <= 2 * capacity
      BY <1>1, <2>1, <2>2 DEF NewCapacity, Doubled
    <3>2. capacity <= pos'
      BY <1>1, <2>1, <2>2 DEF Grows
    <3> QED
      BY <1>1, <2>1, <3>1, <3>2 DEF Bounded, Proportionate, Allocated
  <2>3. CASE ~Grows(v)
    BY <1>1, <2>1, <2>3 DEF NewCapacity, Bounded, Proportionate, Allocated
  <2> QED
    BY <2>2, <2>3
<1>5. ASSUME NEW v \in Values, AssertFails(v) PROVE Bounded'
  BY <1>1, <1>5 DEF AssertFails, Bounded, Proportionate, Allocated
<1>6. CASE WriteUnallocated
  BY <1>1, <1>6 DEF WriteUnallocated, Bounded, Proportionate, Allocated
<1>7. CASE UNCHANGED vars
  BY <1>7 DEF vars, Bounded, Proportionate, Allocated
<1> QED
  BY <1>2, <1>3, <1>4, <1>5, <1>6, <1>7 DEF Next

\* However much is written and wherever the growth happens, the buffer takes
\* no more than twice what was asked for or what has been written.
THEOREM ProportionateAlways == Spec => []Proportionate
<1>1. Init => Bounded
  BY RequestsAssumption, MaxIntAssumption DEF Init, Bounded, Proportionate, Allocated
<1>2. Bounded => Proportionate
  BY DEF Bounded
<1> QED
  BY <1>1, <1>2, InvAlways, BoundedStep, PTL DEF Spec

-------------------------------------------------------------------------------
\* The bytes below _pos, as a sequence.
Written == [k \in 1 .. pos |-> code[k - 1]]

\* A write appends its value to the bytes below _pos.
LEMMA WriteAppends ==
    ASSUME Inv, NEW v \in Values, WriteStream(v)
    PROVE  Written' = Written \o v
<1> DEFINE end == pos + Len(v)
<1>1. /\ pos \in Nat /\ Len(v) \in Nat /\ Len(v) > 0 /\ capacity \in Nat
      /\ v \in Seq(Byte)
  BY ValueBytes DEF Inv, TypeOK, Filled, WriteStream
<1>2. /\ pos' = end /\ status = "open" /\ Fits(v)
      /\ DOMAIN code' = 0 .. (NewCapacity(v) - 1)
      /\ \A k \in DOMAIN code' :
            code'[k] = IF k \in pos .. (end - 1) THEN v[k - pos + 1] ELSE Buffer(v)[k]
  <2>1. pos' = end /\ status = "open" /\ Fits(v)
    BY DEF WriteStream
  <2>2. DOMAIN code' = DOMAIN Buffer(v)
    BY DEF WriteStream
  <2>3. \A k \in DOMAIN code' :
           code'[k] = IF k \in pos .. (end - 1) THEN v[k - pos + 1] ELSE Buffer(v)[k]
    <3>1. code' = [k \in DOMAIN Buffer(v) |->
                     IF k \in pos .. (pos + Len(v) - 1) THEN v[k - pos + 1]
                     ELSE Buffer(v)[k]]
      BY DEF WriteStream
    <3> QED
      BY <3>1, <1>1
  <2> QED
    BY <2>1, <2>2, <2>3, BufferKeeps
<1>3. /\ \A k \in 0 .. (pos - 1) : Buffer(v)[k] = code[k]
      /\ \A k \in 0 .. (pos - 1) : code[k] \in Byte
  BY <1>2, BufferKeeps DEF Inv, Filled
<1>4. \A k \in 0 .. (end - 1) : k \in DOMAIN code'
  BY <1>1, <1>2, MaxIntAssumption DEF Fits, NewCapacity, Doubled
<1>5. Written \in Seq(Byte) /\ Len(Written) = pos
  BY <1>1, <1>3 DEF Written
<1>6. \A k \in 1 .. end : code'[k - 1] = IF k <= pos THEN Written[k] ELSE v[k - pos]
  <2>1. ASSUME NEW k \in 1 .. pos PROVE code'[k - 1] = Written[k]
    <3>1. k - 1 \in 0 .. (pos - 1) /\ k - 1 \in 0 .. (end - 1) /\ k - 1 \notin pos .. (end - 1)
      BY <1>1
    <3> QED
      BY <3>1, <1>2, <1>3, <1>4 DEF Written
  <2>2. ASSUME NEW k \in (pos + 1) .. end PROVE code'[k - 1] = v[k - pos]
    <3>1. k - 1 \in pos .. (end - 1) /\ k - 1 \in 0 .. (end - 1) /\ (k - 1) - pos + 1 = k - pos
      BY <1>1
    <3> QED
      BY <3>1, <1>2, <1>4
  <2> QED
    BY <2>1, <2>2, <1>1
<1>7. Written' = [k \in 1 .. end |-> code'[k - 1]]
  BY <1>2 DEF Written
<1>8. /\ Written \o v \in Seq(Byte) /\ Len(Written \o v) = end
      /\ \A k \in 1 .. end :
            (Written \o v)[k] = IF k <= pos THEN Written[k] ELSE v[k - pos]
  BY <1>1, <1>5, ConcatProperties
<1>9. \A k \in 1 .. end : (Written \o v)[k] \in Byte
  BY <1>1, <1>8
<1>10. Written' \in Seq(Byte) /\ Len(Written') = end
  <2>1. \A k \in 1 .. end : code'[k - 1] \in Byte
    BY <1>6, <1>8, <1>9
  <2>2. end \in Nat
    BY <1>1
  <2> QED
    BY <2>1, <2>2, <1>7
<1>11. \A k \in 1 .. end : Written'[k] = (Written \o v)[k]
  BY <1>6, <1>7, <1>8
<1> QED
  BY <1>8, <1>10, <1>11, SeqEqual

\* The assembler implements a stream of bytes: what the compiler copies out
\* at the end (GetCode, GetPos) is what was written, in order.
THEOREM AppendsOnlyAlways == Spec => AppendsOnly
<1>1. Init => Stream!Init
  BY DEF Init, Stream!Init
<1>2. Inv /\ [Next]_vars => [Stream!Write]_Written
  <2> SUFFICES ASSUME Inv, [Next]_vars
               PROVE  Stream!Write \/ Written' = Written
    OBVIOUS
  <2>1. ASSUME NEW v \in Values, WriteStream(v) PROVE Stream!Write
    BY <2>1, WriteAppends DEF Stream!Write, Written
  <2>2. CASE RoundUp \/ WriteUnallocated \/ \E v \in Values : AssertFails(v)
    BY <2>2 DEF RoundUp, WriteUnallocated, AssertFails, Written
  <2>3. CASE Allocate
    BY <2>3 DEF Allocate, Written, Inv, Allocated
  <2>4. CASE UNCHANGED vars
    BY <2>4 DEF vars, Written
  <2> QED
    BY <2>1, <2>2, <2>3, <2>4 DEF Next
<1> QED
  BY <1>1, <1>2, InvAlways, PTL DEF Spec, AppendsOnly, Stream!Spec, Written
===============================================================================
