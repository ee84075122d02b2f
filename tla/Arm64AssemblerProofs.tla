------------------------- MODULE Arm64AssemblerProofs -------------------------
(***************************************************************************)
(* Proofs about Arm64Assembler, for every sequence of calls, every size    *)
(* and every size of a page: it keeps its types, what it has emitted lies  *)
(* in the mapping, and no later call changes it.                           *)
(***************************************************************************)
EXTENDS Arm64Assembler, TLAPS

Word == SUBSET (0 .. 31)

\* What has been emitted lies in the mapping, so that AppendsOnly speaks of
\* every word of it.
Inv ==
    /\ TypeOK
    /\ pos = 0 \/ pos <= Mapped

-------------------------------------------------------------------------------
(* Addresses and words. *)

\* ALIGN with the word size leaves aligned addresses where they are.
LEMMA AlignWords ==
    ASSUME NEW n \in Int
    PROVE  /\ Align(n, 4) \in Int /\ Align(n, 4) % 4 = 0
           /\ n % 4 = 0 => Align(n, 4) = n
BY DEF Align

\* The mapping has an end.
LEMMA MappedInt == ASSUME capacity \in Int PROVE Mapped \in Int
<1>1. capacity + Page - 1 \in Int /\ Page \in Nat \ {0}
  BY PageAssumption
<1>2. (capacity + Page - 1) \div Page \in Int
  BY <1>1
<1> QED
  BY <1>1, <1>2 DEF Mapped, Align

\* A shifted value is a word, whatever the value.
LEMMA PutWord == ASSUME NEW v, NEW at PROVE Put(v, at) \in Word
BY DEF Put, Word

\* The encoders make words.
LEMMA EncodersWord ==
    ASSUME NEW op, NEW a, NEW here
    PROVE  /\ Arithmetic(op, a) \in Word /\ Move(op, a) \in Word
           /\ Immediate(op, a) \in Word /\ Transfer(op, a) \in Word
           /\ PreIndex(op, a) \in Word /\ Pair(op, a) \in Word
           /\ Branch(op, a) \in Word /\ Link(a, here) \in Word
<1>1. \A v, at : Put(v, at) \subseteq 0 .. 31
  BY PutWord DEF Word
<1>2. /\ \A h : Opcode(h) \subseteq 0 .. 31
      /\ Operation(op) \subseteq 0 .. 31
      /\ Data(op, a) \subseteq 0 .. 31 /\ BaseReg(op, a) \subseteq 0 .. 31
      /\ {21} \subseteq 0 .. 31
  BY <1>1 DEF Opcode, Operation, Data, BaseReg
<1>3. Arithmetic(op, a) \in Word /\ Move(op, a) \in Word /\ Immediate(op, a) \in Word
  BY <1>1, <1>2 DEF Arithmetic, Move, Immediate, Word
<1>4. Transfer(op, a) \in Word /\ PreIndex(op, a) \in Word /\ Pair(op, a) \in Word
  BY <1>1, <1>2 DEF Transfer, PreIndex, Pair, Word
<1>5. Branch(op, a) \in Word /\ Link(a, here) \in Word
  BY <1>1, <1>2 DEF Branch, Link, Word
<1> QED
  BY <1>3, <1>4, <1>5

\* The wide moves make sequences of words.
LEMMA MovesWords ==
    ASSUME NEW a
    PROVE  MovImm32(a) \in Seq(Word) /\ MovImm64(a) \in Seq(Word)
<1>1. \A h, dst, part : MoveWide(h, dst, part) \in Word
  BY PutWord DEF MoveWide, Opcode, Word
<1>2. \A h, dst, part :
         <<MoveWide(h, dst, part)>> \in Seq(Word) /\ Keep(h, dst, part) \in Seq(Word)
  BY <1>1 DEF Keep
<1>3. \A s, t \in Seq(Word) : s \o t \in Seq(Word)
  OBVIOUS
<1> QED
  BY <1>2, <1>3 DEF MovImm32, MovImm64

-------------------------------------------------------------------------------
(* The invariant. *)

LEMMA InvInit == Init => Inv
<1> SUFFICES ASSUME Init PROVE Inv
  OBVIOUS
<1>1. PICK size \in Sizes : capacity = Align(size, 4)
  BY DEF Init
<1>2. capacity \in Int /\ capacity % 4 = 0
  BY <1>1, SizesAssumption, AlignWords
<1>3. Len(calls) \in Nat
  BY ProgramsAssumption DEF Init
<1>4. DOMAIN memory = {b \in 0 .. (Mapped - 1) : b % 4 = 0}
  BY DEF Init
<1>5. \A x \in DOMAIN memory : memory[x] \subseteq 0 .. 31
  BY DEF Init
<1>6. /\ calls \in Seq(Invocation) /\ next \in 1 .. (Len(calls) + 1)
      /\ pos \in Nat /\ pos % 4 = 0 /\ pos = 0
      /\ snippet \in 0 .. pos /\ snippet % 4 = 0
      /\ status \in Status
  BY <1>3, ProgramsAssumption DEF Init, Status
<1> QED
  BY <1>2, <1>4, <1>5, <1>6 DEF Inv, TypeOK

\* What a call of an encoder is: it passes the assertions and emits words.
Emits ==
    /\ Calls(Encoders)
    /\ \E words \in Seq(Word) : Emit(words)

LEMMA EncodersEmit ==
    ASSUME \/ EmitArithmetic \/ EmitMove \/ EmitImmediate \/ EmitTransfer \/ EmitPreIndex
           \/ EmitPair \/ EmitBranch \/ EmitLink \/ EmitMovImm32 \/ EmitMovImm64
    PROVE  Emits
<1>1. Calls(Encoders)
  BY DEF EmitArithmetic, EmitMove, EmitImmediate, EmitTransfer, EmitPreIndex, EmitPair,
         EmitBranch, EmitLink, EmitMovImm32, EmitMovImm64, Passes, Calls, Encoders
<1>2. CASE EmitArithmetic \/ EmitMove \/ EmitImmediate \/ EmitTransfer
  <2>1. PICK w \in Word : Emit(<<w>>)
    BY <1>2, EncodersWord DEF EmitArithmetic, EmitMove, EmitImmediate, EmitTransfer
  <2>2. <<w>> \in Seq(Word)
    OBVIOUS
  <2> QED
    BY <1>1, <2>1, <2>2, Zenon DEF Emits
<1>3. CASE EmitPreIndex \/ EmitPair \/ EmitBranch \/ EmitLink
  <2>1. PICK w \in Word : Emit(<<w>>)
    BY <1>3, EncodersWord DEF EmitPreIndex, EmitPair, EmitBranch, EmitLink
  <2>2. <<w>> \in Seq(Word)
    OBVIOUS
  <2> QED
    BY <1>1, <2>1, <2>2, Zenon DEF Emits
<1>4. CASE EmitMovImm32 \/ EmitMovImm64
  BY <1>1, <1>4, MovesWords DEF Emits, EmitMovImm32, EmitMovImm64
<1> QED
  BY <1>2, <1>3, <1>4

\* A snippet begins where the code ends, which is a word's address.
LEMMA SnippetStays ==
    ASSUME Inv, NewCodeSnippet
    PROVE  pos' = pos /\ snippet' = pos
<1>1. pos \in Int /\ pos % 4 = 0
  BY DEF Inv, TypeOK
<1> QED
  BY <1>1, AlignWords DEF NewCodeSnippet

\* Where the words of a step go, when they fit.
LEMMA EmitFits ==
    ASSUME Inv, NEW words \in Seq(Word), Emit(words), pos' # pos \/ memory' # memory
    PROVE  /\ pos' = pos + 4 * Len(words) /\ pos' <= Mapped /\ status' = status
           /\ DOMAIN memory' = DOMAIN memory
           /\ \A x \in DOMAIN memory :
                 memory'[x] = IF x \in pos .. (pos' - 1) THEN words[(x - pos) \div 4 + 1]
                              ELSE memory[x]
<1>1. status = "open" /\ pos + 4 * Len(words) <= Mapped
  BY DEF Emit
<1>2. pos' = pos + 4 * Len(words)
  BY <1>1 DEF Emit
<1>3. status' = status
  BY <1>1 DEF Emit
<1>4. memory' = Stored(words)
  BY <1>1 DEF Emit
<1>5. DOMAIN memory' = DOMAIN memory
  BY <1>4 DEF Stored
<1>6. \A x \in DOMAIN memory :
         memory'[x] = IF x \in pos .. (pos' - 1) THEN words[(x - pos) \div 4 + 1]
                      ELSE memory[x]
  <2>1. pos \in Nat /\ Len(words) \in Nat /\ DOMAIN memory \subseteq Int
    BY MappedInt DEF Inv, TypeOK
  <2>2. TAKE x \in DOMAIN memory
  <2>3. x \in Int
    BY <2>1, <2>2
  <2> QED
    BY <1>2, <1>4, <2>1, <2>3 DEF Stored
<1>7. pos' <= Mapped
  BY <1>1, <1>2
<1> QED
  BY <1>2, <1>3, <1>5, <1>6, <1>7

\* What a step has to show: the mapping and the calls are not its business.
LEMMA Frame ==
    ASSUME Inv, UNCHANGED <<calls, capacity>>,
           next' \in 1 .. (Len(calls) + 1),
           DOMAIN memory' = DOMAIN memory,
           \A x \in DOMAIN memory : memory'[x] \subseteq 0 .. 31,
           pos' \in Nat, pos' % 4 = 0, pos' = 0 \/ pos' <= Mapped,
           snippet' \in 0 .. pos', snippet' % 4 = 0,
           status' \in Status
    PROVE  Inv'
<1>1. Mapped' = Mapped
  BY DEF Mapped
<1>2. calls' \in Seq(Invocation) /\ capacity' \in Int /\ capacity' % 4 = 0
  BY DEF Inv, TypeOK
<1>3. DOMAIN memory' = {b \in 0 .. (Mapped' - 1) : b % 4 = 0}
  BY <1>1 DEF Inv, TypeOK
<1>4. next' \in 1 .. (Len(calls') + 1)
  OBVIOUS
<1>5. \A x \in DOMAIN memory' : memory'[x] \subseteq 0 .. 31
  OBVIOUS
<1>6. pos' = 0 \/ pos' <= Mapped'
  BY <1>1
<1> QED
  BY <1>2, <1>3, <1>4, <1>5, <1>6, Zenon DEF Inv, TypeOK

LEMMA InvStep == Inv /\ [Next]_vars => Inv'
<1> SUFFICES ASSUME Inv, [Next]_vars PROVE Inv'
  OBVIOUS
<1>1. /\ Len(calls) \in Nat /\ next \in 1 .. (Len(calls) + 1)
      /\ pos \in Nat /\ pos % 4 = 0
      /\ pos = 0 \/ pos <= Mapped
      /\ snippet \in 0 .. pos /\ snippet % 4 = 0 /\ Mapped \in Int
      /\ \A x \in DOMAIN memory : memory[x] \subseteq 0 .. 31
      /\ status \in Status
  <2>1. Len(calls) \in Nat /\ next \in 1 .. (Len(calls) + 1)
    BY DEF Inv, TypeOK
  <2>2. Mapped \in Int /\ (pos = 0 \/ pos <= Mapped)
    BY MappedInt DEF Inv, TypeOK
  <2> QED
    BY <2>1, <2>2 DEF Inv, TypeOK
<1>2. ASSUME Emits PROVE Inv'
  <2>1. PICK words \in Seq(Word) : Emit(words)
    BY <1>2 DEF Emits
  <2>2. /\ next' \in 1 .. (Len(calls) + 1)
        /\ UNCHANGED <<calls, snippet, capacity>>
    BY <1>1, <1>2, <2>1 DEF Emits, Calls, Emit
  <2>3. status' \in Status
    BY <1>1, <2>1 DEF Emit, Status
  <2>4. CASE pos' = pos /\ memory' = memory
    BY <1>1, <2>2, <2>3, <2>4, Frame
  <2>5. CASE pos' # pos \/ memory' # memory
    <3>1. /\ pos' = pos + 4 * Len(words) /\ pos' <= Mapped
          /\ DOMAIN memory' = DOMAIN memory
          /\ \A x \in DOMAIN memory :
                memory'[x] = IF x \in pos .. (pos' - 1) THEN words[(x - pos) \div 4 + 1]
                             ELSE memory[x]
      BY <2>1, <2>5, EmitFits
    <3>2. Len(words) \in Nat /\ \A k \in 1 .. Len(words) : words[k] \in Word
      BY <2>1
    <3>3. pos' \in Nat /\ pos' % 4 = 0 /\ pos <= pos' /\ snippet' \in 0 .. pos'
      BY <1>1, <2>2, <3>1, <3>2
    <3>4. \A x \in pos .. (pos' - 1) : (x - pos) \div 4 + 1 \in 1 .. Len(words)
      <4>1. pos \in Nat /\ Len(words) \in Nat /\ pos' = pos + 4 * Len(words)
        BY <1>1, <3>1, <3>2
      <4>2. TAKE x \in pos .. (pos' - 1)
      <4>3. x \in Int /\ 0 <= x - pos /\ x - pos < 4 * Len(words)
        BY <4>1
      <4> QED
        BY <4>1, <4>3
    <3>5. \A x \in DOMAIN memory : memory'[x] \subseteq 0 .. 31
      BY <1>1, <3>1, <3>2, <3>4 DEF Word
    <3> QED
      BY <1>1, <2>2, <2>3, <3>1, <3>3, <3>5, Frame
  <2> QED
    BY <2>4, <2>5
<1>3. CASE Refuse \/ NoRoom
  <2>1. UNCHANGED <<calls, next, memory, pos, snippet, capacity>> /\ status' \in Status
    BY <1>3 DEF Refuse, NoRoom, Status
  <2> QED
    BY <1>1, <2>1, Frame
<1>4. CASE NewCodeSnippet
  <2>1. pos' = pos /\ snippet' = pos
    BY <1>4, SnippetStays
  <2>2. /\ next' \in 1 .. (Len(calls) + 1)
        /\ UNCHANGED <<calls, memory, capacity, status>>
    BY <1>1, <1>4 DEF NewCodeSnippet, Calls
  <2>3. pos' \in Nat /\ pos' % 4 = 0 /\ snippet' \in 0 .. pos' /\ snippet' % 4 = 0
    BY <1>1, <2>1
  <2> QED
    BY <1>1, <2>1, <2>2, <2>3, Frame
<1>5. CASE UNCHANGED vars
  BY <1>1, <1>5, Frame DEF vars
<1> QED
  BY <1>2, <1>3, <1>4, <1>5, EncodersEmit DEF Next

\* The invariant behind the theorems below.
THEOREM InvAlways == Spec => []Inv
BY InvInit, InvStep, PTL DEF Spec

\* Whatever is called, in whatever order and with whatever operands: the
\* assembler's position stays a word's address and what it wrote are words,
\* until it leaves the mapping or an assertion stops it.
THEOREM TypeCorrect == Spec => []TypeOK
<1>1. Inv => TypeOK
  BY DEF Inv
<1> QED
  BY <1>1, InvAlways, PTL

-------------------------------------------------------------------------------
(* What was emitted stays. *)

\* A step writes only where its words go.
LEMMA WritesBehind ==
    ASSUME Inv, [Next]_vars
    PROVE  /\ pos <= pos'
           /\ \A a \in DOMAIN memory : a \in pos .. (pos' - 1) \/ memory'[a] = memory[a]
<1>0. pos \in Nat
  BY DEF Inv, TypeOK
<1>1. CASE pos' = pos /\ memory' = memory
  BY <1>0, <1>1
<1>2. CASE pos' # pos \/ memory' # memory
  <2>1. Emits
    BY <1>2, EncodersEmit, SnippetStays DEF Next, Refuse, NoRoom, NewCodeSnippet, vars
  <2>2. PICK words \in Seq(Word) : Emit(words)
    BY <2>1 DEF Emits
  <2>3. /\ pos' = pos + 4 * Len(words)
        /\ \A a \in DOMAIN memory : a \in pos .. (pos' - 1) \/ memory'[a] = memory[a]
    BY <1>2, <2>2, EmitFits
  <2>4. Len(words) \in Nat
    BY <2>2
  <2>5. pos <= pos'
    BY <1>0, <2>3, <2>4
  <2> QED
    BY <2>3, <2>5
<1> QED
  BY <1>1, <1>2

\* The code of one call is never changed by a later one, and no call writes
\* past the position it leaves, for every sequence of calls: what
\* NewCodeSnippet handed out stays what was emitted there.
THEOREM AppendsOnlyAlways == Spec => AppendsOnly
<1>1. Inv /\ [Next]_vars
         => [/\ pos <= pos'
             /\ \A a \in DOMAIN memory :
                   a \in pos .. (pos' - 1) \/ memory'[a] = memory[a]]_vars
  BY WritesBehind
<1> QED
  BY <1>1, InvAlways, PTL DEF Spec, AppendsOnly
===============================================================================
