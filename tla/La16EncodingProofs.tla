------------------------- MODULE La16EncodingProofs -------------------------
(***************************************************************************)
(* What La16Encoding's run checks on sample values holds for all of them.  *)
(* The word of an assembled line is Encoded(line), and the result of a     *)
(* decoding is Decoded(word): with these two facts as invariant, each      *)
(* property is a statement about the two operators.                        *)
(***************************************************************************)
EXTENDS La16Encoding, TLAPS

Line == [opcode : Opcode, a : Param, b : Param]

EncodingInv ==
  /\ word \in Word32
  /\ line \in Line \cup {NoLine}
  /\ phase \in {"line", "data", "code", "rejected", "decoded", "data decoded"}
  /\ phase \in {"line", "code", "decoded"} => line \in Line
  /\ phase \in {"code", "decoded"} => Accepted(line) /\ word = Encoded(line)
  /\ phase \in {"decoded", "data decoded"} => op = Decoded(word)

(* Writing bits into a word gives a word. *)
LEMMA PutType ==
  ASSUME NEW bits \in Word32, NEW at \in Nat, NEW value \in Short, NEW width \in Nat
  PROVE  Put(bits, at, value, width) \in Word32
BY DEF Put, Word32, Place, Bit

(* Reading bits gives a number that fits in them. *)
LEMMA GetType ==
  ASSUME NEW bits \in Word32, NEW at \in Nat, NEW width \in Nat, width <= 16
  PROVE  Get(bits, at, width) \in Short /\ Fits(Get(bits, at, width), width)
<1>1. \A k \in Index : InCapacity(at, width) /\ k < width => at + k \in Place
  BY DEF InCapacity, Index, Place
<1>2. QED
  BY <1>1 DEF Get, Short, Index, Bit, Fits, Word32

(* The bits just written are the bits read back. *)
LEMMA GetPut ==
  ASSUME NEW bits \in Word32, NEW at \in Nat, NEW value \in Short, NEW width \in Nat,
         width <= 16, at + width <= 32, Fits(value, width),
         \A k \in Place : k >= at => bits[k] = 0
  PROVE  /\ Get(Put(bits, at, value, width), at, width) = value
         /\ \A k \in Place : k >= at + width => Put(bits, at, value, width)[k] = 0
<1>1. InCapacity(at, width)
  BY DEF InCapacity
<1>2. ASSUME NEW k \in Index PROVE Get(Put(bits, at, value, width), at, width)[k] = value[k]
  <2>1. CASE k < width
    <3>1. at + k \in Place /\ (at + k) - at = k /\ k \in 0 .. width - 1 /\ at + k >= at
      BY <2>1 DEF Index, Place
    <3>2. Put(bits, at, value, width)[at + k] = value[k]
      BY <1>1, <3>1 DEF Put, Short, Bit
    <3>3. QED
      BY <1>1, <2>1, <3>2 DEF Get
  <2>2. CASE ~(k < width)
    BY <2>2 DEF Get, Fits, Index
  <2>3. QED
    BY <2>1, <2>2
<1>3. value = [k \in Index |-> value[k]]
  BY DEF Short
<1>4. Get(Put(bits, at, value, width), at, width) = value
  BY <1>2, <1>3 DEF Get
<1>5. ASSUME NEW k \in Place, k >= at + width PROVE Put(bits, at, value, width)[k] = 0
  BY <1>5 DEF Put, Place
<1>6. QED
  BY <1>4, <1>5

(* A later write leaves the bits below it alone. *)
LEMMA GetBelow ==
  ASSUME NEW bits \in Word32, NEW at \in Nat, NEW value \in Short, NEW width \in Nat,
         NEW from \in Nat, NEW size \in Nat, size <= 16, from + size <= at
  PROVE  Get(Put(bits, at, value, width), from, size) = Get(bits, from, size)
<1>1. ASSUME NEW k \in Index, InCapacity(from, size), k < size
      PROVE  Put(bits, at, value, width)[from + k] = bits[from + k]
  <2>1. from + k \in Place /\ ~((from + k) - at \in 0 .. width - 1)
    BY <1>1 DEF InCapacity, Index, Place
  <2>2. QED
    BY <2>1 DEF Put
<1>2. QED
  BY <1>1 DEF Get

-----------------------------------------------------------------------------
(* The mode. *)

Mode == NONE .. IMM8_IMM8

(* A mode is its three bits, and modes differ in them. *)
LEMMA ModeBitsFacts ==
  /\ \A m \in Mode : ModeBits(m) \in Short /\ Fits(ModeBits(m), 3)
  /\ \A m, n \in Mode : ModeBits(m) = ModeBits(n) => m = n
<1>. USE DEF Mode, NONE, IMM8_IMM8
<1>1. \A m \in Mode : ModeBits(m) \in Short /\ Fits(ModeBits(m), 3)
  BY DEF ModeBits, Short, Index, Bit, Fits
<1>2. ASSUME NEW m \in Mode, NEW n \in Mode, ModeBits(m) = ModeBits(n) PROVE m = n
  <2>1. ModeBits(m)[0] = m % 2 /\ ModeBits(n)[0] = n % 2
    BY DEF ModeBits, Index
  <2>2. ModeBits(m)[1] = (m \div 2) % 2 /\ ModeBits(n)[1] = (n \div 2) % 2
    BY DEF ModeBits, Index
  <2>3. ModeBits(m)[2] = (m \div 4) % 2 /\ ModeBits(n)[2] = (n \div 4) % 2
    BY DEF ModeBits, Index
  <2>4. m % 2 = n % 2 /\ (m \div 2) % 2 = (n \div 2) % 2 /\ (m \div 4) % 2 = (n \div 4) % 2
    BY <1>2, <2>1, <2>2, <2>3
  <2>5. QED
    BY <2>4
<1>3. QED
  BY <1>1, <1>2

(* The first eleven bits are opcode and mode, the others are free. *)
LEMMA HeaderFacts ==
  ASSUME NEW opcode \in Short, Fits(opcode, 8), NEW mode \in Mode
  PROVE  /\ Header(opcode, mode) \in Word32
         /\ Get(Header(opcode, mode), 0, 8) = opcode
         /\ Get(Header(opcode, mode), 8, 3) = ModeBits(mode)
         /\ \A k \in Place : k >= FIRST => Header(opcode, mode)[k] = 0
<1>. DEFINE blank == [k \in Place |-> 0]
            first == Put(blank, 0, opcode, 8)
            both  == Put(first, 8, ModeBits(mode), 3)
<1>1. blank \in Word32 /\ \A k \in Place : blank[k] = 0
  BY DEF Word32, Bit
<1>. HIDE DEF blank
<1>2. first \in Word32
  BY <1>1, PutType
<1>3. Get(first, 0, 8) = opcode /\ \A k \in Place : k >= 8 => first[k] = 0
  BY <1>1, GetPut
<1>. HIDE DEF first
<1>4. ModeBits(mode) \in Short /\ Fits(ModeBits(mode), 3)
  BY ModeBitsFacts
<1>5. both \in Word32
  BY <1>2, <1>4, PutType
<1>6. Get(both, 8, 3) = ModeBits(mode) /\ \A k \in Place : k >= 11 => both[k] = 0
  BY <1>2, <1>3, <1>4, GetPut
<1>7. Get(both, 0, 8) = opcode
  BY <1>2, <1>3, <1>4, GetBelow
<1>8. Header(opcode, mode) = both
  BY DEF Header, both, first, blank
<1>9. QED
  BY <1>5, <1>6, <1>7, <1>8 DEF FIRST

-----------------------------------------------------------------------------
(* The assembled word. *)

(* The fields of an operand of a code line. *)
LEMMA ParamFacts ==
  ASSUME NEW p \in Param
  PROVE  /\ p.kind \in {"none", "reg", "imm"}
         /\ p.value \in Short
         /\ p = Operand(p.kind, p.value)
         /\ p.kind = "none" => p = NoOperand
         /\ p.kind = "reg" => Fits(p.value, 5)
BY RegNumberAssumption, ImmediateAssumption
DEF Param, Operand, NoOperand, Zero, Short, Bit

(* An operand's width is one the mode has, and both operands fit after the header. *)
LEMMA ModeFacts ==
  ASSUME NEW a \in Param, NEW b \in Param
  PROVE  /\ ModeOf(a, b) \in Mode
         /\ Width(ModeOf(a, b), a.kind) \in {0, 5, 8, 16}
         /\ Width(ModeOf(a, b), b.kind) \in {0, 5, 8, 16}
         /\ Width(ModeOf(a, b), a.kind) + Width(ModeOf(a, b), b.kind) <= 21
<1>1. a.kind \in {"none", "reg", "imm"} /\ b.kind \in {"none", "reg", "imm"}
  BY ParamFacts
<1>2. QED
  BY <1>1 DEF ModeOf, Width, Mode, NONE, REG, REG_REG, IMM16, IMM16_REG, REG_IMM16, IMM8_IMM8

(* Each field of an assembled word is read back where it was written. *)
LEMMA EncodedFacts ==
  ASSUME NEW l \in Line, Accepted(l)
  PROVE  LET mode == ModeOf(l.a, l.b)
             wa   == Width(mode, l.a.kind)
         IN  /\ Encoded(l) \in Word32
             /\ Get(Encoded(l), 0, 8) = l.opcode
             /\ Get(Encoded(l), 8, 3) = ModeBits(mode)
             /\ mode # NONE =>
                  /\ Get(Encoded(l), FIRST, wa) = l.a.value
                  /\ Get(Encoded(l), FIRST + wa, Width(mode, l.b.kind)) = l.b.value
<1>. DEFINE mode == ModeOf(l.a, l.b)
            wa   == Width(mode, l.a.kind)
            wb   == Width(mode, l.b.kind)
            head == Header(l.opcode, mode)
            one  == Put(head, FIRST, l.a.value, wa)
            two  == Put(one, FIRST + wa, l.b.value, wb)
<1>1. l.a \in Param /\ l.b \in Param /\ l.opcode \in Short /\ Fits(l.opcode, 8)
  BY OpcodeAssumption DEF Line
<1>2. mode \in Mode /\ wa \in {0, 5, 8, 16} /\ wb \in {0, 5, 8, 16} /\ wa + wb <= 21
  BY <1>1, ModeFacts
<1>3. l.a.value \in Short /\ l.b.value \in Short
  BY <1>1, ParamFacts
<1>4. mode # NONE => Fits(l.a.value, wa) /\ Fits(l.b.value, wb)
  BY DEF Accepted
<1>5. Encoded(l) = IF mode = NONE THEN head ELSE two
  BY DEF Encoded
<1>. HIDE DEF mode, wa, wb
<1>6. /\ head \in Word32
      /\ Get(head, 0, 8) = l.opcode
      /\ Get(head, 8, 3) = ModeBits(mode)
      /\ \A k \in Place : k >= FIRST => head[k] = 0
  BY <1>1, <1>2, HeaderFacts
<1>. HIDE DEF head
<1>7. CASE mode = NONE
  BY <1>5, <1>6, <1>7 DEF mode
<1>8. CASE mode # NONE
  <2>. FIRST = 11
    BY DEF FIRST
  <2>1. one \in Word32
    BY <1>2, <1>3, <1>6, PutType
  <2>2. /\ Get(one, FIRST, wa) = l.a.value
        /\ \A k \in Place : k >= FIRST + wa => one[k] = 0
    BY <1>2, <1>3, <1>4, <1>6, <1>8, GetPut
  <2>2a. l.a.value \in Short /\ wa \in Nat
    BY <1>2, <1>3
  <2>3. Get(one, 0, 8) = l.opcode /\ Get(one, 8, 3) = ModeBits(mode)
    <3>1. Get(one, 0, 8) = Get(head, 0, 8)
      BY <1>6, <2>2a, GetBelow
    <3>2. Get(one, 8, 3) = Get(head, 8, 3)
      BY <1>6, <2>2a, GetBelow
    <3>3. QED
      BY <1>6, <3>1, <3>2
  <2>. HIDE DEF one
  <2>3a. FIRST + wa \in Nat /\ wb \in Nat /\ wb <= 16 /\ (FIRST + wa) + wb <= 32
    BY <1>2
  <2>3b. Fits(l.b.value, wb)
    BY <1>4, <1>8
  <2>4. two \in Word32
    BY <1>2, <1>3, <2>1, PutType
  <2>5. Get(two, FIRST + wa, wb) = l.b.value
    BY <1>3, <2>1, <2>2, <2>3a, <2>3b, GetPut
  <2>5a. l.b.value \in Short /\ wa <= 16
    BY <1>2, <1>3
  <2>6. Get(two, 0, 8) = l.opcode /\ Get(two, 8, 3) = ModeBits(mode)
    <3>1. Get(two, 0, 8) = Get(one, 0, 8)
      BY <2>1, <2>2a, <2>3a, <2>5a, GetBelow
    <3>2. Get(two, 8, 3) = Get(one, 8, 3)
      BY <2>1, <2>2a, <2>3a, <2>5a, GetBelow
    <3>3. QED
      BY <2>3, <3>1, <3>2
  <2>7. Get(two, FIRST, wa) = l.a.value
    <3>1. Get(two, FIRST, wa) = Get(one, FIRST, wa)
      BY <2>1, <2>2a, <2>3a, <2>5a, GetBelow
    <3>2. QED
      BY <2>2, <3>1
  <2>. HIDE DEF two
  <2>8. QED
    BY <1>5, <1>8, <2>4, <2>5, <2>6, <2>7 DEF mode, wa, wb
<1>9. QED
  BY <1>7, <1>8

-----------------------------------------------------------------------------
(* Decoding. *)

(* What each mode's three bits select. *)
LEMMA ParamsOfMode ==
  ASSUME NEW bits
  PROVE  /\ Params(bits, ModeBits(NONE)) = <<ImmZero, ImmZero>>
         /\ Params(bits, ModeBits(REG)) = <<RegAt(bits, FIRST), ImmZero>>
         /\ Params(bits, ModeBits(REG_REG)) = <<RegAt(bits, FIRST), RegAt(bits, FIRST + 5)>>
         /\ Params(bits, ModeBits(IMM16)) = <<ImmAt(bits, FIRST, 16), ImmZero>>
         /\ Params(bits, ModeBits(IMM16_REG)) = <<ImmAt(bits, FIRST, 16), RegAt(bits, FIRST + 16)>>
         /\ Params(bits, ModeBits(REG_IMM16)) = <<RegAt(bits, FIRST), ImmAt(bits, FIRST + 5, 16)>>
         /\ Params(bits, ModeBits(IMM8_IMM8)) = <<ImmAt(bits, FIRST, 8), ImmAt(bits, FIRST + 8, 8)>>
<1>. DEFINE Different(m, n) == ModeBits(m) # ModeBits(n)
<1>1. /\ Different(NONE, REG) /\ Different(NONE, REG_REG) /\ Different(NONE, IMM16)
      /\ Different(NONE, IMM16_REG) /\ Different(NONE, REG_IMM16) /\ Different(NONE, IMM8_IMM8)
      /\ Different(REG, REG_REG) /\ Different(REG, IMM16) /\ Different(REG, IMM16_REG)
      /\ Different(REG, REG_IMM16) /\ Different(REG, IMM8_IMM8)
      /\ Different(REG_REG, IMM16) /\ Different(REG_REG, IMM16_REG)
      /\ Different(REG_REG, REG_IMM16) /\ Different(REG_REG, IMM8_IMM8)
      /\ Different(IMM16, IMM16_REG) /\ Different(IMM16, REG_IMM16) /\ Different(IMM16, IMM8_IMM8)
      /\ Different(IMM16_REG, REG_IMM16) /\ Different(IMM16_REG, IMM8_IMM8)
      /\ Different(REG_IMM16, IMM8_IMM8)
  BY ModeBitsFacts DEF Mode, NONE, REG, REG_REG, IMM16, IMM16_REG, REG_IMM16, IMM8_IMM8
<1>2. QED
  BY <1>1, Zenon DEF Params

(* An assembled line decodes to itself, mode by mode. *)
LEMMA DecodedLine ==
  ASSUME NEW l \in Line, Accepted(l), l.a.kind = "none" => l.b.kind = "none"
  PROVE  LET d == Decoded(Encoded(l))
         IN  d.opcode = l.opcode /\ d.a = Meant(l.a) /\ d.b = Meant(l.b)
<1>. DEFINE w    == Encoded(l)
            mode == ModeOf(l.a, l.b)
            p    == Params(w, ModeBits(mode))
<1>1. l.a \in Param /\ l.b \in Param
  BY DEF Line
<1>2. /\ l.a.kind \in {"none", "reg", "imm"} /\ l.b.kind \in {"none", "reg", "imm"}
      /\ l.a = Operand(l.a.kind, l.a.value) /\ l.b = Operand(l.b.kind, l.b.value)
  BY <1>1, ParamFacts
<1>3. /\ Get(w, 0, 8) = l.opcode /\ Get(w, 8, 3) = ModeBits(mode)
      /\ mode # NONE =>
           /\ Get(w, FIRST, Width(mode, l.a.kind)) = l.a.value
           /\ Get(w, FIRST + Width(mode, l.a.kind), Width(mode, l.b.kind)) = l.b.value
  BY EncodedFacts
<1>4. Decoded(w).opcode = l.opcode /\ Decoded(w).a = p[1] /\ Decoded(w).b = p[2]
  BY <1>3 DEF Decoded
<1>. HIDE DEF w
<1>5. CASE l.a.kind = "none"
  <2>1. mode = NONE
    BY <1>5, Zenon DEF ModeOf
  <2>2. p = <<ImmZero, ImmZero>>
    BY <2>1, ParamsOfMode
  <2>3. QED
    BY <1>4, <1>5, <2>2 DEF Meant, w
<1>6. CASE l.a.kind = "reg" /\ l.b.kind = "none"
  <2>1. mode = REG /\ Width(mode, l.a.kind) = 5
    BY <1>6, Zenon DEF ModeOf, Width
  <2>2. p = <<RegAt(w, FIRST), ImmZero>>
    BY <2>1, ParamsOfMode
  <2>3. Get(w, FIRST, 5) = l.a.value
    BY <1>3, <2>1 DEF REG, NONE
  <2>4. QED
    BY <1>2, <1>4, <1>6, <2>2, <2>3 DEF Meant, RegAt, w
<1>7. CASE l.a.kind = "reg" /\ l.b.kind = "reg"
  <2>1. mode = REG_REG /\ Width(mode, l.a.kind) = 5 /\ Width(mode, l.b.kind) = 5
    BY <1>7, Zenon DEF ModeOf, Width
  <2>2. p = <<RegAt(w, FIRST), RegAt(w, FIRST + 5)>>
    BY <2>1, ParamsOfMode
  <2>3. Get(w, FIRST, 5) = l.a.value /\ Get(w, FIRST + 5, 5) = l.b.value
    BY <1>3, <2>1 DEF REG_REG, NONE
  <2>4. QED
    BY <1>2, <1>4, <1>7, <2>2, <2>3 DEF Meant, RegAt, w
<1>8. CASE l.a.kind = "reg" /\ l.b.kind = "imm"
  <2>1. mode = REG_IMM16 /\ Width(mode, l.a.kind) = 5
    BY <1>8, Zenon DEF ModeOf, Width
  <2>2. Width(mode, l.b.kind) = 16
    BY <1>8, <2>1 DEF Width, REG_IMM16, IMM8_IMM8
  <2>3. p = <<RegAt(w, FIRST), ImmAt(w, FIRST + 5, 16)>>
    BY <2>1, ParamsOfMode
  <2>4. Get(w, FIRST, 5) = l.a.value /\ Get(w, FIRST + 5, 16) = l.b.value
    BY <1>3, <2>1, <2>2 DEF REG_IMM16, NONE
  <2>5. QED
    BY <1>2, <1>4, <1>8, <2>3, <2>4 DEF Meant, RegAt, ImmAt, w
<1>9. CASE l.a.kind = "imm" /\ l.b.kind = "none"
  <2>1. mode = IMM16
    BY <1>9, Zenon DEF ModeOf
  <2>2. Width(mode, l.a.kind) = 16
    BY <1>9, <2>1 DEF Width, IMM16, IMM8_IMM8
  <2>3. p = <<ImmAt(w, FIRST, 16), ImmZero>>
    BY <2>1, ParamsOfMode
  <2>4. Get(w, FIRST, 16) = l.a.value
    BY <1>3, <2>1, <2>2 DEF IMM16, NONE
  <2>5. QED
    BY <1>2, <1>4, <1>9, <2>3, <2>4 DEF Meant, ImmAt, w
<1>10. CASE l.a.kind = "imm" /\ l.b.kind = "reg"
  <2>1. mode = IMM16_REG /\ Width(mode, l.b.kind) = 5
    BY <1>10, Zenon DEF ModeOf, Width
  <2>2. Width(mode, l.a.kind) = 16
    BY <1>10, <2>1 DEF Width, IMM16_REG, IMM8_IMM8
  <2>3. p = <<ImmAt(w, FIRST, 16), RegAt(w, FIRST + 16)>>
    BY <2>1, ParamsOfMode
  <2>4. Get(w, FIRST, 16) = l.a.value /\ Get(w, FIRST + 16, 5) = l.b.value
    BY <1>3, <2>1, <2>2 DEF IMM16_REG, NONE
  <2>5. QED
    BY <1>2, <1>4, <1>10, <2>3, <2>4 DEF Meant, RegAt, ImmAt, w
<1>11. CASE l.a.kind = "imm" /\ l.b.kind = "imm"
  <2>1. mode = IMM8_IMM8
    BY <1>11, Zenon DEF ModeOf
  <2>2. Width(mode, l.a.kind) = 8 /\ Width(mode, l.b.kind) = 8
    BY <1>11, <2>1 DEF Width
  <2>3. p = <<ImmAt(w, FIRST, 8), ImmAt(w, FIRST + 8, 8)>>
    BY <2>1, ParamsOfMode
  <2>4. Get(w, FIRST, 8) = l.a.value /\ Get(w, FIRST + 8, 8) = l.b.value
    BY <1>3, <2>1, <2>2 DEF IMM8_IMM8, NONE
  <2>5. QED
    BY <1>2, <1>4, <1>11, <2>3, <2>4 DEF Meant, ImmAt, w
<1>12. QED
  BY <1>2, <1>5, <1>6, <1>7, <1>8, <1>9, <1>10, <1>11

(* Whatever the bits, the operands have the shape of one of the modes. *)
LEMMA ParamsShape ==
  ASSUME NEW bits \in Word32, NEW mode
  PROVE  LET p == Params(bits, mode)
             Short5(o)  == o.kind = "reg" /\ Fits(o.value, 5)
             Short8(o)  == o.kind = "imm" /\ Fits(o.value, 8)
         IN  /\ p = <<p[1], p[2]>>
             /\ \/ p[2] = ImmZero /\ (Short5(p[1]) \/ p[1].kind = "imm")
                \/ Short5(p[1]) /\ (Short5(p[2]) \/ p[2].kind = "imm")
                \/ p[1].kind = "imm" /\ Short5(p[2])
                \/ Short8(p[1]) /\ Short8(p[2])
<1>1. \A at \in {FIRST, FIRST + 5, FIRST + 8, FIRST + 16} :
        /\ Fits(Get(bits, at, 5), 5)
        /\ Fits(Get(bits, at, 8), 8)
  BY GetType DEF FIRST
<1>2. \A at, width : /\ RegAt(bits, at).kind = "reg" /\ RegAt(bits, at).value = Get(bits, at, 5)
                     /\ ImmAt(bits, at, width).kind = "imm"
                     /\ ImmAt(bits, at, width).value = Get(bits, at, width)
                     /\ ImmZero.kind = "imm"
  BY DEF RegAt, ImmAt, ImmZero, Operand
<1>3. \/ Params(bits, mode) = <<ImmZero, ImmZero>>
      \/ Params(bits, mode) = <<RegAt(bits, FIRST), ImmZero>>
      \/ Params(bits, mode) = <<RegAt(bits, FIRST), RegAt(bits, FIRST + 5)>>
      \/ Params(bits, mode) = <<ImmAt(bits, FIRST, 16), ImmZero>>
      \/ Params(bits, mode) = <<ImmAt(bits, FIRST, 16), RegAt(bits, FIRST + 16)>>
      \/ Params(bits, mode) = <<RegAt(bits, FIRST), ImmAt(bits, FIRST + 5, 16)>>
      \/ Params(bits, mode) = <<ImmAt(bits, FIRST, 8), ImmAt(bits, FIRST + 8, 8)>>
  <2>1. CASE \E m \in Mode : mode = ModeBits(m)
    <3>1. PICK m \in Mode : mode = ModeBits(m)
      BY <2>1
    <3>2. m \in {NONE, REG, REG_REG, IMM16, IMM16_REG, REG_IMM16, IMM8_IMM8}
      BY DEF Mode, NONE, REG, REG_REG, IMM16, IMM16_REG, REG_IMM16, IMM8_IMM8
    <3>3. QED
      BY <3>1, <3>2, ParamsOfMode, Zenon
  <2>2. CASE ~\E m \in Mode : mode = ModeBits(m)
    <3>1. {REG, REG_REG, IMM16, IMM16_REG, REG_IMM16, IMM8_IMM8} \subseteq Mode
      BY DEF Mode, NONE, REG, REG_REG, IMM16, IMM16_REG, REG_IMM16, IMM8_IMM8
    <3>2. /\ mode # ModeBits(REG) /\ mode # ModeBits(REG_REG) /\ mode # ModeBits(IMM16)
          /\ mode # ModeBits(IMM16_REG) /\ mode # ModeBits(REG_IMM16)
          /\ mode # ModeBits(IMM8_IMM8)
      BY <2>2, <3>1
    <3>3. Params(bits, mode) = <<ImmZero, ImmZero>>
      BY <3>2, Zenon DEF Params
    <3>4. QED
      BY <3>3
  <2>3. QED
    BY <2>1, <2>2
<1>4. QED
  BY <1>1, <1>2, <1>3

-----------------------------------------------------------------------------
(* The invariant and the theorems. *)

(* The invariant holds at the start. *)
LEMMA InitEncoding == Init => EncodingInv
<1>1. [k \in Place |-> 0] \in Word32
  BY DEF Word32, Bit
<1>2. QED
  BY <1>1, DataAssumption DEF Init, EncodingInv, Line

(* Every step keeps it. *)
LEMMA NextEncoding == EncodingInv /\ [Next]_evars => EncodingInv'
<1>. SUFFICES ASSUME EncodingInv, [Next]_evars PROVE EncodingInv'
  OBVIOUS
<1>1. CASE Assemble
  <2>1. line \in Line /\ Accepted(line)
    BY <1>1 DEF Assemble, EncodingInv
  <2>2. Encoded(line) \in Word32
    BY <2>1, EncodedFacts
  <2>3. QED
    BY <1>1, <2>1, <2>2 DEF Assemble, EncodingInv
<1>2. CASE Reject
  BY <1>2 DEF Reject, EncodingInv
<1>3. CASE Decode
  BY <1>3 DEF Decode, EncodingInv
<1>4. CASE UNCHANGED evars
  BY <1>4 DEF evars, EncodingInv
<1>5. QED
  BY <1>1, <1>2, <1>3, <1>4 DEF Next, Finished

(* So it always holds. *)
LEMMA EncodingHolds == Spec => []EncodingInv
BY InitEncoding, NextEncoding, PTL DEF Spec

(***************************************************************************)
(* The core executes the line the assembler was given, for every opcode,   *)
(* every register and every number.                                        *)
(***************************************************************************)
THEOREM RoundTrip == Spec => []DecodesAsAssembled
<1>1. EncodingInv => DecodesAsAssembled
  BY DecodedLine DEF EncodingInv, DecodesAsAssembled
<1>2. QED
  BY <1>1, EncodingHolds, PTL

(***************************************************************************)
(* The privilege check sees every register operand beyond EL0_MAX and no   *)
(* other, whatever the 32 bits.                                            *)
(***************************************************************************)
THEOREM ChecksEveryRegister == Spec => []PrivilegeSeen
<1>1. ~AboveEL0(Zero)
  BY DEF AboveEL0, Zero, Index
<1>2. ASSUME NEW p
      PROVE  AboveEL0(Regs(p)[1]) \/ AboveEL0(Regs(p)[2]) <=> Privileged(p[1]) \/ Privileged(p[2])
  BY <1>1 DEF Regs, Privileged
<1>3. ASSUME NEW bits
      PROVE  Decoded(bits).privileged
               <=> Privileged(Decoded(bits).a) \/ Privileged(Decoded(bits).b)
  <2>. DEFINE p == Params(bits, Get(bits, 8, 3))
  <2>1. /\ Decoded(bits).a = p[1]
        /\ Decoded(bits).b = p[2]
        /\ Decoded(bits).privileged = (AboveEL0(Regs(p)[1]) \/ AboveEL0(Regs(p)[2]))
    BY DEF Decoded
  <2>. HIDE DEF p
  <2>2. QED
    BY <1>2, <2>1, Zenon
<1>4. EncodingInv => PrivilegeSeen
  BY <1>3, Zenon DEF EncodingInv, PrivilegeSeen
<1>5. QED
  BY <1>4, EncodingHolds, PTL

(***************************************************************************)
(* The decoded operands are among those that La16Core assumes, whatever    *)
(* the 32 bits.                                                            *)
(***************************************************************************)
THEOREM OperandsAreCoded == Spec => []OperandsInRange
<1>1. ASSUME NEW bits \in Word32
      PROVE  LET d == Decoded(bits)
             IN  /\ \A o \in {d.a, d.b} : o.kind = "reg" => Fits(o.value, 5)
                 /\ d.a.kind = "imm" /\ d.b.kind = "imm" =>
                      d.b.value = Zero \/ (Fits(d.a.value, 8) /\ Fits(d.b.value, 8))
  <2>. DEFINE p == Params(bits, Get(bits, 8, 3))
  <2>1. Decoded(bits).a = p[1] /\ Decoded(bits).b = p[2]
    BY DEF Decoded
  <2>2. \/ p[2] = ImmZero /\ ((p[1].kind = "reg" /\ Fits(p[1].value, 5)) \/ p[1].kind = "imm")
        \/ (p[1].kind = "reg" /\ Fits(p[1].value, 5))
             /\ ((p[2].kind = "reg" /\ Fits(p[2].value, 5)) \/ p[2].kind = "imm")
        \/ p[1].kind = "imm" /\ p[2].kind = "reg" /\ Fits(p[2].value, 5)
        \/ /\ p[1].kind = "imm" /\ Fits(p[1].value, 8)
           /\ p[2].kind = "imm" /\ Fits(p[2].value, 8)
    BY ParamsShape
  <2>3. ImmZero.kind = "imm" /\ ImmZero.value = Zero
    BY DEF ImmZero, Operand
  <2>. HIDE DEF p
  <2>4. QED
    BY <2>1, <2>2, <2>3
<1>2. EncodingInv => OperandsInRange
  BY <1>1 DEF EncodingInv, OperandsInRange
<1>3. QED
  BY <1>2, EncodingHolds, PTL
=============================================================================
