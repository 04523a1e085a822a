-------------------------- MODULE BlockLayoutProofs --------------------------
(***************************************************************************)
(* BlockLayout for every header, word and address size: the layout never   *)
(* overflows and never leaves the memory that was asked for.               *)
(***************************************************************************)
EXTENDS BlockLayout, TLAPS

\* A product leaves no remainder.
LEMMA ProductRemainder ==
  ASSUME NEW k \in Nat, NEW a \in Nat \ {0}
  PROVE  (k * a) % a = 0
PROOF
<1> DEFINE y == k * a
           d == y \div a
           m == y % a
<1>1. y \in Nat
  OBVIOUS
<1> HIDE DEF y
<1>2. d \in Int /\ m \in 0 .. a - 1 /\ y = a * d + m
  BY <1>1
<1> HIDE DEF d, m
<1>3. a * (k - d) = m
  BY <1>2 DEF y
<1>4. PICK e \in Int : e = k - d
  BY <1>2
<1>5. a * e = m
  BY <1>3, <1>4
<1>6. CASE e >= 1
  <2>1. a * e >= a
    BY <1>6
  <2> QED BY <1>2, <1>5, <2>1
<1>7. CASE e <= -1
  <2>1. a * e <= -a
    BY <1>7
  <2> QED BY <1>2, <1>5, <2>1
<1>8. CASE e = 0
  BY <1>2, <1>5, <1>8 DEF m, y
<1> QED BY <1>6, <1>7, <1>8

\* A remainder is below the divisor, and what is left without it is a multiple.
LEMMA Remainder ==
  ASSUME NEW x \in Nat, NEW a \in Nat \ {0}
  PROVE  /\ x % a \in 0 .. a - 1
         /\ x % a <= x
         /\ (x - (x % a)) % a = 0
PROOF
<1>1. x % a \in 0 .. a - 1 /\ x = a * (x \div a) + (x % a)
  OBVIOUS
<1>2. x \div a \in Nat
  BY Z3
<1>3. PICK k \in Nat : k = x \div a
  BY <1>2
<1>4. x - (x % a) = k * a /\ k * a >= 0
  BY <1>1, <1>3
<1>5. (k * a) % a = 0
  BY ProductRemainder
<1> QED BY <1>1, <1>4, <1>5

\* Arithmetic below the word size does not wrap.
LEMMA NoWrap ==
  ASSUME NEW x \in Addr
  PROVE  Wrap(x) = x
BY SizesAssumption DEF Wrap, Addr

\* EffAlign is a positive number no smaller than MinAlign.
LEMMA EffAlignType ==
  ASSUME NEW align \in Addr
  PROVE  EffAlign(align) \in Nat \ {0} /\ EffAlign(align) >= MinAlign
BY SizesAssumption DEF EffAlign, Addr

\* A request that is granted is granted enough, and without overflow.
LEMMA TotalEnough ==
  ASSUME NEW q \in Requests, TotalSize(q) # 0
  PROVE  /\ TotalSize(q) = MaxOffset(q.align) + q.size + q.footer
         /\ TotalSize(q) \in Addr
PROOF
<1> DEFINE span == MaxOffset(q.align)
<1>1. /\ q.size \in Nat /\ q.footer \in Nat /\ q.align \in Addr
      /\ q.size <= SizeMax
  BY RequestsAssumption, SizesAssumption DEF Request, Addr
<1>2. span \in Nat /\ span + q.footer <= SizeMax /\ span = MaxOffset(q.align)
  BY <1>1, EffAlignType, RequestsAssumption, SizesAssumption DEF MaxOffset
<1> HIDE DEF span
<1>3. Wrap(SizeMax - span - q.footer) = SizeMax - span - q.footer
  BY <1>1, <1>2, NoWrap, SizesAssumption DEF Addr
<1>4. q.size <= SizeMax - span - q.footer
  BY <1>1, <1>2, <1>3, SizesAssumption DEF TotalSize
<1>5. span + q.size + q.footer \in Addr
  BY <1>1, <1>2, <1>4, SizesAssumption DEF Addr
<1>6. TotalSize(q) = Wrap(span + q.size + q.footer)
  BY <1>1, <1>2, <1>3, <1>4 DEF TotalSize
<1> QED BY <1>2, <1>5, <1>6, NoWrap

\* The user pointer that init_block computes in a block of that size.
LEMMA UserAddrPlace ==
  ASSUME NEW q \in Requests, TotalSize(q) # 0,
         NEW r \in Addr, r + TotalSize(q) - 1 <= SizeMax
  PROVE  LET u == UserAddr(r, q.align)
             a == EffAlign(q.align)
         IN /\ u \in Addr
            /\ u % a = 0
            /\ r + HeaderSize + OffsetSize <= u
            /\ u < r + HeaderSize + OffsetSize + a
PROOF
<1> DEFINE a == EffAlign(q.align)
           low == r + HeaderSize + OffsetSize
           top == low + (a - 1)
<1>1. q.size \in Nat /\ q.footer \in Nat /\ q.align \in Addr
  BY RequestsAssumption, SizesAssumption DEF Request, Addr
<1>2. a \in Nat \ {0}
  BY <1>1, EffAlignType
<1>3. TotalSize(q) = HeaderSize + OffsetSize + a + q.size + q.footer
  BY TotalEnough DEF MaxOffset
<1>4. r \in Nat /\ HeaderSize \in Nat /\ OffsetSize \in Nat /\ SizeMax \in Nat
  BY SizesAssumption DEF Addr
<1>5. low \in Nat /\ top \in Nat /\ top <= SizeMax
  BY <1>1, <1>2, <1>3, <1>4
<1>6. Wrap(top) = top
  BY <1>4, <1>5, NoWrap DEF Addr
<1>7. UserAddr(r, q.align) = top - (top % a)
  BY <1>6 DEF UserAddr, RoundUp
<1>8. top % a \in 0 .. a - 1 /\ top % a <= top /\ (top - (top % a)) % a = 0
  BY <1>2, <1>5, Remainder
<1>9. PICK m \in 0 .. a - 1 : m = top % a /\ m <= top
  BY <1>8
<1>10. low <= top - m /\ top - m \in Addr /\ top - m < low + a
  BY <1>2, <1>4, <1>5, <1>9 DEF Addr
<1> HIDE DEF low, top
<1>11. /\ UserAddr(r, q.align) \in Addr
       /\ UserAddr(r, q.align) % a = 0
       /\ low <= UserAddr(r, q.align)
       /\ UserAddr(r, q.align) < low + a
  BY <1>7, <1>8, <1>9, <1>10
<1> QED BY <1>11 DEF low

-----------------------------------------------------------------------------

\* The layout facts need no strengthening beyond the size that was granted.
Inv == TypeOK /\ BlockFits

\* The system starts with no block.
LEMMA InitInv == Init => Inv
BY SizesAssumption DEF Init, Inv, TypeOK, BlockFits, HasBlock, Addr, Verdicts

\* A new block is laid out inside its memory.
LEMMA AllocateKeeps == Inv /\ Allocate => Inv'
PROOF
<1> SUFFICES ASSUME Inv, Allocate PROVE Inv'
  OBVIOUS
<1>1. PICK q \in Requests :
        /\ TotalSize(q) # 0 /\ request' = q /\ total' = TotalSize(q)
        /\ \E r \in Addr \ {0} :
             /\ r + TotalSize(q) - 1 <= SizeMax
             /\ raw' = r
             /\ user' = UserAddr(r, q.align)
  BY DEF Allocate
<1>2. PICK r \in Addr \ {0} :
        /\ r + TotalSize(q) - 1 <= SizeMax
        /\ raw' = r
        /\ user' = UserAddr(r, q.align)
  BY <1>1
<1> DEFINE a == EffAlign(q.align)
<1>3. q.size \in Nat /\ q.footer \in Nat /\ a \in Nat \ {0}
  BY EffAlignType, RequestsAssumption, SizesAssumption DEF Request, Addr
<1>4. TotalSize(q) = HeaderSize + OffsetSize + a + q.size + q.footer /\ TotalSize(q) \in Addr
  BY <1>1, TotalEnough DEF MaxOffset
<1>5. /\ user' \in Addr /\ user' % a = 0
      /\ r + HeaderSize + OffsetSize <= user'
      /\ user' < r + HeaderSize + OffsetSize + a
  BY <1>1, <1>2, UserAddrPlace
<1>6. phase' = "live" /\ verdict' = verdict
  BY DEF Allocate
<1>7. r \in Nat /\ user' \in Nat /\ HeaderSize \in Nat /\ OffsetSize \in Nat /\ SizeMax \in Nat
  BY <1>5, SizesAssumption DEF Addr
<1>8. TypeOK'
  BY <1>1, <1>2, <1>3, <1>4, <1>5, <1>6, <1>7 DEF Inv, TypeOK, HasBlock
<1>9. user' + q.size + q.footer < r + TotalSize(q) /\ r + TotalSize(q) <= SizeMax + 1
  BY <1>2, <1>3, <1>4, <1>5, <1>7
<1>10. BlockFits'
  BY <1>1, <1>2, <1>5, <1>9 DEF BlockFits
<1> QED BY <1>8, <1>10 DEF Inv

\* No later step moves or resizes the block.
LEMMA OthersKeep == Inv /\ (Refuse \/ Store \/ WildStore \/ Free \/ Rest \/ UNCHANGED vars) => Inv'
PROOF
<1> SUFFICES ASSUME Inv, Refuse \/ Store \/ WildStore \/ Free \/ Rest \/ UNCHANGED vars PROVE Inv'
  OBVIOUS
<1> USE DEF Inv, TypeOK, BlockFits, HasBlock, Verdicts
<1>1. CASE Refuse BY <1>1 DEF Refuse
<1>2. CASE Store BY <1>2 DEF Store
<1>3. CASE WildStore BY <1>3 DEF WildStore
<1>4. CASE Free
  <2>1. verdict' \in Verdicts BY <1>4 DEF Free, VerifyCanary
  <2> QED BY <1>4, <2>1 DEF Free
<1>5. CASE Rest \/ UNCHANGED vars BY <1>5 DEF Rest, vars
<1> QED BY <1>1, <1>2, <1>3, <1>4, <1>5

\* The invariant holds throughout.
LEMMA Invariance == Spec => []Inv
PROOF
<1>1. Inv /\ [Next]_vars => Inv'
  BY AllocateKeeps, OthersKeep DEF Next
<1> QED BY InitInv, <1>1, PTL DEF Spec

\* The values of a block's life are well formed, for every word size.
THEOREM TypeCorrect == Spec => []TypeOK
BY Invariance, PTL DEF Inv

\* Every block that calculate_total_size grants holds its header, its offset
\* word, its aligned payload and its footer, whatever was asked for
\* (header.hpp:30-81).
THEOREM LayoutFits == Spec => []BlockFits
BY Invariance, PTL DEF Inv

-----------------------------------------------------------------------------
(* The bytes.                                                              *)

\* The loop over the words of a footer touches all of its bytes, those of a
\* last short word included, and no others.
LEMMA FooterExact ==
  ASSUME NEW u \in Nat, NEW size \in Nat, NEW footer \in Nat
  PROVE  FooterBytes(u, size, footer) =
           IF footer < WordSize THEN {} ELSE u + size .. u + size + footer - 1
PROOF
<1> DEFINE Len(i) == IF footer - i < WordSize THEN footer - i ELSE WordSize
           Starts == {j \in 0 .. footer - 1 : j % WordSize = 0}
           low == u + size
<1>1. CASE footer < WordSize
  BY <1>1 DEF FooterBytes
<1>2. CASE ~(footer < WordSize)
  <2>1. WordSize \in Nat \ {0} /\ low \in Nat
    BY SizesAssumption
  <2>2. FooterBytes(u, size, footer) = UNION {low + i .. low + i + Len(i) - 1 : i \in Starts}
    BY <1>2 DEF FooterBytes
  <2>3. ASSUME NEW a \in low .. low + footer - 1
        PROVE  \E i \in Starts : a \in low + i .. low + i + Len(i) - 1
    <3> DEFINE x == a - low
    <3>1. x \in Nat /\ x <= footer - 1
      BY <2>1, <2>3
    <3>2. PICK m \in 0 .. WordSize - 1 : m <= x /\ (x - m) % WordSize = 0
      BY <2>1, <3>1, Remainder
    <3> DEFINE i == x - m
    <3>3. i \in 0 .. footer - 1 /\ i % WordSize = 0
      BY <2>1, <3>1, <3>2
    <3>4. a >= low + i /\ a <= low + i + Len(i) - 1 /\ a \in Int /\ Len(i) \in Int
      BY <2>1, <2>3, <3>1, <3>2
    <3> QED
      BY <2>1, <3>3, <3>4
  <2>4. ASSUME NEW i \in Starts, NEW a \in low + i .. low + i + Len(i) - 1
        PROVE  a \in low .. low + footer - 1
    BY <2>1, <2>4
  <2> HIDE DEF low, Starts, Len
  <2>5. FooterBytes(u, size, footer) = low .. low + footer - 1
    BY <2>2, <2>3, <2>4
  <2> QED
    BY <1>2, <2>5 DEF low
<1> QED
  BY <1>1, <1>2

\* What leaves no remainder is a product.
LEMMA Quotient ==
  ASSUME NEW x \in Nat, NEW a \in Nat \ {0}, x % a = 0
  PROVE  \E k \in Int : x = a * k
<1> DEFINE k == x \div a
<1>1. k \in Int /\ x = a * k + (x % a)
  OBVIOUS
<1> HIDE DEF k
<1>2. x = a * k
  BY <1>1
<1> QED
  BY <1>1, <1>2

\* A multiple of a multiple of m is a multiple of m, with what is left of two
\* multiples: below y + m there is none above y.
LEMMA Multiples ==
  ASSUME NEW m \in Nat \ {0}, NEW a \in Nat \ {0}, NEW base \in Nat, NEW u \in Nat, NEW o \in Nat,
         a % m = 0, base % m = 0, u % a = 0, o <= m, u < base + o + a
  PROVE  u <= base + a
PROOF
<1>1. PICK i \in Int : a = m * i
  BY Quotient
<1>2. PICK j \in Int : base = m * j
  BY Quotient
<1>3. PICK k \in Int : u = a * k
  BY Quotient
<1>4. u = m * (i * k)
  BY <1>1, <1>3
<1>5. PICK d \in Int : d = i * k - j - i
  BY <1>1, <1>2, <1>3
<1>6. m * d = u - base - a
  BY <1>1, <1>2, <1>4, <1>5
<1>7. m * d < m
  BY <1>6
<1>8. CASE d >= 1
  <2>1. m * d >= m
    BY <1>8
  <2> QED
    BY <1>7, <2>1
<1>9. CASE d <= 0
  <2>1. m * d <= 0
    BY <1>9
  <2> QED
    BY <1>6, <2>1
<1> QED
  BY <1>8, <1>9

\* The bytes of a live block: each region holds what init_block wrote, except
\* where the application wrote out of bounds, and it did not touch the fields.
LiveBytes ==
  /\ fields = [offset |-> user - raw, size |-> request.size, canary |-> request.canary]
  /\ damage \cap PayloadBytes = {}
  /\ \A a \in damage : a \in Addr /\ mem[a] = <<"wild", 0>>
  /\ \A a \in MagicBytes \ damage : mem[a] = <<"magic", 0>>
  /\ \A a \in OffsetBytes(user) \ damage : mem[a] = <<"offset", user - raw>>
  /\ request.canary =>
       \A a \in FooterBytes(user, request.size, request.footer) \ damage : mem[a] = <<"footer", 0>>

\* The bytes of a freed one, as poison_block left them.
FreedBytes ==
  /\ \A a \in MagicBytes : mem[a] = <<"freed", 0>>
  /\ \A a \in OffsetBytes(user) : mem[a] = <<"offset", 0>>

\* What memory holds at each stage of a block, and how far at most the user
\* pointer lies from the raw one.
BytesInv ==
  /\ mem = [a \in Addr |-> mem[a]]
  /\ phase = "idle" => damage = {}
  /\ HasBlock => user - raw <= HeaderSize + EffAlign(request.align)
  /\ phase = "live" => LiveBytes
  /\ phase = "freed" => FreedBytes

\* The regions of a block are addresses, in order and apart.
Regions ==
  /\ raw \in Nat /\ user \in Nat /\ request.size \in Nat /\ request.footer \in Nat
  /\ \A a \in MagicBytes : a \in Addr /\ a < user - OffsetSize
  /\ \A a \in OffsetBytes(user) : a \in Addr /\ a < user /\ a \notin MagicBytes
  /\ \A a \in PayloadBytes : a >= user /\ a < user + request.size
  /\ \A a \in FooterBytes(user, request.size, request.footer) : a \in Addr /\ a >= user + request.size

\* A block has its regions in order.
LEMMA InOrder == Inv /\ HasBlock => Regions
PROOF
<1> SUFFICES ASSUME Inv, HasBlock PROVE Regions
  OBVIOUS
<1>1. /\ request \in Requests /\ raw \in Nat /\ user \in Nat /\ total \in Nat
      /\ raw + HeaderSize + OffsetSize <= user
      /\ user + request.size + request.footer < raw + total
      /\ raw + total <= SizeMax + 1
  BY DEF Inv, TypeOK, BlockFits, Addr
<1>2. request.size \in Nat /\ request.footer \in Nat
  BY <1>1, RequestsAssumption DEF Request, Addr
<1>3. HeaderSize \in Nat /\ OffsetSize \in Nat \ {0} /\ WordSize \in Nat \ {0} /\ SizeMax \in Nat /\ WordSize <= HeaderSize
  BY SizesAssumption
<1>4. \A a \in MagicBytes : a \in Addr /\ a < user - OffsetSize
  BY <1>1, <1>2, <1>3 DEF MagicBytes, Addr
<1>5. \A a \in OffsetBytes(user) : a \in Addr /\ a < user /\ a \notin MagicBytes
  BY <1>1, <1>2, <1>3 DEF OffsetBytes, MagicBytes, Addr
<1>6. \A a \in PayloadBytes : a >= user /\ a < user + request.size
  BY <1>1, <1>2 DEF PayloadBytes
<1>7. \A a \in FooterBytes(user, request.size, request.footer) : a \in Addr /\ a >= user + request.size
  <2>1. \A a \in user + request.size .. user + request.size + request.footer - 1 :
          a \in Addr /\ a >= user + request.size
    BY <1>1, <1>2, <1>3 DEF Addr
  <2>2. \A a \in FooterBytes(user, request.size, request.footer) :
          a \in user + request.size .. user + request.size + request.footer - 1
    BY <1>1, <1>2, FooterExact
  <2> QED
    BY <2>1, <2>2
<1> QED
  BY <1>1, <1>2, <1>4, <1>5, <1>6, <1>7 DEF Regions

\* Before the first allocation nothing is written.
LEMMA InitBytes == Init => BytesInv
  BY DEF Init, BytesInv, HasBlock

\* init_block writes each region, and the pointer is no further away than the
\* lookup believes: what alignment adds are whole multiples of MinAlign.
LEMMA AllocateBytes == Inv /\ BytesInv /\ Allocate => BytesInv'
PROOF
<1> SUFFICES ASSUME Inv, BytesInv, Allocate PROVE BytesInv'
  OBVIOUS
<1>1. PICK q \in Requests, r \in Addr \ {0} :
        /\ TotalSize(q) # 0 /\ request' = q
        /\ r % MinAlign = 0
        /\ r + TotalSize(q) - 1 <= SizeMax
        /\ raw' = r
        /\ user' = UserAddr(r, q.align)
        /\ mem' = Initialized(q, r, UserAddr(r, q.align))
        /\ fields' = [offset |-> UserAddr(r, q.align) - r, size |-> q.size, canary |-> q.canary]
  BY DEF Allocate
<1>2. phase' = "live" /\ phase = "idle" /\ damage' = damage
  BY DEF Allocate
<1>3. damage = {} /\ damage' = {}
  BY <1>2 DEF BytesInv
<1>4. Inv' /\ HasBlock'
  BY <1>2, AllocateKeeps DEF HasBlock
<1>5. Regions'
  <2>1. Inv /\ HasBlock => Regions
    BY InOrder
  <2> QED
    BY <1>4, <2>1, InOrder, PTL
<1>6. LiveBytes'
  <2> DEFINE M == MagicBytes'
             O == OffsetBytes(user')
             F == IF q.canary THEN FooterBytes(user', q.size, q.footer) ELSE {}
             R == raw' + WordSize .. raw' + HeaderSize - 1
             word == <<"offset", user' - raw'>>
  <2>1. mem' = [a \in Addr |->
                 CASE a \in F -> <<"footer", 0>>
                   [] a \in O -> word
                   [] a \in M -> <<"magic", 0>>
                   [] a \in R -> <<"field", 0>>
                   [] OTHER -> mem[a]]
    BY <1>1 DEF Initialized, MagicBytes
  <2>2. /\ \A a \in M : a \in Addr /\ a < user' - OffsetSize
        /\ \A a \in O : a \in Addr /\ a < user' /\ a >= user' - OffsetSize /\ a \notin M
        /\ \A a \in FooterBytes(user', q.size, q.footer) : a \in Addr /\ a >= user' + q.size
        /\ user' \in Nat /\ q.size \in Nat /\ OffsetSize \in Nat /\ \A a \in Addr : a \in Nat
    BY <1>1, <1>5, SizesAssumption DEF Regions, Addr, OffsetBytes
  <2>7. \A a \in R : a \in Nat /\ a < user' - OffsetSize /\ a \notin M
    <3> HIDE DEF F, O, word
    <3>1. r \in Nat /\ user' \in Nat /\ r + HeaderSize + OffsetSize <= user' /\ raw' = r
      BY <1>1, UserAddrPlace DEF Addr
    <3>2. M = r .. r + WordSize - 1 /\ R = r + WordSize .. r + HeaderSize - 1
      BY <3>1 DEF MagicBytes
    <3> HIDE DEF M, R
    <3>3. PICK u \in Nat : u = user' /\ r + HeaderSize + OffsetSize <= u
      BY <3>1
    <3>4. HeaderSize \in Nat /\ OffsetSize \in Nat /\ WordSize \in Nat \ {0}
      BY SizesAssumption
    <3>10. r \in Nat /\ r + HeaderSize + OffsetSize <= u
      BY <3>1, <3>3
    <3>8. r + HeaderSize <= u - OffsetSize
      BY <3>4, <3>10
    <3>9. \A a \in r + WordSize .. r + HeaderSize - 1 : a \in Nat /\ a < u - OffsetSize /\ a >= r + WordSize
      BY <3>1, <3>4, <3>8
    <3>5. \A a \in R : a \in Nat /\ a < u - OffsetSize /\ a >= r + WordSize
      BY <3>2, <3>9
    <3>6. \A a \in M : a < r + WordSize
      BY <3>1, <3>2, <3>4
    <3>7. \A a \in R : a \notin M
      BY <3>1, <3>4, <3>5, <3>6
    <3> QED
      BY <3>3, <3>5, <3>7
  <2>3. /\ \A a \in F : a \in FooterBytes(user', q.size, q.footer)
        /\ q.canary => F = FooterBytes(user', q.size, q.footer)
    OBVIOUS
  <2> HIDE DEF M, O, F, R, word
  <2>4. /\ \A a \in M : a \in Addr /\ a \notin F /\ a \notin O /\ a \notin R
        /\ \A a \in O : a \in Addr /\ a \notin F /\ a \notin M /\ a \notin R
        /\ \A a \in F : a \in Addr /\ a \notin O /\ a \notin M /\ a \notin R
    <3>1. \A a \in F : a \in Addr /\ a >= user' + q.size
      BY <2>2, <2>3
    <3> QED
      BY <2>2, <2>7, <3>1
  <2>5. /\ \A a \in M : mem'[a] = <<"magic", 0>>
        /\ \A a \in O : mem'[a] = word
        /\ \A a \in F : mem'[a] = <<"footer", 0>>
    <3>1. ASSUME NEW a \in M PROVE mem'[a] = <<"magic", 0>>
      BY <2>1, <2>4, <3>1
    <3>2. ASSUME NEW a \in O PROVE mem'[a] = word
      BY <2>1, <2>4, <3>2
    <3>3. ASSUME NEW a \in F PROVE mem'[a] = <<"footer", 0>>
      BY <2>1, <2>4, <3>3
    <3> QED
      BY <3>1, <3>2, <3>3
  <2>6. q.canary => \A a \in FooterBytes(user', q.size, q.footer) : mem'[a] = <<"footer", 0>>
    BY <2>3, <2>5
  <2> QED
    BY <1>1, <1>3, <2>5, <2>6 DEF LiveBytes, M, O, word
<1>7. user' - raw' <= HeaderSize + EffAlign(request'.align)
  <2> DEFINE a == EffAlign(q.align)
             base == r + HeaderSize
  <2>1. /\ a \in Nat \ {0} /\ a % MinAlign = 0
        /\ MinAlign \in Nat \ {0} /\ HeaderSize \in Nat /\ OffsetSize \in Nat /\ OffsetSize <= MinAlign
        /\ r \in Nat /\ HeaderSize % MinAlign = 0
    BY EffAlignType, RequestsAssumption, SizesAssumption DEF Request, Addr
  <2>2. /\ user' \in Nat /\ user' % a = 0
        /\ user' < r + HeaderSize + OffsetSize + a
    BY <1>1, UserAddrPlace DEF Addr
  <2>3. base \in Nat /\ base % MinAlign = 0
    <3>1. PICK i \in Int : r = MinAlign * i
      BY <1>1, <2>1, Quotient
    <3>2. PICK j \in Int : HeaderSize = MinAlign * j
      BY <2>1, Quotient
    <3>3. PICK k \in Int : k = i + j
      OBVIOUS
    <3>4. base = k * MinAlign /\ base \in Nat
      BY <2>1, <3>1, <3>2, <3>3
    <3>5. k \in Nat
      BY <2>1, <3>4
    <3> QED
      BY <2>1, <3>4, <3>5, ProductRemainder
  <2> HIDE DEF a
  <2>4. user' < base + OffsetSize + a
    BY <2>1, <2>2
  <2> HIDE DEF base
  <2>5. user' <= base + a
    BY <2>1, <2>2, <2>3, <2>4, Multiples
  <2> QED
    BY <1>1, <2>1, <2>2, <2>3, <2>5 DEF base, a
<1>8. mem' = [a \in Addr |-> mem'[a]]
  BY <1>1 DEF Initialized
<1> QED
  BY <1>2, <1>6, <1>7, <1>8 DEF BytesInv

\* A store to the payload or a wild one changes the bytes of no other region.
LEMMA StoreBytes == Inv /\ BytesInv /\ (Store \/ WildStore) => BytesInv'
PROOF
<1> SUFFICES ASSUME Inv, BytesInv, Store \/ WildStore PROVE BytesInv'
  OBVIOUS
<1>1. /\ phase = "live" /\ HasBlock
      /\ UNCHANGED <<phase, request, raw, total, user, fields, verdict>>
      /\ MagicBytes' = MagicBytes /\ PayloadBytes' = PayloadBytes
  BY DEF Store, WildStore, HasBlock, MagicBytes, PayloadBytes
<1>2. Regions
  BY <1>1, InOrder
<1>3. LiveBytes /\ mem = [a \in Addr |-> mem[a]]
  BY <1>1 DEF BytesInv
<1>4. LiveBytes' /\ mem' = [a \in Addr |-> mem'[a]]
  <2>1. CASE Store
    <3>1. /\ mem' = [a \in Addr |-> IF a \in PayloadBytes THEN <<"data", 0>> ELSE mem[a]]
          /\ damage' = damage
      BY <2>1 DEF Store
    <3>2. \A a \in Addr \ PayloadBytes : mem'[a] = mem[a]
      BY <3>1
    <3>3. \A a \in damage : a \in Addr \ PayloadBytes
      BY <1>3 DEF LiveBytes
    <3>4. \A a \in MagicBytes \cup OffsetBytes(user) : a \in Addr \ PayloadBytes
      BY <1>2, SizesAssumption DEF Regions, Addr
    <3>5. \A a \in FooterBytes(user, request.size, request.footer) : a \in Addr \ PayloadBytes
      BY <1>2, SizesAssumption DEF Regions, Addr
    <3>6. LiveBytes'
      BY <1>1, <1>3, <3>1, <3>2, <3>3, <3>4, <3>5 DEF LiveBytes
    <3> QED
      BY <3>1, <3>6
  <2>2. CASE WildStore
    <3>1. PICK w \in (raw .. raw + total - 1) \ (PayloadBytes \cup FieldBytes) :
            mem' = [mem EXCEPT ![w] = <<"wild", 0>>] /\ damage' = damage \cup {w}
      BY <2>2 DEF WildStore
    <3>2. w \in Addr
      BY <1>1, SizesAssumption DEF Inv, TypeOK, BlockFits, HasBlock, Addr
    <3>3. /\ mem'[w] = <<"wild", 0>>
          /\ \A a \in Addr \ {w} : mem'[a] = mem[a]
          /\ mem' = [a \in Addr |-> mem'[a]]
      BY <1>3, <3>1, <3>2
    <3>4. \A a \in MagicBytes \cup OffsetBytes(user) : a \in Addr
      BY <1>2 DEF Regions
    <3>5. \A a \in FooterBytes(user, request.size, request.footer) : a \in Addr
      BY <1>2 DEF Regions
    <3>6. damage' \cap PayloadBytes = {} /\ \A a \in damage' : a \in Addr /\ mem'[a] = <<"wild", 0>>
      BY <1>3, <3>1, <3>2, <3>3 DEF LiveBytes
    <3>7. /\ \A a \in MagicBytes \ damage' : mem'[a] = <<"magic", 0>>
          /\ \A a \in OffsetBytes(user) \ damage' : mem'[a] = <<"offset", user - raw>>
      BY <1>3, <3>1, <3>3, <3>4 DEF LiveBytes
    <3>8. request.canary => \A a \in FooterBytes(user, request.size, request.footer) \ damage' :
                              mem'[a] = <<"footer", 0>>
      BY <1>3, <3>1, <3>3, <3>5 DEF LiveBytes
    <3>9. LiveBytes'
      BY <1>1, <1>3, <3>6, <3>7, <3>8 DEF LiveBytes
    <3> QED
      BY <3>3, <3>9
  <2> QED
    BY <2>1, <2>2
<1> QED
  BY <1>1, <1>4 DEF BytesInv, HasBlock

\* poison_block overwrites the magic and the offset word, and nothing that it
\* writes to the footer reaches them.
LEMMA FreeBytes == Inv /\ BytesInv /\ Free => BytesInv'
PROOF
<1> SUFFICES ASSUME Inv, BytesInv, Free PROVE BytesInv'
  OBVIOUS
<1>1. /\ phase = "live" /\ HasBlock
      /\ UNCHANGED <<request, raw, total, user, damage>>
      /\ MagicBytes' = MagicBytes
      /\ \/ phase' = "freed" /\ mem' = Poisoned(request)
         \/ phase' = "kept" /\ mem' = mem
  BY DEF Free, HasBlock, MagicBytes
<1>2. Regions
  BY <1>1, InOrder
<1>3. CASE phase' = "freed" /\ mem' = Poisoned(request)
  <2>1. mem' = [a \in Addr |->
                 CASE a \in MagicBytes -> <<"freed", 0>>
                   [] a \in OffsetBytes(user) -> <<"offset", 0>>
                   [] request.canary /\ a \in FooterBytes(user, request.size, request.footer) -> <<"freed", 0>>
                   [] OTHER -> mem[a]]
    BY <1>3 DEF Poisoned
  <2>2. \A a \in MagicBytes : a \in Addr /\ mem'[a] = <<"freed", 0>>
    <3> TAKE a \in MagicBytes
    <3>1. a \in Addr /\ a < user - OffsetSize
      BY <1>2 DEF Regions
    <3>2. a \notin OffsetBytes(user)
      BY <1>2, <3>1, SizesAssumption DEF Regions, OffsetBytes, Addr
    <3>3. ~(request.canary /\ a \in FooterBytes(user, request.size, request.footer))
      BY <1>2, <3>1, SizesAssumption DEF Regions, Addr
    <3> QED
      BY <2>1, <3>1, <3>2, <3>3
  <2>3. \A a \in OffsetBytes(user) : a \in Addr /\ mem'[a] = <<"offset", 0>>
    <3> TAKE a \in OffsetBytes(user)
    <3>1. a \in Addr /\ a < user /\ a \notin MagicBytes
      BY <1>2 DEF Regions
    <3>2. ~(request.canary /\ a \in FooterBytes(user, request.size, request.footer))
      BY <1>2, <3>1, SizesAssumption DEF Regions, Addr
    <3> QED
      BY <2>1, <3>1, <3>2
  <2>4. FreedBytes'
    BY <1>1, <2>2, <2>3 DEF FreedBytes
  <2>5. mem' = [a \in Addr |-> mem'[a]]
    BY <2>1
  <2> QED
    BY <1>1, <1>3, <2>4, <2>5 DEF BytesInv, HasBlock
<1>4. CASE phase' = "kept" /\ mem' = mem
  BY <1>1, <1>4 DEF BytesInv, HasBlock
<1> QED
  BY <1>1, <1>3, <1>4

\* The bytes of a block are accounted for throughout its life.
LEMMA BytesInvariance == Spec => [](Inv /\ BytesInv)
PROOF
<1>1. Inv /\ BytesInv /\ [Next]_vars => BytesInv'
  <2> SUFFICES ASSUME Inv, BytesInv, [Next]_vars PROVE BytesInv'
    OBVIOUS
  <2>1. CASE Refuse
    BY <2>1 DEF Refuse, BytesInv, HasBlock
  <2>2. CASE Rest \/ UNCHANGED vars
    BY <2>2 DEF Rest, vars, BytesInv, HasBlock, LiveBytes, FreedBytes, MagicBytes, PayloadBytes
  <2> QED
    BY <2>1, <2>2, AllocateBytes, StoreBytes, FreeBytes DEF Next
<1>2. Inv /\ [Next]_vars => Inv'
  BY AllocateKeeps, OthersKeep DEF Next
<1> QED
  BY InitInv, InitBytes, <1>1, <1>2, PTL DEF Spec

\* verify_canary raises the alarm for a write to any byte of a footer that has
\* a canary and for no other write, whatever the sizes (header.hpp:115-140).
THEOREM AlarmsExactly == Spec => []AlarmExact
PROOF
<1>1. Inv /\ BytesInv => AlarmExact
  <2> DEFINE F == FooterBytes(user, request.size, request.footer)
             span == user + request.size .. user + request.size + request.footer - 1
             good == IF damage # {} /\ request.footer >= WordSize THEN "FOOTER_CORRUPTED" ELSE "NONE"
  <2> SUFFICES ASSUME Inv, BytesInv, phase = "live", damage \subseteq span
               PROVE  VerifyCanary(request.footer) = good
    BY DEF AlarmExact
  <2>1. HasBlock /\ LiveBytes /\ Regions
    BY InOrder DEF HasBlock, BytesInv
  <2>2. /\ WordSize \in Nat \ {0} /\ OffsetSize \in Nat /\ Addr \subseteq Nat
        /\ request.size \in Nat /\ request.footer \in Nat /\ user \in Nat /\ raw \in Nat
        /\ request.footer # 0 => request.canary = TRUE
    <3>1. request \in Requests /\ request.canary \in BOOLEAN
      BY <2>1, RequestsAssumption DEF Inv, TypeOK, Request
    <3> QED
      BY <2>1, <3>1, SizesAssumption, RequestsAssumption DEF Regions, Addr
  <2>3. \A a \in MagicBytes : mem[a] = <<"magic", 0>>
    <3>1. \A a \in damage : a >= user
      BY <2>2
    <3>2. \A a \in MagicBytes : a \in Nat
      BY <2>2 DEF MagicBytes
    <3>3. \A a \in MagicBytes : a < user
      BY <2>1, <2>2, <3>2 DEF Regions
    <3>4. \A a \in MagicBytes : a \notin damage
      BY <2>2, <3>1, <3>2, <3>3
    <3> QED
      BY <2>1, <3>4 DEF LiveBytes
  <2>4. raw \in MagicBytes
    BY <2>2 DEF MagicBytes
  <2> HIDE DEF span
  <2>5. F = IF request.footer < WordSize THEN {} ELSE span
    <3>1. FooterBytes(user, request.size, request.footer) =
            IF request.footer < WordSize THEN {}
            ELSE user + request.size .. user + request.size + request.footer - 1
      <4> HIDE DEF F
      <4> QED
        BY <2>2, FooterExact, ZenonT(30)
    <3> QED
      BY <3>1 DEF span
  <2>6. ComparedBytes(raw + fields.offset, fields.size, request.footer) = F
    <3>1. fields.size = request.size /\ fields.offset = user - raw
      BY <2>1 DEF LiveBytes
    <3>2. raw + fields.offset = user
      BY <2>2, <3>1
    <3> QED
      BY <3>1, <3>2 DEF ComparedBytes
  <2>7. VerifyCanary(request.footer) =
          IF fields.canary /\ \E a \in F : mem[a][1] # "footer" THEN "FOOTER_CORRUPTED" ELSE "NONE"
    BY <2>3, <2>4, <2>6 DEF VerifyCanary
  <2>8. fields.canary = request.canary
    BY <2>1 DEF LiveBytes
  <2>9. CASE damage # {} /\ request.footer >= WordSize
    <3>1. PICK a \in damage : a \in F
      <4>1. F = span
        BY <2>2, <2>5, <2>9
      <4> QED
        BY <2>9, <4>1
    <3>2. mem[a][1] # "footer"
      BY <2>1, <3>1 DEF LiveBytes
    <3>3. fields.canary
      BY <2>2, <2>8, <2>9
    <3> HIDE DEF F
    <3> QED
      BY <2>7, <2>9, <3>1, <3>2, <3>3
  <2>10. CASE ~(damage # {} /\ request.footer >= WordSize)
    <3>1. \A a \in F : a \notin damage
      BY <2>2, <2>5, <2>10
    <3>2. fields.canary => \A a \in F : mem[a][1] = "footer"
      BY <2>1, <2>8, <3>1 DEF LiveBytes
    <3> HIDE DEF F
    <3> QED
      BY <2>7, <2>10, <3>2
  <2> QED
    BY <2>9, <2>10
<1> QED
  BY BytesInvariance, <1>1, PTL

\* get_header_from_user_ptr finds the header of every intact block aligned to
\* 4096 or less and of no freed one, for which verify_canary answers DOUBLE_FREE
\* (header.hpp:93-113, 142-158).
THEOREM LooksUpExactly == Spec => []LookupExact
PROOF
<1>1. ASSUME Inv, BytesInv, HasBlock,
             NEW n \in Addr, \A a \in OffsetBytes(user) : mem[a] = <<"offset", n>>
      PROVE  OffsetWord(user) = n
  <2>1. user - 1 \in OffsetBytes(user)
    BY <1>1, SizesAssumption DEF OffsetBytes, Inv, TypeOK, Addr
  <2>2. \A k \in Addr : (\A a \in OffsetBytes(user) : mem[a] = <<"offset", k>>) => k = n
    BY <1>1, <2>1
  <2> QED
    BY <1>1, <2>2 DEF OffsetWord
<1>2. ASSUME Inv, BytesInv, phase = "live", damage = {}, EffAlign(request.align) <= CandidateSpan
      PROVE  HeaderFoundFrom(user)
  <2>1. HasBlock /\ LiveBytes /\ Regions
    BY <1>2, InOrder DEF HasBlock, BytesInv
  <2>2. /\ user \in Nat /\ raw \in Nat /\ raw + HeaderSize + OffsetSize <= user
        /\ user - raw <= HeaderSize + EffAlign(request.align)
        /\ HeaderSize \in Nat /\ OffsetSize \in Nat /\ CandidateSpan \in Nat /\ SizeMax \in Nat /\ user <= SizeMax
        /\ EffAlign(request.align) \in Nat
    <3>1. request \in Requests /\ request.align \in Addr
      BY <1>2, <2>1, RequestsAssumption DEF Inv, TypeOK, Request
    <3>2. EffAlign(request.align) \in Nat
      BY <3>1, EffAlignType
    <3> QED
      BY <1>2, <2>1, <3>2, SizesAssumption DEF Inv, TypeOK, BlockFits, BytesInv, HasBlock, Addr
  <2> DEFINE n == user - raw
  <2>3. n \in Addr /\ n >= HeaderSize + OffsetSize /\ n <= CandidateSpan + HeaderSize
    BY <1>2, <2>2 DEF Addr
  <2>4. \A a \in OffsetBytes(user) : mem[a] = <<"offset", n>>
    BY <1>2, <2>1 DEF LiveBytes
  <2> HIDE DEF n
  <2>5. OffsetWord(user) = n
    BY <1>1, <1>2, <2>1, <2>3, <2>4
  <2>6. user - n = raw
    BY <2>2 DEF n
  <2>7. \A a \in raw .. raw + WordSize - 1 : mem[a][1] = "magic"
    BY <1>2, <2>1 DEF LiveBytes, MagicBytes
  <2>8. fields.offset = n
    BY <2>1 DEF LiveBytes, n
  <2>9. user >= HeaderSize + OffsetSize
    BY <2>2
  <2> QED
    BY <2>3, <2>5, <2>6, <2>7, <2>8, <2>9 DEF HeaderFoundFrom, PlausibleOffset
<1>3. ASSUME Inv, BytesInv, phase = "freed"
      PROVE  ~HeaderFoundFrom(user) /\ VerifyCanary(request.footer) = "DOUBLE_FREE"
  <2>1. HasBlock /\ FreedBytes
    BY <1>3 DEF HasBlock, BytesInv
  <2>2. 0 \in Addr /\ OffsetSize \in Nat \ {0} /\ HeaderSize \in Nat
    BY SizesAssumption DEF Addr
  <2>3. OffsetWord(user) = 0
    BY <1>1, <1>3, <2>1, <2>2 DEF FreedBytes
  <2>4. ~PlausibleOffset(0)
    BY <2>2 DEF PlausibleOffset
  <2>5. VerifyCanary(request.footer) = "DOUBLE_FREE"
    BY <2>1 DEF FreedBytes, VerifyCanary
  <2> QED
    BY <2>3, <2>4, <2>5 DEF HeaderFoundFrom
<1>4. Inv /\ BytesInv => LookupExact
  BY <1>2, <1>3 DEF LookupExact
<1> QED
  BY BytesInvariance, <1>4, PTL

=============================================================================
