----------------------------- MODULE BlockLayout -----------------------------
(***************************************************************************)
(* The life of one tracked block at the level of bytes (header.hpp):       *)
(* calculate_total_size, malloc, init_block, the application's writes,     *)
(* verify_canary and poison_block as deallocate calls them, and the lookup *)
(* get_header_from_user_ptr.                                               *)
(*                                                                         *)
(*   raw                      user              user + size                *)
(*    | magic | other fields | pad | offset word | payload | footer |      *)
(*                                                                         *)
(* Addresses and sizes are unsigned machine words: arithmetic is modulo    *)
(* SizeMax + 1.  A byte holds a symbol that says which write it comes      *)
(* from.  Alignments are powers of two, so clearing the bits below one is  *)
(* subtracting the remainder.                                              *)
(***************************************************************************)
EXTENDS Integers, FiniteSets

CONSTANTS HeaderSize,      \* sizeof(BlockHeader), 64 in the code
          OffsetSize,      \* sizeof(uint32_t), 4
          WordSize,        \* sizeof(uint64_t), 8
          MinAlign,        \* alignof(std::max_align_t), 16; malloc's alignment too
          CandidateSpan,   \* the 4096 in get_header_from_user_ptr
          SizeMax,         \* SIZE_MAX
          Requests,        \* what allocate hands on: size, alignment, footer, canary
          DamageLimit      \* bound: bytes the application writes out of bounds

Addr == 0 .. SizeMax

Request == [size : Addr, align : Addr, footer : Addr, canary : BOOLEAN]

EffAlign(align) == IF align > MinAlign THEN align ELSE MinAlign

ASSUME SizesAssumption ==
  /\ HeaderSize \in Nat /\ OffsetSize \in Nat \ {0} /\ WordSize \in Nat \ {0}
  /\ MinAlign \in Nat \ {0} /\ SizeMax \in Nat /\ CandidateSpan \in Nat
  /\ WordSize <= HeaderSize /\ OffsetSize <= MinAlign
  /\ HeaderSize % MinAlign = 0

\* allocate passes no footer when canaries are off; an alignment is a power of
\* two, and it and the configured footer fit the address space.
ASSUME RequestsAssumption ==
  /\ Requests \subseteq Request
  /\ \A q \in Requests :
       /\ ~q.canary => q.footer = 0
       /\ EffAlign(q.align) % MinAlign = 0
       /\ HeaderSize + OffsetSize + EffAlign(q.align) + q.footer <= SizeMax

ASSUME DamageAssumption == DamageLimit \in Nat

VARIABLES phase,     \* "idle", "refused", "live", "freed" or "kept"
          request,   \* the request that is being served
          raw, total, user,   \* the system block, its size, the user pointer
          mem,       \* the bytes of memory
          fields,    \* the header's fields besides the magic
          verdict,   \* what verify_canary answered at the free
          damage     \* history: the bytes the application wrote out of bounds

vars == <<phase, request, raw, total, user, mem, fields, verdict, damage>>

NoRequest == [size |-> 0, align |-> 0, footer |-> 0, canary |-> FALSE]

NoFields == [offset |-> 0, size |-> 0, canary |-> FALSE]

-----------------------------------------------------------------------------
(* The layout.                                                             *)

Wrap(x) == x % (SizeMax + 1)

\* A mutant: no room for the padding that alignment may need.
NoPadding(align) == HeaderSize + OffsetSize

\* The largest distance from the raw to the user pointer, and one more.
MaxOffset(align) == HeaderSize + OffsetSize + EffAlign(align)

\* A mutant: the sum is not checked for overflow.
TotalUnchecked(q) == Wrap(MaxOffset(q.align) + q.size + q.footer)

\* calculate_total_size; 0 means that the size would overflow.
TotalSize(q) ==
  IF q.size > Wrap(SizeMax - MaxOffset(q.align) - q.footer) THEN 0
  ELSE Wrap(MaxOffset(q.align) + q.size + q.footer)

\* x rounded up to a multiple of the alignment.
RoundUp(x, align) == Wrap(x + (align - 1)) - (Wrap(x + (align - 1)) % align)

UserAddr(r, align) == RoundUp(r + HeaderSize + OffsetSize, EffAlign(align))

MagicBytes == raw .. raw + WordSize - 1

FieldBytes == raw + WordSize .. raw + HeaderSize - 1

OffsetBytes(u) == u - OffsetSize .. u - 1

PayloadBytes == user .. user + request.size - 1

\* The bytes that the loop over the words of a footer touches: the last word
\* may be cut short.
FooterBytes(u, size, footer) ==
  IF footer < WordSize THEN {}
  ELSE UNION {u + size + i .. u + size + i + (IF footer - i < WordSize THEN footer - i ELSE WordSize) - 1 :
              i \in {j \in 0 .. footer - 1 : j % WordSize = 0}}

\* A mutant: a last word that is cut short is not compared.
WholeWordsOnly(u, size, footer) ==
  IF footer < WordSize THEN {} ELSE u + size .. u + size + footer - (footer % WordSize) - 1

\* The bytes of the footer that verify_canary compares.
ComparedBytes(u, size, footer) == FooterBytes(u, size, footer)

-----------------------------------------------------------------------------
(* The operations.                                                         *)

\* init_block.
Initialized(q, r, u) ==
  LET footer == IF q.canary THEN FooterBytes(u, q.size, q.footer) ELSE {} IN
  [a \in Addr |->
     CASE a \in footer                                -> <<"footer", 0>>
       [] a \in OffsetBytes(u)                        -> <<"offset", u - r>>
       [] a \in r .. r + WordSize - 1                 -> <<"magic", 0>>
       [] a \in r + WordSize .. r + HeaderSize - 1    -> <<"field", 0>>
       [] OTHER                                       -> mem[a]]

\* verify_canary.
VerifyCanary(footer) ==
  IF \A a \in MagicBytes : mem[a][1] = "freed" THEN "DOUBLE_FREE"
  ELSE IF \E a \in MagicBytes : mem[a][1] # "magic" THEN "HEADER_CORRUPTED"
  ELSE IF fields.canary
          /\ \E a \in ComparedBytes(raw + fields.offset, fields.size, footer) : mem[a][1] # "footer"
       THEN "FOOTER_CORRUPTED"
  ELSE "NONE"

\* poison_block: the freed magic in header and footer, the offset word zero.
Poisoned(q) ==
  [a \in Addr |->
     CASE a \in MagicBytes -> <<"freed", 0>>
       [] a \in OffsetBytes(user) -> <<"offset", 0>>
       [] q.canary /\ a \in FooterBytes(user, q.size, q.footer) -> <<"freed", 0>>
       [] OTHER -> mem[a]]

\* The offset word in front of a pointer; the callers below ask only where it
\* is intact.
OffsetWord(u) ==
  CHOOSE n \in Addr : \A a \in OffsetBytes(u) : mem[a] = <<"offset", n>>

\* A mutant: the header's own size is left out of the bound.
OffsetTooLow(n) == n >= HeaderSize + OffsetSize /\ n <= CandidateSpan

\* The offsets get_header_from_user_ptr believes.
PlausibleOffset(n) == n >= HeaderSize + OffsetSize /\ n <= CandidateSpan + HeaderSize

\* get_header_from_user_ptr answers a header.
HeaderFoundFrom(u) ==
  /\ u >= HeaderSize + OffsetSize
  /\ PlausibleOffset(OffsetWord(u))
  /\ \A a \in u - OffsetWord(u) .. u - OffsetWord(u) + WordSize - 1 : mem[a][1] = "magic"
  /\ fields.offset = OffsetWord(u)

-----------------------------------------------------------------------------
(* The life of a block.                                                    *)

Init ==
  /\ phase = "idle"
  /\ request = NoRequest
  /\ raw = 0 /\ total = 0 /\ user = 0
  /\ mem = [a \in Addr |-> <<"other", 0>>]
  /\ fields = NoFields
  /\ verdict = "NONE"
  /\ damage = {}

\* calculate_total_size overflows, so allocate returns nullptr.
Refuse ==
  /\ phase = "idle"
  /\ \E q \in Requests : TotalSize(q) = 0 /\ request' = q
  /\ phase' = "refused"
  /\ UNCHANGED <<raw, total, user, mem, fields, verdict, damage>>

Allocate ==
  /\ phase = "idle"
  /\ \E q \in Requests :
       /\ TotalSize(q) # 0
       /\ request' = q
       /\ total' = TotalSize(q)
       /\ \E r \in Addr \ {0} :
            /\ r % MinAlign = 0
            /\ r + TotalSize(q) - 1 <= SizeMax
            /\ raw' = r
            /\ user' = UserAddr(r, q.align)
            /\ mem' = Initialized(q, r, UserAddr(r, q.align))
            /\ fields' = [offset |-> UserAddr(r, q.align) - r, size |-> q.size,
                          canary |-> q.canary]
  /\ phase' = "live"
  /\ UNCHANGED <<verdict, damage>>

\* The application fills its payload, every byte of it.
Store ==
  /\ phase = "live"
  /\ mem' = [a \in Addr |-> IF a \in PayloadBytes THEN <<"data", 0>> ELSE mem[a]]
  /\ UNCHANGED <<phase, request, raw, total, user, fields, verdict, damage>>

\* It writes a byte before or after its payload, within the block, but not to
\* the fields behind the magic: on a damaged offset or size the code follows a
\* wild pointer.
WildStore ==
  /\ phase = "live"
  /\ Cardinality(damage) < DamageLimit
  /\ \E a \in (raw .. raw + total - 1) \ (PayloadBytes \cup FieldBytes) :
       /\ mem' = [mem EXCEPT ![a] = <<"wild", 0>>]
       /\ damage' = damage \cup {a}
  /\ UNCHANGED <<phase, request, raw, total, user, fields, verdict>>

\* The tracked path of deallocate: verify, then poison and free a clean block.
Free ==
  /\ phase = "live"
  /\ verdict' = VerifyCanary(request.footer)
  /\ IF verdict' = "NONE"
     THEN /\ phase' = "freed"
          /\ mem' = Poisoned(request)
          /\ fields' = [fields EXCEPT !.offset = 0]
     ELSE /\ phase' = "kept"
          /\ UNCHANGED <<mem, fields>>
  /\ UNCHANGED <<request, raw, total, user, damage>>

\* The story of the block has ended.
Rest == phase \in {"refused", "freed", "kept"} /\ UNCHANGED vars

Next == Refuse \/ Allocate \/ Store \/ WildStore \/ Free \/ Rest

Spec == Init /\ [][Next]_vars

-----------------------------------------------------------------------------
(* Properties.                                                             *)

Verdicts == {"NONE", "HEADER_CORRUPTED", "FOOTER_CORRUPTED", "DOUBLE_FREE"}

HasBlock == phase \in {"live", "freed", "kept"}

\* Pointers are addresses, and a block is never smaller than its header, its
\* offset word and its alignment (header.hpp:30-38).
TypeOK ==
  /\ phase \in {"idle", "refused", "live", "freed", "kept"}
  /\ request \in Requests \cup {NoRequest}
  /\ raw \in Addr /\ user \in Addr /\ total \in Addr
  /\ HasBlock => request \in Requests /\ total >= HeaderSize + OffsetSize + EffAlign(request.align)
  /\ verdict \in Verdicts

\* init_block keeps the alignment it was asked for and stays, with header,
\* offset word, payload and footer in that order, inside the memory that
\* calculate_total_size asked for: neither sum overflows (header.hpp:30-81).
BlockFits ==
  HasBlock =>
    /\ user % EffAlign(request.align) = 0
    /\ raw + HeaderSize + OffsetSize <= user
    /\ user + request.size + request.footer < raw + total
    /\ raw + total <= SizeMax + 1

\* verify_canary tells overruns exactly: a write to any byte of the footer, the
\* bytes of a last short word included, is found, and writes inside the payload,
\* whatever they are, never raise an alarm (header.hpp:70-80 against 125-137).
AlarmExact ==
  phase = "live" /\ damage \subseteq user + request.size .. user + request.size + request.footer - 1 =>
    VerifyCanary(request.footer) =
      IF damage # {} /\ request.footer >= WordSize THEN "FOOTER_CORRUPTED" ELSE "NONE"

\* The lookup knows live blocks from freed ones: the header of an intact block
\* is found from its user pointer for every alignment up to 4096, as the largest
\* offset is exactly the largest one believed; that of a freed block is not, and
\* verify_canary answers DOUBLE_FREE (header.hpp:93-113, 142-158).
LookupExact ==
  /\ phase = "live" /\ damage = {} /\ EffAlign(request.align) <= CandidateSpan => HeaderFoundFrom(user)
  /\ phase = "freed" => ~HeaderFoundFrom(user) /\ VerifyCanary(request.footer) = "DOUBLE_FREE"

=============================================================================
