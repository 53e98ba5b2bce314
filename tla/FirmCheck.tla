------------------------------- MODULE FirmCheck -------------------------------
(***************************************************************************)
(* The check of a firmware: check_part_firm of boot.c, calc_part_firm_crc32 *)
(* which reads the partition in pieces of _firm_buf, and crc32.c.  The     *)
(* body in the partition is one that was packed with its CRC-32, or that   *)
(* body with some bytes next to each other damaged.  The header, with the  *)
(* body's length and CRC-32 in it, is one byte, there or not.              *)
(*                                                                         *)
(* A byte, and a word of 32 bits, is the set of its 1 bits.                *)
(***************************************************************************)
EXTENDS Integers, SequencesExt

CONSTANTS
  Firms,        \* bodies that are packed, sequences of bytes
  Masks,        \* damages: bits that are flipped, of bytes next to each other
  Offsets,      \* firm_off: where the body begins
  Header,       \* the header's byte
  PartLen,      \* length of the partition
  FirmBufSize   \* FIRM_BUF_SIZE

Byte == SUBSET (0 .. 7)

ASSUME CheckAssumption ==
  /\ PartLen \in Nat \ {0} /\ FirmBufSize \in Nat \ {0}
  /\ Offsets \subseteq 0 .. PartLen
  /\ Firms \subseteq Seq(Byte) /\ Masks \subseteq Seq(Byte) /\ Header \in Byte

VARIABLES
  firm,         \* the body that was packed
  body_crc32,   \* its CRC-32, in the header
  part,         \* the partition, a function of the offset
  firm_off,
  pc,           \* "start", "loop", "done"
  crc,          \* ctx.crc
  total_length,
  ret           \* what check_part_firm returns: "none", "ok", "error"

Xor(a, b)   == (a \ b) \cup (b \ a)
Shift(w, n) == {i - n : i \in {j \in w : j >= n}}
Ones        == 0 .. 31

(***************************************************************************)
(* crc32.c                                                                 *)
(***************************************************************************)

(* The halves of crc32_tbl's words. *)
High == <<
  \h0000, \h7707, \hEE0E, \h9909, \h076D, \h706A, \hE963, \h9E64, \h0EDB,
  \h79DC, \hE0D5, \h97D2, \h09B6, \h7EB1, \hE7B8, \h90BF, \h1DB7, \h6AB0,
  \hF3B9, \h84BE, \h1ADA, \h6DDD, \hF4D4, \h83D3, \h136C, \h646B, \hFD62,
  \h8A65, \h1401, \h6306, \hFA0F, \h8D08, \h3B6E, \h4C69, \hD560, \hA267,
  \h3C03, \h4B04, \hD20D, \hA50A, \h35B5, \h42B2, \hDBBB, \hACBC, \h32D8,
  \h45DF, \hDCD6, \hABD1, \h26D9, \h51DE, \hC8D7, \hBFD0, \h21B4, \h56B3,
  \hCFBA, \hB8BD, \h2802, \h5F05, \hC60C, \hB10B, \h2F6F, \h5868, \hC161,
  \hB666, \h76DC, \h01DB, \h98D2, \hEFD5, \h71B1, \h06B6, \h9FBF, \hE8B8,
  \h7807, \h0F00, \h9609, \hE10E, \h7F6A, \h086D, \h9164, \hE663, \h6B6B,
  \h1C6C, \h8565, \hF262, \h6C06, \h1B01, \h8208, \hF50F, \h65B0, \h12B7,
  \h8BBE, \hFCB9, \h62DD, \h15DA, \h8CD3, \hFBD4, \h4DB2, \h3AB5, \hA3BC,
  \hD4BB, \h4ADF, \h3DD8, \hA4D1, \hD3D6, \h4369, \h346E, \hAD67, \hDA60,
  \h4404, \h3303, \hAA0A, \hDD0D, \h5005, \h2702, \hBE0B, \hC90C, \h5768,
  \h206F, \hB966, \hCE61, \h5EDE, \h29D9, \hB0D0, \hC7D7, \h59B3, \h2EB4,
  \hB7BD, \hC0BA, \hEDB8, \h9ABF, \h03B6, \h74B1, \hEAD5, \h9DD2, \h04DB,
  \h73DC, \hE363, \h9464, \h0D6D, \h7A6A, \hE40E, \h9309, \h0A00, \h7D07,
  \hF00F, \h8708, \h1E01, \h6906, \hF762, \h8065, \h196C, \h6E6B, \hFED4,
  \h89D3, \h10DA, \h67DD, \hF9B9, \h8EBE, \h17B7, \h60B0, \hD6D6, \hA1D1,
  \h38D8, \h4FDF, \hD1BB, \hA6BC, \h3FB5, \h48B2, \hD80D, \hAF0A, \h3603,
  \h4104, \hDF60, \hA867, \h316E, \h4669, \hCB61, \hBC66, \h256F, \h5268,
  \hCC0C, \hBB0B, \h2202, \h5505, \hC5BA, \hB2BD, \h2BB4, \h5CB3, \hC2D7,
  \hB5D0, \h2CD9, \h5BDE, \h9B64, \hEC63, \h756A, \h026D, \h9C09, \hEB0E,
  \h7207, \h0500, \h95BF, \hE2B8, \h7BB1, \h0CB6, \h92D2, \hE5D5, \h7CDC,
  \h0BDB, \h86D3, \hF1D4, \h68DD, \h1FDA, \h81BE, \hF6B9, \h6FB0, \h18B7,
  \h8808, \hFF0F, \h6606, \h1101, \h8F65, \hF862, \h616B, \h166C, \hA00A,
  \hD70D, \h4E04, \h3903, \hA767, \hD060, \h4969, \h3E6E, \hAED1, \hD9D6,
  \h40DF, \h37D8, \hA9BC, \hDEBB, \h47B2, \h30B5, \hBDBD, \hCABA, \h53B3,
  \h24B4, \hBAD0, \hCDD7, \h54DE, \h23D9, \hB366, \hC461, \h5D68, \h2A6F,
  \hB40B, \hC30C, \h5A05, \h2D02 >>
Low == <<
  \h0000, \h3096, \h612C, \h51BA, \hC419, \hF48F, \hA535, \h95A3, \h8832,
  \hB8A4, \hE91E, \hD988, \h4C2B, \h7CBD, \h2D07, \h1D91, \h1064, \h20F2,
  \h7148, \h41DE, \hD47D, \hE4EB, \hB551, \h85C7, \h9856, \hA8C0, \hF97A,
  \hC9EC, \h5C4F, \h6CD9, \h3D63, \h0DF5, \h20C8, \h105E, \h41E4, \h7172,
  \hE4D1, \hD447, \h85FD, \hB56B, \hA8FA, \h986C, \hC9D6, \hF940, \h6CE3,
  \h5C75, \h0DCF, \h3D59, \h30AC, \h003A, \h5180, \h6116, \hF4B5, \hC423,
  \h9599, \hA50F, \hB89E, \h8808, \hD9B2, \hE924, \h7C87, \h4C11, \h1DAB,
  \h2D3D, \h4190, \h7106, \h20BC, \h102A, \h8589, \hB51F, \hE4A5, \hD433,
  \hC9A2, \hF934, \hA88E, \h9818, \h0DBB, \h3D2D, \h6C97, \h5C01, \h51F4,
  \h6162, \h30D8, \h004E, \h95ED, \hA57B, \hF4C1, \hC457, \hD9C6, \hE950,
  \hB8EA, \h887C, \h1DDF, \h2D49, \h7CF3, \h4C65, \h6158, \h51CE, \h0074,
  \h30E2, \hA541, \h95D7, \hC46D, \hF4FB, \hE96A, \hD9FC, \h8846, \hB8D0,
  \h2D73, \h1DE5, \h4C5F, \h7CC9, \h713C, \h41AA, \h1010, \h2086, \hB525,
  \h85B3, \hD409, \hE49F, \hF90E, \hC998, \h9822, \hA8B4, \h3D17, \h0D81,
  \h5C3B, \h6CAD, \h8320, \hB3B6, \hE20C, \hD29A, \h4739, \h77AF, \h2615,
  \h1683, \h0B12, \h3B84, \h6A3E, \h5AA8, \hCF0B, \hFF9D, \hAE27, \h9EB1,
  \h9344, \hA3D2, \hF268, \hC2FE, \h575D, \h67CB, \h3671, \h06E7, \h1B76,
  \h2BE0, \h7A5A, \h4ACC, \hDF6F, \hEFF9, \hBE43, \h8ED5, \hA3E8, \h937E,
  \hC2C4, \hF252, \h67F1, \h5767, \h06DD, \h364B, \h2BDA, \h1B4C, \h4AF6,
  \h7A60, \hEFC3, \hDF55, \h8EEF, \hBE79, \hB38C, \h831A, \hD2A0, \hE236,
  \h7795, \h4703, \h16B9, \h262F, \h3BBE, \h0B28, \h5A92, \h6A04, \hFFA7,
  \hCF31, \h9E8B, \hAE1D, \hC2B0, \hF226, \hA39C, \h930A, \h06A9, \h363F,
  \h6785, \h5713, \h4A82, \h7A14, \h2BAE, \h1B38, \h8E9B, \hBE0D, \hEFB7,
  \hDF21, \hD2D4, \hE242, \hB3F8, \h836E, \h16CD, \h265B, \h77E1, \h4777,
  \h5AE6, \h6A70, \h3BCA, \h0B5C, \h9EFF, \hAE69, \hFFD3, \hCF45, \hE278,
  \hD2EE, \h8354, \hB3C2, \h2661, \h16F7, \h474D, \h77DB, \h6A4A, \h5ADC,
  \h0B66, \h3BF0, \hAE53, \h9EC5, \hCF7F, \hFFE9, \hF21C, \hC28A, \h9330,
  \hA3A6, \h3605, \h0693, \h5729, \h67BF, \h7A2E, \h4AB8, \h1B02, \h2B94,
  \hBE37, \h8EA1, \hDF1B, \hEF8D >>
Number(b) == FoldFunction(+, 0, [i \in b |-> 2 ^ i])
Half(n)   == {i \in 0 .. 15 : (n \div 2 ^ i) % 2 = 1}

crc32_tbl ==
  [b \in Byte |-> Half(Low[Number(b) + 1]) \cup {i + 16 : i \in Half(High[Number(b) + 1])}]

crc32_init == Ones

Step(w, b) == Xor(Shift(w, 8), crc32_tbl[Xor(w \cap 0 .. 7, b)])

crc32_update(w, data) ==
  LET word[i \in 0 .. Len(data)] == IF i = 0 THEN w ELSE Step(word[i - 1], data[i])
  IN  word[Len(data)]

(* Slip: the closing inversion is left out.  (Operators introduced as      *)
(* "Slip:" are never used: each is a plausible mistake in the definition   *)
(* after it, kept to show that the properties would notice.)               *)
FinalPlain(w) == w

crc32_final(w) == Xor(w, Ones)

(***************************************************************************)
(* The packer, which is not part of the repository: the CRC-32 of IEEE     *)
(* 802.3, by its polynomial, bit by bit.                                   *)
(***************************************************************************)

Polynomial == {0, 1, 2, 4, 5, 7, 8, 10, 11, 12, 16, 22, 23, 26}

Divide(w, bit) ==
  IF (0 \in w) # bit THEN Xor(Shift(w, 1), {31 - e : e \in Polynomial}) ELSE Shift(w, 1)

(* The bits go in from the lowest of the first byte on. *)
Bit(body, k) == (k - 1) % 8 \in body[(k - 1) \div 8 + 1]
Register(body) ==
  LET register[k \in 0 .. 8 * Len(body)] ==
        IF k = 0 THEN Ones ELSE Divide(register[k - 1], Bit(body, k))
  IN  register
Packed(body) == Xor(Register(body)[8 * Len(body)], Ones)

(* The table of crc32.c is that of the polynomial: eight divisions of each *)
(* byte.  TLC evaluates it for all 256.                                    *)
Turn(w) == Divide(w, FALSE)
ASSUME TableAssumption ==
  \A b \in Byte : crc32_tbl[b] = Turn(Turn(Turn(Turn(Turn(Turn(Turn(Turn(b))))))))

(***************************************************************************)
(* boot.c                                                                  *)
(***************************************************************************)

(* firm_pkg_t is at the end of the app partition, and at the start of the  *)
(* download partition in front of the body.                                *)
HeaderOff(off) == IF off = 0 THEN PartLen - 1 ELSE 0

(* The body at off, its bytes from at on flipped by the mask; what else is *)
(* in the partition is erased.                                             *)
Damaged(body, at, mask) ==
  [k \in DOMAIN body |-> IF k - at \in DOMAIN mask THEN Xor(body[k], mask[k - at]) ELSE body[k]]
InPart(body, off) ==
  [k \in 0 .. PartLen - 1 |->
     CASE k = HeaderOff(off)           -> Header
       [] k - off + 1 \in DOMAIN body  -> body[k - off + 1]
       [] OTHER                        -> 0 .. 7]

InitCheck == pc = "start" /\ crc = {} /\ total_length = 0 /\ ret = "none"

Init ==
  /\ firm \in Firms /\ body_crc32 = Packed(firm) /\ firm_off \in Offsets
  /\ \E mask \in Masks \cup {<< >>} : \E at \in 0 .. Len(firm) :
       part = InPart(Damaged(firm, at, mask), firm_off)
  /\ InitCheck

Return(r) == pc' = "done" /\ ret' = r /\ UNCHANGED <<crc, total_length>>

(* get_firm_header finds the header, and its length fits. *)
Admitted == part[HeaderOff(firm_off)] = Header /\ Len(firm) + firm_off <= PartLen

Start ==
  /\ pc = "start"
  /\ \/ ~Admitted /\ Return("error")
     \/ /\ Admitted
        /\ pc' = "loop" /\ crc' = crc32_init
        /\ UNCHANGED <<total_length, ret>>

PieceLen ==
  LET left == Len(firm) - total_length
  IN  IF left > FirmBufSize THEN FirmBufSize ELSE left

(* Slip: only a negative length is an error. *)
NegativeOnly(length, at) == at + length > PartLen

ReadFails(length, at) == length = 0 \/ at + length > PartLen

(* check_part_firm *)
Verdict(calc_crc) == IF calc_crc = body_crc32 THEN "ok" ELSE "error"

(* fal_partition_read returns the piece's length, or an error for a piece  *)
(* that ends behind the partition.  A piece of no bytes is an error too.   *)
Loop ==
  LET length == PieceLen
      at     == firm_off + total_length
      data   == [k \in 1 .. length |-> part[at + k - 1]]
      now    == crc32_update(crc, data)
  IN  /\ pc = "loop"
      /\ \/ ReadFails(length, at) /\ Return("error")
         \/ /\ ~ReadFails(length, at)
            /\ crc' = now
            /\ total_length' = total_length + length
            /\ IF total_length' < Len(firm)
               THEN UNCHANGED <<pc, ret>>
               ELSE /\ pc' = "done"
                    /\ ret' = Verdict(crc32_final(now))

Check == (Start \/ Loop) /\ UNCHANGED <<firm, body_crc32, part, firm_off>>

(***************************************************************************)
(* Properties                                                              *)
(***************************************************************************)

Body == [k \in 1 .. Len(firm) |-> part[firm_off + k - 1]]
Fits == Len(firm) \in 1 .. PartLen - firm_off
Whole == part[HeaderOff(firm_off)] = Header /\ Fits /\ Body = firm

(* What was packed is accepted: the table, the order of the bits, the      *)
(* inversions and the split into pieces together are the packer's CRC-32.  *)
IntactAccepted == pc = "done" /\ Whole => ret = "ok"

(* A body damaged in bytes next to each other is refused, wherever the     *)
(* damage is and however the pieces cut it; the equality of cells that the *)
(* module Boot puts in the place of a check.  A header of an empty body is *)
(* refused too, although the CRC-32 of nothing is 0, as in blanked memory. *)
OkMeansWhole == ret = "ok" => Whole
=============================================================================
