---------------------------- MODULE CodecFormats ----------------------------
(***************************************************************************)
(* The operands of each instruction format: where decode_extract_* takes   *)
(* them from the word, where encode_encode_* puts them, and the bits that  *)
(* decode() tests.  srcs_regs_0 is the member srcs_regs[0], imm2 is _ui.   *)
(* The lists opnds and the counts that the extraction functions also fill  *)
(* are left out: encode() does not read them.                              *)
(***************************************************************************)
EXTENDS Integers, TLC

Piece(start, len, at) == [start |-> start, len |-> len, at |-> at]

NoOperands == [slot \in {} |-> {}]

-----------------------------------------------------------------------------
(* Extraction: extract32, sextract32, and the two calls deposit32 joins.   *)

U(start, len) == [pieces |-> {Piece(start, len, 0)}, length |-> len, signed |-> FALSE]

S(start, len) == [pieces |-> {Piece(start, len, 0)}, length |-> len, signed |-> TRUE]

Deposit(start, len, high, highLen) ==
    [pieces |-> {Piece(start, len, 0), Piece(high, highLen, 16)},
     length |-> 16 + highLen,
     signed |-> TRUE]

Extract01 ==
    [cv |-> [lsx_src_0 |-> U(5, 5), dst_cfreg |-> U(0, 3)],
     format_0 |-> [dst_reg |-> U(0, 5), srcs_regs_0 |-> U(5, 5)],
     format_1 |-> [srcs_regs_0 |-> U(5, 5), srcs_regs_1 |-> U(10, 5)],
     format_10 |-> [dst_freg |-> U(0, 5), srcs_fregs_0 |-> U(5, 5),
                    srcs_fregs_1 |-> U(10, 5)],
     format_11 |-> [dst_freg |-> U(0, 5), srcs_fregs_0 |-> U(5, 5)],
     format_12 |-> [dst_freg |-> U(0, 5), srcs_regs_0 |-> U(5, 5)],
     format_13 |-> [dst_reg |-> U(0, 5), srcs_fregs_0 |-> U(5, 5)],
     format_14 |-> [dst_fcsr |-> U(0, 5), srcs_regs_0 |-> U(5, 5)],
     format_15 |-> [dst_reg |-> U(0, 5), srcs_fcsrregs_0 |-> U(5, 5)],
     format_16 |-> [dst_cfreg |-> U(0, 3), srcs_fregs_0 |-> U(5, 5)],
     format_17 |-> [dst_freg |-> U(0, 5), srcs_cfregs_0 |-> U(5, 3)],
     format_18 |-> [dst_cfreg |-> U(0, 3), srcs_regs_0 |-> U(5, 5)],
     format_19 |-> [dst_reg |-> U(0, 5), srcs_cfregs_0 |-> U(5, 3)]]

Extract2 ==
    [format_2 |-> [dst_reg |-> U(0, 5), srcs_regs_0 |-> U(5, 5),
                   srcs_regs_1 |-> U(10, 5), sa |-> U(15, 2)],
     format_20 |-> [dst_reg |-> U(0, 5), srcs_regs_0 |-> U(5, 5), si |-> S(10, 12)],
     format_21 |-> [dst_reg |-> U(0, 5), srcs_regs_0 |-> U(5, 5), ui |-> U(10, 12)],
     format_22 |-> [dst_reg |-> U(0, 5), csr |-> U(10, 14)],
     format_23 |-> [dst_reg |-> U(0, 5), srcs_regs_0 |-> U(5, 5), csr |-> U(10, 14)],
     format_24 |-> [code_2 |-> U(0, 5), srcs_regs_0 |-> U(5, 5), si |-> S(10, 12)],
     format_25 |-> [dst_reg |-> U(0, 5), srcs_regs_0 |-> U(5, 5), level |-> U(10, 8)],
     format_26 |-> [srcs_regs_0 |-> U(5, 5), seq |-> U(10, 8)],
     format_27 |-> NoOperands,
     format_28 |-> [level_3 |-> U(0, 15)],
     format_29 |-> [op |-> U(0, 5), srcs_regs_0 |-> U(5, 5), srcs_regs_1 |-> U(10, 5)]]

Extract3 ==
    [format_3 |-> [dst_reg |-> U(0, 5), srcs_regs_0 |-> U(5, 5),
                   srcs_regs_1 |-> U(10, 5), sa |-> U(15, 3)],
     format_30 |-> [dst_freg |-> U(0, 5), srcs_fregs_0 |-> U(5, 5),
                    srcs_fregs_1 |-> U(10, 5), srcs_fregs_2 |-> U(15, 5)],
     format_31 |-> [dst_cfreg |-> U(0, 3), srcs_fregs_0 |-> U(5, 5),
                    srcs_fregs_1 |-> U(10, 5)],
     format_32 |-> [dst_freg |-> U(0, 5), srcs_fregs_0 |-> U(5, 5),
                    srcs_fregs_1 |-> U(10, 5), srcs_cfregs_0 |-> U(15, 3)],
     format_33 |-> [dst_reg |-> U(0, 5), srcs_regs_0 |-> U(5, 5), si |-> S(10, 16)],
     format_34 |-> [dst_reg |-> U(0, 5), si |-> S(5, 20)],
     format_35 |-> [dst_reg |-> U(0, 5), srcs_regs_0 |-> U(5, 5), si |-> S(10, 14)],
     format_36 |-> [hint |-> U(0, 5), srcs_regs_0 |-> U(5, 5), si |-> S(10, 12)],
     format_37 |-> [dst_freg |-> U(0, 5), srcs_regs_0 |-> U(5, 5), si |-> S(10, 12)],
     format_38 |-> [hint |-> U(0, 5), srcs_regs_0 |-> U(5, 5),
                    srcs_regs_1 |-> U(10, 5)],
     format_39 |-> [dst_freg |-> U(0, 5), srcs_regs_0 |-> U(5, 5),
                    srcs_regs_1 |-> U(10, 5)]]

Extract4 ==
    [format_4 |-> [dst_reg |-> U(0, 5), srcs_regs_0 |-> U(5, 5),
                   srcs_regs_1 |-> U(10, 5)],
     format_40 |-> [hint |-> U(0, 15)],
     format_41 |-> [hint |-> U(0, 15)],
     format_42 |-> [srcs_regs_0 |-> U(5, 5), offs |-> Deposit(10, 16, 0, 5)],
     format_43 |-> [srcs_cfregs_0 |-> U(5, 3), offs |-> Deposit(10, 16, 0, 5)],
     format_44 |-> [dst_reg |-> U(0, 5), srcs_regs_0 |-> U(5, 5), offs |-> S(10, 16)],
     format_45 |-> [offs |-> Deposit(10, 16, 0, 10)],
     format_46 |-> [srcs_regs_0 |-> U(5, 5), dst_sccrach |-> U(0, 2)],
     format_47 |-> [sccrach_regs_0 |-> U(5, 2), dst_reg |-> U(0, 5)],
     format_48 |-> [ptr |-> U(5, 3)],
     format_49 |-> [dst_reg |-> U(0, 5)]]

Extract5 ==
    [format_5 |-> [code |-> U(0, 15)],
     format_50 |-> [srcs_regs_0 |-> U(5, 5)],
     format_51 |-> [si |-> S(10, 5), srcs_regs_0 |-> U(5, 5), dst_reg |-> U(0, 5)],
     format_52 |-> [cond |-> U(10, 4), srcs_regs_0 |-> U(5, 5), dst_reg |-> U(0, 5)],
     format_53 |-> [cond |-> U(10, 4), dst_reg |-> U(0, 5)],
     format_54 |-> [srcs_regs_0 |-> U(10, 5), srcs_regs_1 |-> U(5, 5),
                    cond |-> U(0, 4)],
     format_55 |-> [cond |-> U(10, 4), srcs_regs_0 |-> U(5, 5)],
     format_56 |-> [ui |-> U(10, 3), srcs_regs_0 |-> U(5, 5), dst_reg |-> U(0, 5)],
     format_57 |-> [ui |-> U(10, 4), srcs_regs_0 |-> U(5, 5), dst_reg |-> U(0, 5)],
     format_58 |-> [ui |-> U(10, 3), srcs_regs_0 |-> U(5, 5)],
     format_59 |-> [ui |-> U(10, 4), srcs_regs_0 |-> U(5, 5)]]

Extract6to9 ==
    [format_6 |-> [dst_reg |-> U(0, 5), srcs_regs_0 |-> U(5, 5), ui |-> U(10, 5)],
     format_60 |-> [ui |-> U(10, 5), srcs_regs_0 |-> U(5, 5)],
     format_61 |-> [ui |-> U(10, 6), srcs_regs_0 |-> U(5, 5)],
     format_62 |-> [ui |-> U(10, 8), op |-> U(5, 5), dst_reg |-> U(0, 5)],
     format_63 |-> [ui |-> U(10, 8), dst_reg |-> U(0, 5)],
     format_64 |-> [offs |-> Deposit(10, 16, 0, 5)],
     format_7 |-> [dst_reg |-> U(0, 5), srcs_regs_0 |-> U(5, 5), ui |-> U(10, 6)],
     format_8 |-> [dst_reg |-> U(0, 5), srcs_regs_0 |-> U(5, 5), msb |-> U(16, 5),
                   lsb |-> U(10, 5)],
     format_9 |-> [dst_reg |-> U(0, 5), srcs_regs_0 |-> U(5, 5), msb |-> U(16, 6),
                   lsb |-> U(10, 6)]]

ExtractVR ==
    [rv_ui1 |-> [ui |-> U(10, 1), lsx_src_0 |-> U(5, 5), dst_reg |-> U(0, 5)],
     rv_ui2 |-> [ui |-> U(10, 2), lsx_src_0 |-> U(5, 5), dst_reg |-> U(0, 5)],
     rv_ui3 |-> [ui |-> U(10, 3), lsx_src_0 |-> U(5, 5), dst_reg |-> U(0, 5)],
     rv_ui4 |-> [ui |-> U(10, 4), lsx_src_0 |-> U(5, 5), dst_reg |-> U(0, 5)],
     v_i13 |-> [ui |-> U(5, 13), dst_lsx_reg |-> U(0, 5)],
     vr |-> [srcs_regs_0 |-> U(5, 5), dst_lsx_reg |-> U(0, 5)],
     vr_i10 |-> [srcs_regs_0 |-> U(5, 5), dst_lsx_reg |-> U(0, 5), si |-> S(10, 10)],
     vr_i11 |-> [srcs_regs_0 |-> U(5, 5), dst_lsx_reg |-> U(0, 5), si |-> S(10, 11)],
     vr_i12 |-> [si |-> S(10, 12), srcs_regs_0 |-> U(5, 5), dst_lsx_reg |-> U(0, 5)],
     vr_i8i1 |-> [imm2 |-> U(18, 1), srcs_regs_0 |-> U(5, 5), dst_lsx_reg |-> U(0, 5),
                  si |-> S(10, 8)],
     vr_i8i2 |-> [imm2 |-> U(18, 2), srcs_regs_0 |-> U(5, 5), dst_lsx_reg |-> U(0, 5),
                  si |-> S(10, 8)],
     vr_i8i3 |-> [imm2 |-> U(18, 3), srcs_regs_0 |-> U(5, 5), dst_lsx_reg |-> U(0, 5),
                  si |-> S(10, 8)],
     vr_i8i4 |-> [imm2 |-> U(18, 4), si |-> S(10, 8), srcs_regs_0 |-> U(5, 5),
                  dst_lsx_reg |-> U(0, 5)],
     vr_i9 |-> [srcs_regs_0 |-> U(5, 5), dst_lsx_reg |-> U(0, 5), si |-> S(10, 9)],
     vr_ui1 |-> [ui |-> U(10, 1), srcs_regs_0 |-> U(5, 5), dst_lsx_reg |-> U(0, 5)],
     vr_ui2 |-> [ui |-> U(10, 2), srcs_regs_0 |-> U(5, 5), dst_lsx_reg |-> U(0, 5)],
     vr_ui3 |-> [ui |-> U(10, 3), srcs_regs_0 |-> U(5, 5), dst_lsx_reg |-> U(0, 5)],
     vr_ui4 |-> [ui |-> U(10, 4), srcs_regs_0 |-> U(5, 5), dst_lsx_reg |-> U(0, 5)],
     vrr |-> [srcs_regs_0 |-> U(10, 5), srcs_regs_1 |-> U(5, 5),
              dst_lsx_reg |-> U(0, 5)]]

ExtractVV ==
    [vv |-> [lsx_src_0 |-> U(5, 5), dst_lsx_reg |-> U(0, 5)],
     vv_i5 |-> [si |-> S(10, 5), lsx_src_0 |-> U(5, 5), dst_lsx_reg |-> U(0, 5)],
     vv_ui1 |-> [ui |-> U(10, 1), lsx_src_0 |-> U(5, 5), dst_lsx_reg |-> U(0, 5)],
     vv_ui2 |-> [ui |-> U(10, 2), lsx_src_0 |-> U(5, 5), dst_lsx_reg |-> U(0, 5)],
     vv_ui3 |-> [ui |-> U(10, 3), lsx_src_0 |-> U(5, 5), dst_lsx_reg |-> U(0, 5)],
     vv_ui4 |-> [ui |-> U(10, 4), lsx_src_0 |-> U(5, 5), dst_lsx_reg |-> U(0, 5)],
     vv_ui5 |-> [ui |-> U(10, 5), lsx_src_0 |-> U(5, 5), dst_lsx_reg |-> U(0, 5)],
     vv_ui6 |-> [ui |-> U(10, 6), lsx_src_0 |-> U(5, 5), dst_lsx_reg |-> U(0, 5)],
     vv_ui7 |-> [ui |-> U(10, 7), lsx_src_0 |-> U(5, 5), dst_lsx_reg |-> U(0, 5)],
     vv_ui8 |-> [ui |-> U(10, 8), lsx_src_0 |-> U(5, 5), dst_lsx_reg |-> U(0, 5)],
     vvr |-> [srcs_regs_0 |-> U(10, 5), lsx_src_0 |-> U(5, 5), dst_lsx_reg |-> U(0, 5)],
     vvv |-> [lsx_src_0 |-> U(10, 5), lsx_src_1 |-> U(5, 5), dst_lsx_reg |-> U(0, 5)],
     vvv_fcond |-> [fcond |-> U(15, 5), lsx_src_0 |-> U(10, 5), lsx_src_1 |-> U(5, 5),
                    dst_lsx_reg |-> U(0, 5)],
     vvvv |-> [lsx_src_0 |-> U(15, 5), lsx_src_1 |-> U(10, 5), lsx_src_2 |-> U(5, 5),
               dst_lsx_reg |-> U(0, 5)],
     xr_i12 |-> [si |-> S(10, 12), srcs_regs_0 |-> U(5, 5), dst_lasx_reg |-> U(0, 5)]]

Extracts ==
    Extract01 @@ Extract2 @@ Extract3 @@ Extract4 @@ Extract5 @@ Extract6to9
        @@ ExtractVR @@ ExtractVV

-----------------------------------------------------------------------------
(* Encoding: encode32, and encode32_muti_field, which takes the bits of    *)
(* the second field from behind those of the first.                        *)

E(start, len) == {Piece(start, len, 0)}

(* A slip: the fields in the order they have in the word.                  *)
MultiInWordOrder(start, len, start2, len2) ==
    {Piece(start2, len2, 0), Piece(start, len, len2)}

Multi(start, len, start2, len2) == {Piece(start, len, 0), Piece(start2, len2, len)}

Encode01 ==
    [cv |-> [lsx_src_0 |-> E(5, 5), dst_cfreg |-> E(0, 3)],
     format_0 |-> [dst_reg |-> E(0, 5), srcs_regs_0 |-> E(5, 5)],
     format_1 |-> [srcs_regs_0 |-> E(5, 5), srcs_regs_1 |-> E(10, 5)],
     format_10 |-> [dst_freg |-> E(0, 5), srcs_fregs_0 |-> E(5, 5),
                    srcs_fregs_1 |-> E(10, 5)],
     format_11 |-> [dst_freg |-> E(0, 5), srcs_fregs_0 |-> E(5, 5)],
     format_12 |-> [dst_freg |-> E(0, 5), srcs_regs_0 |-> E(5, 5)],
     format_13 |-> [dst_reg |-> E(0, 5), srcs_fregs_0 |-> E(5, 5)],
     format_14 |-> [dst_fcsr |-> E(0, 5), srcs_regs_0 |-> E(5, 5)],
     format_15 |-> [dst_reg |-> E(0, 5), srcs_fcsrregs_0 |-> E(5, 5)],
     format_16 |-> [dst_cfreg |-> E(0, 3), srcs_fregs_0 |-> E(5, 5)],
     format_17 |-> [dst_freg |-> E(0, 5), srcs_cfregs_0 |-> E(5, 3)],
     format_18 |-> [dst_cfreg |-> E(0, 3), srcs_regs_0 |-> E(5, 5)],
     format_19 |-> [dst_reg |-> E(0, 5), srcs_cfregs_0 |-> E(5, 3)]]

Encode2 ==
    [format_2 |-> [dst_reg |-> E(0, 5), srcs_regs_0 |-> E(5, 5),
                   srcs_regs_1 |-> E(10, 5), sa |-> E(15, 2)],
     format_20 |-> [dst_reg |-> E(0, 5), srcs_regs_0 |-> E(5, 5), si |-> E(10, 12)],
     format_21 |-> [dst_reg |-> E(0, 5), srcs_regs_0 |-> E(5, 5), ui |-> E(10, 12)],
     format_22 |-> [dst_reg |-> E(0, 5), csr |-> E(10, 14)],
     format_23 |-> [dst_reg |-> E(0, 5), srcs_regs_0 |-> E(5, 5), csr |-> E(10, 14)],
     format_24 |-> [code_2 |-> E(0, 5), srcs_regs_0 |-> E(5, 5), si |-> E(10, 12)],
     format_25 |-> [dst_reg |-> E(0, 5), srcs_regs_0 |-> E(5, 5), level |-> E(10, 8)],
     format_26 |-> [srcs_regs_0 |-> E(5, 5), seq |-> E(10, 8)],
     format_27 |-> NoOperands,
     format_28 |-> [level_3 |-> E(0, 15)],
     format_29 |-> [op |-> E(0, 5), srcs_regs_0 |-> E(5, 5), srcs_regs_1 |-> E(10, 5)]]

Encode3 ==
    [format_3 |-> [dst_reg |-> E(0, 5), srcs_regs_0 |-> E(5, 5),
                   srcs_regs_1 |-> E(10, 5), sa |-> E(15, 3)],
     format_30 |-> [dst_freg |-> E(0, 5), srcs_fregs_0 |-> E(5, 5),
                    srcs_fregs_1 |-> E(10, 5), srcs_fregs_2 |-> E(15, 5)],
     format_31 |-> [dst_cfreg |-> E(0, 3), srcs_fregs_0 |-> E(5, 5),
                    srcs_fregs_1 |-> E(10, 5)],
     format_32 |-> [dst_freg |-> E(0, 5), srcs_fregs_0 |-> E(5, 5),
                    srcs_fregs_1 |-> E(10, 5), srcs_cfregs_0 |-> E(15, 3)],
     format_33 |-> [dst_reg |-> E(0, 5), srcs_regs_0 |-> E(5, 5), si |-> E(10, 16)],
     format_34 |-> [dst_reg |-> E(0, 5), si |-> E(5, 20)],
     format_35 |-> [dst_reg |-> E(0, 5), srcs_regs_0 |-> E(5, 5), si |-> E(10, 14)],
     format_36 |-> [hint |-> E(0, 5), srcs_regs_0 |-> E(5, 5), si |-> E(10, 12)],
     format_37 |-> [dst_freg |-> E(0, 5), srcs_regs_0 |-> E(5, 5), si |-> E(10, 12)],
     format_38 |-> [hint |-> E(0, 5), srcs_regs_0 |-> E(5, 5),
                    srcs_regs_1 |-> E(10, 5)],
     format_39 |-> [dst_freg |-> E(0, 5), srcs_regs_0 |-> E(5, 5),
                    srcs_regs_1 |-> E(10, 5)]]

Encode4 ==
    [format_4 |-> [dst_reg |-> E(0, 5), srcs_regs_0 |-> E(5, 5),
                   srcs_regs_1 |-> E(10, 5)],
     format_40 |-> [hint |-> E(0, 15)],
     format_41 |-> [hint |-> E(0, 15)],
     format_42 |-> [srcs_regs_0 |-> E(5, 5), offs |-> Multi(10, 16, 0, 5)],
     format_43 |-> [srcs_cfregs_0 |-> E(5, 3), offs |-> Multi(10, 16, 0, 5)],
     format_44 |-> [dst_reg |-> E(0, 5), srcs_regs_0 |-> E(5, 5), offs |-> E(10, 16)],
     format_45 |-> [offs |-> Multi(10, 16, 0, 10)],
     format_46 |-> [srcs_regs_0 |-> E(5, 5), dst_sccrach |-> E(0, 2)],
     format_47 |-> [sccrach_regs_0 |-> E(5, 2), dst_reg |-> E(0, 5)],
     format_48 |-> [ptr |-> E(5, 3)],
     format_49 |-> [dst_reg |-> E(0, 5)]]

Encode5 ==
    [format_5 |-> [code |-> E(0, 15)],
     format_50 |-> [srcs_regs_0 |-> E(5, 5)],
     format_51 |-> [si |-> E(10, 5), srcs_regs_0 |-> E(5, 5), dst_reg |-> E(0, 5)],
     format_52 |-> [cond |-> E(10, 4), srcs_regs_0 |-> E(5, 5), dst_reg |-> E(0, 5)],
     format_53 |-> [cond |-> E(10, 4), dst_reg |-> E(0, 5)],
     format_54 |-> [srcs_regs_0 |-> E(10, 5), srcs_regs_1 |-> E(5, 5),
                    cond |-> E(0, 4)],
     format_55 |-> [cond |-> E(10, 4), srcs_regs_0 |-> E(5, 5)],
     format_56 |-> [ui |-> E(10, 3), srcs_regs_0 |-> E(5, 5), dst_reg |-> E(0, 5)],
     format_57 |-> [ui |-> E(10, 4), srcs_regs_0 |-> E(5, 5), dst_reg |-> E(0, 5)],
     format_58 |-> [ui |-> E(10, 3), srcs_regs_0 |-> E(5, 5)],
     format_59 |-> [ui |-> E(10, 4), srcs_regs_0 |-> E(5, 5)]]

Encode6to9 ==
    [format_6 |-> [dst_reg |-> E(0, 5), srcs_regs_0 |-> E(5, 5), ui |-> E(10, 5)],
     format_60 |-> [ui |-> E(10, 5), srcs_regs_0 |-> E(5, 5)],
     format_61 |-> [ui |-> E(10, 6), srcs_regs_0 |-> E(5, 5)],
     format_62 |-> [ui |-> E(10, 8), op |-> E(5, 5), dst_reg |-> E(0, 5)],
     format_63 |-> [ui |-> E(10, 8), dst_reg |-> E(0, 5)],
     format_64 |-> [offs |-> Multi(10, 16, 0, 5)],
     format_7 |-> [dst_reg |-> E(0, 5), srcs_regs_0 |-> E(5, 5), ui |-> E(10, 6)],
     format_8 |-> [dst_reg |-> E(0, 5), srcs_regs_0 |-> E(5, 5), msb |-> E(16, 5),
                   lsb |-> E(10, 5)],
     format_9 |-> [dst_reg |-> E(0, 5), srcs_regs_0 |-> E(5, 5), msb |-> E(16, 6),
                   lsb |-> E(10, 6)]]

EncodeVR ==
    [rv_ui1 |-> [ui |-> E(10, 1), lsx_src_0 |-> E(5, 5), dst_reg |-> E(0, 5)],
     rv_ui2 |-> [ui |-> E(10, 2), lsx_src_0 |-> E(5, 5), dst_reg |-> E(0, 5)],
     rv_ui3 |-> [ui |-> E(10, 3), lsx_src_0 |-> E(5, 5), dst_reg |-> E(0, 5)],
     rv_ui4 |-> [ui |-> E(10, 4), lsx_src_0 |-> E(5, 5), dst_reg |-> E(0, 5)],
     v_i13 |-> [ui |-> E(5, 13), dst_lsx_reg |-> E(0, 5)],
     vr |-> [srcs_regs_0 |-> E(5, 5), dst_lsx_reg |-> E(0, 5)],
     vr_i10 |-> [srcs_regs_0 |-> E(5, 5), dst_lsx_reg |-> E(0, 5), si |-> E(10, 10)],
     vr_i11 |-> [srcs_regs_0 |-> E(5, 5), dst_lsx_reg |-> E(0, 5), si |-> E(10, 11)],
     vr_i12 |-> [si |-> E(10, 12), srcs_regs_0 |-> E(5, 5), dst_lsx_reg |-> E(0, 5)],
     vr_i8i1 |-> [imm2 |-> E(18, 1), srcs_regs_0 |-> E(5, 5), dst_lsx_reg |-> E(0, 5),
                  si |-> E(10, 8)],
     vr_i8i2 |-> [imm2 |-> E(18, 2), srcs_regs_0 |-> E(5, 5), dst_lsx_reg |-> E(0, 5),
                  si |-> E(10, 8)],
     vr_i8i3 |-> [imm2 |-> E(18, 3), srcs_regs_0 |-> E(5, 5), dst_lsx_reg |-> E(0, 5),
                  si |-> E(10, 8)],
     vr_i8i4 |-> [imm2 |-> E(18, 4), si |-> E(10, 8), srcs_regs_0 |-> E(5, 5),
                  dst_lsx_reg |-> E(0, 5)],
     vr_i9 |-> [srcs_regs_0 |-> E(5, 5), dst_lsx_reg |-> E(0, 5), si |-> E(10, 9)],
     vr_ui1 |-> [ui |-> E(10, 1), srcs_regs_0 |-> E(5, 5), dst_lsx_reg |-> E(0, 5)],
     vr_ui2 |-> [ui |-> E(10, 2), srcs_regs_0 |-> E(5, 5), dst_lsx_reg |-> E(0, 5)],
     vr_ui3 |-> [ui |-> E(10, 3), srcs_regs_0 |-> E(5, 5), dst_lsx_reg |-> E(0, 5)],
     vr_ui4 |-> [ui |-> E(10, 4), srcs_regs_0 |-> E(5, 5), dst_lsx_reg |-> E(0, 5)],
     vrr |-> [srcs_regs_0 |-> E(10, 5), srcs_regs_1 |-> E(5, 5),
              dst_lsx_reg |-> E(0, 5)]]

EncodeVV ==
    [vv |-> [lsx_src_0 |-> E(5, 5), dst_lsx_reg |-> E(0, 5)],
     vv_i5 |-> [si |-> E(10, 5), lsx_src_0 |-> E(5, 5), dst_lsx_reg |-> E(0, 5)],
     vv_ui1 |-> [ui |-> E(10, 1), lsx_src_0 |-> E(5, 5), dst_lsx_reg |-> E(0, 5)],
     vv_ui2 |-> [ui |-> E(10, 2), lsx_src_0 |-> E(5, 5), dst_lsx_reg |-> E(0, 5)],
     vv_ui3 |-> [ui |-> E(10, 3), lsx_src_0 |-> E(5, 5), dst_lsx_reg |-> E(0, 5)],
     vv_ui4 |-> [ui |-> E(10, 4), lsx_src_0 |-> E(5, 5), dst_lsx_reg |-> E(0, 5)],
     vv_ui5 |-> [ui |-> E(10, 5), lsx_src_0 |-> E(5, 5), dst_lsx_reg |-> E(0, 5)],
     vv_ui6 |-> [ui |-> E(10, 6), lsx_src_0 |-> E(5, 5), dst_lsx_reg |-> E(0, 5)],
     vv_ui7 |-> [ui |-> E(10, 7), lsx_src_0 |-> E(5, 5), dst_lsx_reg |-> E(0, 5)],
     vv_ui8 |-> [ui |-> E(10, 8), lsx_src_0 |-> E(5, 5), dst_lsx_reg |-> E(0, 5)],
     vvr |-> [srcs_regs_0 |-> E(10, 5), lsx_src_0 |-> E(5, 5), dst_lsx_reg |-> E(0, 5)],
     vvv |-> [lsx_src_0 |-> E(10, 5), lsx_src_1 |-> E(5, 5), dst_lsx_reg |-> E(0, 5)],
     vvv_fcond |-> [fcond |-> E(15, 5), lsx_src_0 |-> E(10, 5), lsx_src_1 |-> E(5, 5),
                    dst_lsx_reg |-> E(0, 5)],
     vvvv |-> [lsx_src_0 |-> E(15, 5), lsx_src_1 |-> E(10, 5), lsx_src_2 |-> E(5, 5),
               dst_lsx_reg |-> E(0, 5)],
     xr_i12 |-> [si |-> E(10, 12), srcs_regs_0 |-> E(5, 5), dst_lasx_reg |-> E(0, 5)]]

Encodes ==
    Encode01 @@ Encode2 @@ Encode3 @@ Encode4 @@ Encode5 @@ Encode6to9
        @@ EncodeVR @@ EncodeVV

-----------------------------------------------------------------------------
(* The bits of a word of each format that the switches of decode() look at *)
(* on the way to its leaves.                                               *)
Tested ==
    [f \in {"format_33", "format_42", "format_44", "format_45"} |-> 26..31]
    @@ [f \in {"format_64"} |-> (26..31) \cup (5..9)]
    @@ [f \in {"format_43"} |-> (26..31) \cup (8..9)]
    @@ [f \in {"format_34"} |-> 25..31]
    @@ [f \in {"format_23", "format_35"} |-> 24..31]
    @@ [f \in {"format_22"} |-> (24..31) \cup (5..9)]
    @@ [f \in {"format_20", "format_21", "format_24", "format_36", "format_37",
               "format_9", "vr_i12", "vr_i8i4", "xr_i12"}
           |-> 22..31]
    @@ [f \in {"vr_i11", "vr_i8i3"} |-> 21..31]
    @@ [f \in {"format_8"} |-> (21..31) \cup {15}]
    @@ [f \in {"format_30", "vr_i10", "vr_i8i2", "vvv_fcond", "vvvv"} |-> 20..31]
    @@ [f \in {"vr_i8i1", "vr_i9"} |-> 19..31]
    @@ [f \in {"format_25", "format_3", "format_32", "format_62", "v_i13", "vv_ui8"}
           |-> 18..31]
    @@ [f \in {"format_26"} |-> (18..31) \cup (0..4)]
    @@ [f \in {"format_63"} |-> (18..31) \cup (5..9)]
    @@ [f \in {"format_2", "vv_ui7"} |-> 17..31]
    @@ [f \in {"format_7", "vv_ui6"} |-> 16..31]
    @@ [f \in {"format_61"} |-> (16..31) \cup (0..4)]
    @@ [f \in {"format_10", "format_28", "format_29", "format_38", "format_39",
               "format_4", "format_40", "format_41", "format_5", "format_51", "format_6",
               "vrr", "vv_i5", "vv_ui5", "vvr", "vvv"}
           |-> 15..31]
    @@ [f \in {"format_1", "format_60"} |-> (15..31) \cup (0..4)]
    @@ [f \in {"format_31"} |-> (15..31) \cup (3..4)]
    @@ [f \in {"format_54"} |-> (15..31) \cup {4}]
    @@ [f \in {"format_52", "format_57", "rv_ui4", "vr_ui4", "vv_ui4"} |-> 14..31]
    @@ [f \in {"format_55", "format_59"} |-> (14..31) \cup (0..4)]
    @@ [f \in {"format_53"} |-> (14..31) \cup (5..9)]
    @@ [f \in {"format_56", "rv_ui3", "vr_ui3", "vv_ui3"} |-> 13..31]
    @@ [f \in {"format_58"} |-> (13..31) \cup (0..4)]
    @@ [f \in {"rv_ui2", "vr_ui2", "vv_ui2"} |-> 12..31]
    @@ [f \in {"rv_ui1", "vr_ui1", "vv_ui1"} |-> 11..31]
    @@ [f \in {"format_0", "format_11", "format_12", "format_13", "format_14",
               "format_15", "vr", "vv"}
           |-> 10..31]
    @@ [f \in {"format_50"} |-> (10..31) \cup (0..4)]
    @@ [f \in {"format_46"} |-> (10..31) \cup (2..4)]
    @@ [f \in {"cv", "format_16", "format_18"} |-> (10..31) \cup (3..4)]
    @@ [f \in {"format_17", "format_19"} |-> 8..31]
    @@ [f \in {"format_48"} |-> (8..31) \cup (0..4)]
    @@ [f \in {"format_47"} |-> 7..31]
    @@ [f \in {"format_49"} |-> 5..31]
    @@ [f \in {"format_27"} |-> 0..31]
=============================================================================
