---------------------------- MODULE CodecOpcodes ----------------------------
(***************************************************************************)
(* The opcodes: the leaves of the tree of switches in decode(), and the    *)
(* arrays opc2bin and insn2format that encode() uses.  OPC_ is left off    *)
(* the names.                                                              *)
(***************************************************************************)
EXTENDS Integers, TLC

(* The positions of the ones of a number.  No opcode has bit 31.           *)
Bits(n) == {b \in 0..30 : (n \div 2^b) % 2 = 1}

-----------------------------------------------------------------------------
(* The leaves of decode(), in its order: the format whose extraction       *)
(* function is called on the way, and for each opcode the bits of the word *)
(* the switches have seen.                                                 *)

Under(format, values) ==
    [opc \in DOMAIN values |-> [format |-> format, bits |-> Bits(values[opc])]]

TreeFromGR2SCR ==
    Under("format_46", [GR2SCR |-> \h800])
    @@ Under("format_47", [SRC2GR |-> \hc00])
    @@ Under("format_0", [
        CLO_W |-> \h1000, CLZ_W |-> \h1400, CTO_W |-> \h1800, CTZ_W |-> \h1c00,
        CLO_D |-> \h2000, CLZ_D |-> \h2400, CTO_D |-> \h2800, CTZ_D |-> \h2c00,
        REVB_2H |-> \h3000, REVB_4H |-> \h3400, REVB_2W |-> \h3800, REVB_D |-> \h3c00,
        REVH_2W |-> \h4000, REVH_D |-> \h4400, BITREV_4B |-> \h4800,
        BITREV_8B |-> \h4c00, BITREV_W |-> \h5000, BITREV_D |-> \h5400,
        EXT_W_H |-> \h5800, EXT_W_B |-> \h5c00, RDTIMEL_W |-> \h6000,
        RDTIMEH_W |-> \h6400, RDTIME_D |-> \h6800, CPUCFG |-> \h6c00,
        SETX86LOOPE |-> \h7800, SETX86LOOPNE |-> \h7c00])
    @@ Under("format_48", [X86MTTOP |-> \h7000])
    @@ Under("format_49", [X86MFTOP |-> \h7400])
    @@ Under("format_50", [
        X86INC_B |-> \h8000, X86INC_H |-> \h8001, X86INC_W |-> \h8002,
        X86INC_D |-> \h8003, X86DEC_B |-> \h8004, X86DEC_H |-> \h8005,
        X86DEC_W |-> \h8006, X86DEC_D |-> \h8007])
    @@ Under("format_27", [
        X86SETTM |-> \h8008, X86CLRTM |-> \h8028, X86INCTOP |-> \h8009,
        X86DECTOP |-> \h8029])
    @@ Under("format_1", [ASRTLE_D |-> \h10000, ASRTGT_D |-> \h18000])

TreeFromALSL_W ==
    Under("format_2", [
        ALSL_W |-> \h40000, ALSL_WU |-> \h60000, BYTEPICK_W |-> \h80000])
    @@ Under("format_3", [BYTEPICK_D |-> \hc0000])
    @@ Under("format_4", [
        ADD_W |-> \h100000, ADD_D |-> \h108000, SUB_W |-> \h110000, SUB_D |-> \h118000,
        SLT |-> \h120000, SLTU |-> \h128000, MASKEQZ |-> \h130000,
        MASKNEZ |-> \h138000, NOR |-> \h140000, AND |-> \h148000, OR |-> \h150000,
        XOR |-> \h158000, ORN |-> \h160000, ANDN |-> \h168000, SLL_W |-> \h170000,
        SRL_W |-> \h178000, SRA_W |-> \h180000, SLL_D |-> \h188000, SRL_D |-> \h190000,
        SRA_D |-> \h198000, ROTR_B |-> \h1a0000, ROTR_H |-> \h1a8000,
        ROTR_W |-> \h1b0000, ROTR_D |-> \h1b8000, MUL_W |-> \h1c0000,
        MULH_W |-> \h1c8000, MULH_WU |-> \h1d0000, MUL_D |-> \h1d8000,
        MULH_D |-> \h1e0000, MULH_DU |-> \h1e8000, MULW_D_W |-> \h1f0000,
        MULW_D_WU |-> \h1f8000, DIV_W |-> \h200000, MOD_W |-> \h208000,
        DIV_WU |-> \h210000, MOD_WU |-> \h218000, DIV_D |-> \h220000,
        MOD_D |-> \h228000, DIV_DU |-> \h230000, MOD_DU |-> \h238000])

TreeFromCRC_W_B_W ==
    Under("format_4", [
        CRC_W_B_W |-> \h240000, CRC_W_H_W |-> \h248000, CRC_W_W_W |-> \h250000,
        CRC_W_D_W |-> \h258000, CRCC_W_B_W |-> \h260000, CRCC_W_H_W |-> \h268000,
        CRCC_W_W_W |-> \h270000, CRCC_W_D_W |-> \h278000, ADC_B |-> \h300000,
        ADC_H |-> \h308000, ADC_W |-> \h310000, ADC_D |-> \h318000, SBC_B |-> \h320000,
        SBC_H |-> \h328000, SBC_W |-> \h330000, SBC_D |-> \h338000, RCR_B |-> \h340000,
        RCR_H |-> \h348000, RCR_W |-> \h350000, RCR_D |-> \h358000])
    @@ Under("format_51", [ADDU12I_D |-> \h290000, ADDU12I_W |-> \h298000])
    @@ Under("format_5", [
        BREAK |-> \h2a0000, DBCL |-> \h2a8000, SYSCALL |-> \h2b0000, HVCL |-> \h2b8000])
    @@ Under("format_2", [ALSL_D |-> \h2c0000])
    @@ Under("format_52", [ARMMOVE |-> \h364000])
    @@ Under("format_53", [SETX86J |-> \h368000, SETARMJ |-> \h36c000])
    @@ Under("format_54", [
        ARMADD_W |-> \h370010, ARMSUB_W |-> \h378010, ARMADC_W |-> \h380010,
        ARMSBC_W |-> \h388010, ARMAND_W |-> \h390010, ARMOR_W |-> \h398010,
        ARMXOR_W |-> \h3a0010, ARMSLL_W |-> \h3a8010, ARMSRL_W |-> \h3b0010,
        ARMSRA_W |-> \h3b8010, ARMROTR_W |-> \h3c0010, ARMSLLI_W |-> \h3c8010,
        ARMSRLI_W |-> \h3d0010, ARMSRAI_W |-> \h3d8010])

TreeFromARMROTRI_W ==
    Under("format_54", [ARMROTRI_W |-> \h3e0010])
    @@ Under("format_1", [
        X86MUL_B |-> \h3e8000, X86MUL_H |-> \h3e8001, X86MUL_W |-> \h3e8002,
        X86MUL_D |-> \h3e8003, X86MUL_BU |-> \h3e8004, X86MUL_HU |-> \h3e8005,
        X86MUL_WU |-> \h3e8006, X86MUL_DU |-> \h3e8007, X86ADD_WU |-> \h3f0000,
        X86ADD_DU |-> \h3f0001, X86SUB_WU |-> \h3f0002, X86SUB_DU |-> \h3f0003,
        X86ADD_B |-> \h3f0004, X86ADD_H |-> \h3f0005, X86ADD_W |-> \h3f0006,
        X86ADD_D |-> \h3f0007, X86SUB_B |-> \h3f0008, X86SUB_H |-> \h3f0009,
        X86SUB_W |-> \h3f000a, X86SUB_D |-> \h3f000b, X86ADC_B |-> \h3f000c,
        X86ADC_H |-> \h3f000d, X86ADC_W |-> \h3f000e, X86ADC_D |-> \h3f000f,
        X86SBC_B |-> \h3f0010, X86SBC_H |-> \h3f0011, X86SBC_W |-> \h3f0012,
        X86SBC_D |-> \h3f0013, X86SLL_B |-> \h3f0014, X86SLL_H |-> \h3f0015,
        X86SLL_W |-> \h3f0016, X86SLL_D |-> \h3f0017, X86SRL_B |-> \h3f0018,
        X86SRL_H |-> \h3f0019, X86SRL_W |-> \h3f001a, X86SRL_D |-> \h3f001b,
        X86SRA_B |-> \h3f001c, X86SRA_H |-> \h3f001d, X86SRA_W |-> \h3f001e,
        X86SRA_D |-> \h3f001f, X86ROTR_B |-> \h3f8000, X86ROTR_H |-> \h3f8001,
        X86ROTR_D |-> \h3f8002])

TreeFromX86ROTR_W ==
    Under("format_1", [
        X86ROTR_W |-> \h3f8003, X86ROTL_B |-> \h3f8004, X86ROTL_H |-> \h3f8005,
        X86ROTL_W |-> \h3f8006, X86ROTL_D |-> \h3f8007, X86RCR_B |-> \h3f8008,
        X86RCR_H |-> \h3f8009, X86RCR_W |-> \h3f800a, X86RCR_D |-> \h3f800b,
        X86RCL_B |-> \h3f800c, X86RCL_H |-> \h3f800d, X86RCL_W |-> \h3f800e,
        X86RCL_D |-> \h3f800f, X86AND_B |-> \h3f8010, X86AND_H |-> \h3f8011,
        X86AND_W |-> \h3f8012, X86AND_D |-> \h3f8013, X86OR_B |-> \h3f8014,
        X86OR_H |-> \h3f8015, X86OR_W |-> \h3f8016, X86OR_D |-> \h3f8017,
        X86XOR_B |-> \h3f8018, X86XOR_H |-> \h3f8019, X86XOR_W |-> \h3f801a,
        X86XOR_D |-> \h3f801b])
    @@ Under("format_55", [
        ARMNOT_W |-> \h3fc01c, ARMMOV_W |-> \h3fc01d, ARMMOV_D |-> \h3fc01e,
        ARMRRX_W |-> \h3fc01f])

TreeFromSLLI_W ==
    Under("format_6", [
        SLLI_W |-> \h408000, SRLI_W |-> \h448000, SRAI_W |-> \h488000,
        ROTRI_W |-> \h4c8000, RCRI_W |-> \h508000])
    @@ Under("format_7", [
        SLLI_D |-> \h410000, SRLI_D |-> \h450000, SRAI_D |-> \h490000,
        ROTRI_D |-> \h4d0000, RCRI_D |-> \h510000])
    @@ Under("format_56", [ROTRI_B |-> \h4c2000, RCRI_B |-> \h502000])
    @@ Under("format_57", [ROTRI_H |-> \h4c4000, RCRI_H |-> \h504000])
    @@ Under("format_58", [
        X86SLLI_B |-> \h542000, X86SRLI_B |-> \h542004, X86SRAI_B |-> \h542008,
        X86ROTRI_B |-> \h54200c, X86RCRI_B |-> \h542010, X86ROTLI_B |-> \h542014,
        X86RCLI_B |-> \h542018])
    @@ Under("format_59", [
        X86SLLI_H |-> \h544001, X86SRLI_H |-> \h544005, X86SRAI_H |-> \h544009,
        X86ROTRI_H |-> \h54400d, X86RCRI_H |-> \h544011, X86ROTLI_H |-> \h544015,
        X86RCLI_H |-> \h544019])
    @@ Under("format_60", [
        X86SLLI_W |-> \h548002, X86SRLI_W |-> \h548006, X86SRAI_W |-> \h54800a,
        X86ROTRI_W |-> \h54800e, X86RCRI_W |-> \h548012, X86ROTLI_W |-> \h548016,
        X86RCLI_W |-> \h54801a])
    @@ Under("format_61", [
        X86SLLI_D |-> \h550003, X86SRLI_D |-> \h550007, X86SRAI_D |-> \h55000b,
        X86ROTRI_D |-> \h55000f, X86RCRI_D |-> \h550013, X86ROTLI_D |-> \h550017,
        X86RCLI_D |-> \h55001b])
    @@ Under("format_62", [X86SETTAG |-> \h580000])
    @@ Under("format_63", [X86MFFLAG |-> \h5c0000])

TreeFromX86MTFLAG ==
    Under("format_63", [
        X86MTFLAG |-> \h5c0020, ARMMFFLAG |-> \h5c0040, ARMMTFLAG |-> \h5c0060])
    @@ Under("format_8", [BSTRINS_W |-> \h600000, BSTRPICK_W |-> \h608000])
    @@ Under("format_9", [BSTRINS_D |-> \h800000, BSTRPICK_D |-> \hc00000])
    @@ Under("format_10", [
        FADD_S |-> \h1008000, FADD_D |-> \h1010000, FSUB_S |-> \h1028000,
        FSUB_D |-> \h1030000, FMUL_S |-> \h1048000, FMUL_D |-> \h1050000,
        FDIV_S |-> \h1068000, FDIV_D |-> \h1070000, FMAX_S |-> \h1088000,
        FMAX_D |-> \h1090000, FMIN_S |-> \h10a8000, FMIN_D |-> \h10b0000,
        FMAXA_S |-> \h10c8000, FMAXA_D |-> \h10d0000, FMINA_S |-> \h10e8000,
        FMINA_D |-> \h10f0000, FSCALEB_S |-> \h1108000, FSCALEB_D |-> \h1110000,
        FCOPYSIGN_S |-> \h1128000, FCOPYSIGN_D |-> \h1130000])
    @@ Under("format_11", [
        FABS_S |-> \h1140400, FABS_D |-> \h1140800, FNEG_S |-> \h1141400,
        FNEG_D |-> \h1141800, FLOGB_S |-> \h1142400, FLOGB_D |-> \h1142800,
        FCLASS_S |-> \h1143400, FCLASS_D |-> \h1143800, FSQRT_S |-> \h1144400,
        FSQRT_D |-> \h1144800, FRECIP_S |-> \h1145400, FRECIP_D |-> \h1145800,
        FRSQRT_S |-> \h1146400, FRSQRT_D |-> \h1146800, FMOV_S |-> \h1149400,
        FMOV_D |-> \h1149800])
    @@ Under("format_12", [MOVGR2FR_W |-> \h114a400])

TreeFromMOVGR2FR_D ==
    Under("format_12", [MOVGR2FR_D |-> \h114a800, MOVGR2FRH_W |-> \h114ac00])
    @@ Under("format_13", [
        MOVFR2GR_S |-> \h114b400, MOVFR2GR_D |-> \h114b800, MOVFRH2GR_S |-> \h114bc00])
    @@ Under("format_14", [MOVGR2FCSR |-> \h114c000])
    @@ Under("format_15", [MOVFCSR2GR |-> \h114c800])
    @@ Under("format_16", [MOVFR2CF |-> \h114d000])
    @@ Under("format_17", [MOVCF2FR |-> \h114d400])
    @@ Under("format_18", [MOVGR2CF |-> \h114d800])
    @@ Under("format_19", [MOVCF2GR |-> \h114dc00])
    @@ Under("format_11", [
        FCVT_LD_D |-> \h114e000, FCVT_UD_D |-> \h114e400, FCVT_S_D |-> \h1191800,
        FCVT_D_S |-> \h1192400, FTINTRM_W_S |-> \h11a0400, FTINTRM_W_D |-> \h11a0800,
        FTINTRM_L_S |-> \h11a2400, FTINTRM_L_D |-> \h11a2800,
        FTINTRP_W_S |-> \h11a4400, FTINTRP_W_D |-> \h11a4800,
        FTINTRP_L_S |-> \h11a6400, FTINTRP_L_D |-> \h11a6800,
        FTINTRZ_W_S |-> \h11a8400, FTINTRZ_W_D |-> \h11a8800,
        FTINTRZ_L_S |-> \h11aa400, FTINTRZ_L_D |-> \h11aa800,
        FTINTRNE_W_S |-> \h11ac400, FTINTRNE_W_D |-> \h11ac800,
        FTINTRNE_L_S |-> \h11ae400, FTINTRNE_L_D |-> \h11ae800,
        FTINT_W_S |-> \h11b0400, FTINT_W_D |-> \h11b0800, FTINT_L_S |-> \h11b2400,
        FTINT_L_D |-> \h11b2800, FFINT_S_W |-> \h11d1000, FFINT_S_L |-> \h11d1800,
        FFINT_D_W |-> \h11d2000, FFINT_D_L |-> \h11d2800, FRINT_S |-> \h11e4400,
        FRINT_D |-> \h11e4800])
    @@ Under("format_10", [FCVT_D_LC |-> \h1150000])

TreeFromSLTI ==
    Under("format_20", [
        SLTI |-> \h2000000, SLTUI |-> \h2400000, ADDI_W |-> \h2800000,
        ADDI_D |-> \h2c00000, LU52I_D |-> \h3000000])
    @@ Under("format_21", [ANDI |-> \h3400000, ORI |-> \h3800000, XORI |-> \h3c00000])
    @@ Under("format_22", [
        CSRRD |-> \h4000000, CSRWR |-> \h4000020, GCSRRD |-> \h5000000,
        GCSRWR |-> \h5000020])
    @@ Under("format_23", [CSRXCHG |-> \h4000000, GCSRXCHG |-> \h5000000])
    @@ Under("format_24", [CACOP |-> \h6000000])
    @@ Under("format_25", [LDDIR |-> \h6400000])
    @@ Under("format_26", [LDPTE |-> \h6440000])
    @@ Under("format_0", [
        IOCSRRD_B |-> \h6480000, IOCSRRD_H |-> \h6480400, IOCSRRD_W |-> \h6480800,
        IOCSRRD_D |-> \h6480c00, IOCSRWR_B |-> \h6481000, IOCSRWR_H |-> \h6481400,
        IOCSRWR_W |-> \h6481800, IOCSRWR_D |-> \h6481c00, SCFGR_W |-> \h6492000,
        SCFGR_D |-> \h6492400, SCFGW_W |-> \h6492800, SCFGW_D |-> \h6492c00])
    @@ Under("format_27", [
        TLBCLR |-> \h6482000, GTLBCLR |-> \h6482001, TLBFLUSH |-> \h6482400,
        GTLBFLUSH |-> \h6482401, TLBSRCH |-> \h6482800, GTLBSRCH |-> \h6482801,
        TLBRD |-> \h6482c00, GTLBRD |-> \h6482c01, TLBWR |-> \h6483000,
        GTLBWR |-> \h6483001, TLBFILL |-> \h6483400, GTLBFILL |-> \h6483401,
        ERTN |-> \h6483800, SNOP |-> \h6493000])
    @@ Under("format_28", [IDLE |-> \h6488000])

TreeFromINVTLB ==
    Under("format_29", [INVTLB |-> \h6498000])
    @@ Under("format_30", [
        FMADD_S |-> \h8100000, FMADD_D |-> \h8200000, FMSUB_S |-> \h8500000,
        FMSUB_D |-> \h8600000, FNMADD_S |-> \h8900000, FNMADD_D |-> \h8a00000,
        FNMSUB_S |-> \h8d00000, FNMSUB_D |-> \h8e00000])
    @@ Under("vvvv", [
        VFMADD_S |-> \h9100000, VFMADD_D |-> \h9200000, VFMSUB_S |-> \h9500000,
        VFMSUB_D |-> \h9600000, VFNMADD_S |-> \h9900000, VFNMADD_D |-> \h9a00000,
        VFNMSUB_S |-> \h9d00000, VFNMSUB_D |-> \h9e00000])
    @@ Under("format_31", [
        FCMP_CAF_S |-> \hc100000, FCMP_SAF_S |-> \hc108000, FCMP_CLT_S |-> \hc110000,
        FCMP_STL_S |-> \hc118000, FCMP_CEQ_S |-> \hc120000, FCMP_SEQ_S |-> \hc128000,
        FCMP_CLE_S |-> \hc130000, FCMP_SLE_S |-> \hc138000, FCMP_CUN_S |-> \hc140000,
        FCMP_SUN_S |-> \hc148000, FCMP_CULT_S |-> \hc150000, FCMP_SULT_S |-> \hc158000,
        FCMP_CUEQ_S |-> \hc160000, FCMP_SUEQ_S |-> \hc168000,
        FCMP_CULE_S |-> \hc170000, FCMP_SULE_S |-> \hc178000, FCMP_CNE_S |-> \hc180000,
        FCMP_SNE_S |-> \hc188000, FCMP_COR_S |-> \hc1a0000, FCMP_SOR_S |-> \hc1a8000,
        FCMP_CUNE_S |-> \hc1c0000, FCMP_SUNE_S |-> \hc1c8000, FCMP_CAF_D |-> \hc200000,
        FCMP_SAF_D |-> \hc208000, FCMP_CLT_D |-> \hc210000, FCMP_STL_D |-> \hc218000,
        FCMP_CEQ_D |-> \hc220000])

TreeFromFCMP_SEQ_D ==
    Under("format_31", [
        FCMP_SEQ_D |-> \hc228000, FCMP_CLE_D |-> \hc230000, FCMP_SLE_D |-> \hc238000,
        FCMP_CUN_D |-> \hc240000, FCMP_SUN_D |-> \hc248000, FCMP_CULT_D |-> \hc250000,
        FCMP_SULT_D |-> \hc258000, FCMP_CUEQ_D |-> \hc260000,
        FCMP_SUEQ_D |-> \hc268000, FCMP_CULE_D |-> \hc270000,
        FCMP_SULE_D |-> \hc278000, FCMP_CNE_D |-> \hc280000, FCMP_SNE_D |-> \hc288000,
        FCMP_COR_D |-> \hc2a0000, FCMP_SOR_D |-> \hc2a8000, FCMP_CUNE_D |-> \hc2c0000,
        FCMP_SUNE_D |-> \hc2c8000])
    @@ Under("vvv_fcond", [VFCMP_COND_S |-> \hc500000, VFCMP_COND_D |-> \hc600000])
    @@ Under("format_32", [FSEL |-> \hd000000])
    @@ Under("vvvv", [VBITSEL_V |-> \hd100000, VSHUF_B |-> \hd500000])
    @@ Under("format_33", [ADDU16I_D |-> \h10000000])
    @@ Under("format_34", [
        LU12I_W |-> \h14000000, LU32I_D |-> \h16000000, PCADDI |-> \h18000000,
        PCALAU12I |-> \h1a000000, PCADDU12I |-> \h1c000000])

TreeFromPCADDU18I ==
    Under("format_34", [PCADDU18I |-> \h1e000000])
    @@ Under("format_35", [
        LL_W |-> \h20000000, SC_W |-> \h21000000, LL_D |-> \h22000000,
        SC_D |-> \h23000000, LDPTR_W |-> \h24000000, STPTR_W |-> \h25000000,
        LDPTR_D |-> \h26000000, STPTR_D |-> \h27000000])
    @@ Under("format_20", [
        LD_B |-> \h28000000, LD_H |-> \h28400000, LD_W |-> \h28800000,
        LD_D |-> \h28c00000, ST_B |-> \h29000000, ST_H |-> \h29400000,
        ST_W |-> \h29800000, ST_D |-> \h29c00000, LD_BU |-> \h2a000000,
        LD_HU |-> \h2a400000, LD_WU |-> \h2a800000])
    @@ Under("format_36", [PRELD |-> \h2ac00000])
    @@ Under("format_37", [
        FLD_S |-> \h2b000000, FST_S |-> \h2b400000, FLD_D |-> \h2b800000,
        FST_D |-> \h2bc00000])
    @@ Under("vr_i12", [VLD |-> \h2c000000, VST |-> \h2c400000])
    @@ Under("xr_i12", [XVLD |-> \h2c800000])

TreeFromXVST ==
    Under("xr_i12", [XVST |-> \h2cc00000])
    @@ Under("format_20", [
        LDL_W |-> \h2e000000, LDR_W |-> \h2e400000, LDL_D |-> \h2e800000,
        LDR_D |-> \h2ec00000, STL_W |-> \h2f000000, STR_W |-> \h2f400000,
        STL_D |-> \h2f800000, STR_D |-> \h2fc00000])
    @@ Under("vr_i9", [VLDREPL_D |-> \h30100000])
    @@ Under("vr_i10", [VLDREPL_W |-> \h30200000])
    @@ Under("vr_i11", [VLDREPL_H |-> \h30400000])
    @@ Under("vr_i12", [VLDREPL_B |-> \h30800000])
    @@ Under("vr_i8i1", [VSTELM_D |-> \h31100000])
    @@ Under("vr_i8i2", [VSTELM_W |-> \h31200000])
    @@ Under("vr_i8i3", [VSTELM_H |-> \h31400000])
    @@ Under("vr_i8i4", [VSTELM_B |-> \h31800000])
    @@ Under("format_4", [
        LDX_B |-> \h38000000, LDX_H |-> \h38040000, LDX_W |-> \h38080000,
        LDX_D |-> \h380c0000, STX_B |-> \h38100000, STX_H |-> \h38140000,
        STX_W |-> \h38180000, STX_D |-> \h381c0000, LDX_BU |-> \h38200000,
        LDX_HU |-> \h38240000, LDX_WU |-> \h38280000])
    @@ Under("format_38", [PRELDX |-> \h382c0000])
    @@ Under("format_39", [
        FLDX_S |-> \h38300000, FLDX_D |-> \h38340000, FSTX_S |-> \h38380000,
        FSTX_D |-> \h383c0000])

TreeFromVLDX ==
    Under("vrr", [VLDX |-> \h38400000, VSTX |-> \h38440000])
    @@ Under("format_4", [
        AMSWAP_W |-> \h38600000, AMSWAP_D |-> \h38608000, AMADD_W |-> \h38610000,
        AMADD_D |-> \h38618000, AMAND_W |-> \h38620000, AMAND_D |-> \h38628000,
        AMOR_W |-> \h38630000, AMOR_D |-> \h38638000, AMXOR_W |-> \h38640000,
        AMXOR_D |-> \h38648000, AMMAX_W |-> \h38650000, AMMAX_D |-> \h38658000,
        AMMIN_W |-> \h38660000, AMMIN_D |-> \h38668000, AMMAX_WU |-> \h38670000,
        AMMAX_DU |-> \h38678000, AMMIN_WU |-> \h38680000, AMMIN_DU |-> \h38688000,
        AMSWAP_DB_W |-> \h38690000, AMSWAP_DB_D |-> \h38698000,
        AMADD_DB_W |-> \h386a0000, AMADD_DB_D |-> \h386a8000,
        AMAND_DB_W |-> \h386b0000, AMAND_DB_D |-> \h386b8000, AMOR_DB_W |-> \h386c0000,
        AMOR_DB_D |-> \h386c8000, AMXOR_DB_W |-> \h386d0000, AMXOR_DB_D |-> \h386d8000,
        AMMAX_DB_W |-> \h386e0000, AMMAX_DB_D |-> \h386e8000,
        AMMIN_DB_W |-> \h386f0000, AMMIN_DB_D |-> \h386f8000,
        AMMAX_DB_WU |-> \h38700000, AMMAX_DB_DU |-> \h38708000,
        AMMIN_DB_WU |-> \h38710000, AMMIN_DB_DU |-> \h38718000])
    @@ Under("format_40", [DBAR |-> \h38720000])
    @@ Under("format_41", [IBAR |-> \h38728000])
    @@ Under("format_39", [
        FLDGT_S |-> \h38740000, FLDGT_D |-> \h38748000, FLDLE_S |-> \h38750000,
        FLDLE_D |-> \h38758000])

TreeFromFSTGT_S ==
    Under("format_39", [
        FSTGT_S |-> \h38760000, FSTGT_D |-> \h38768000, FSTLE_S |-> \h38770000,
        FSTLE_D |-> \h38778000])
    @@ Under("format_4", [
        LDGT_B |-> \h38780000, LDGT_H |-> \h38788000, LDGT_W |-> \h38790000,
        LDGT_D |-> \h38798000, LDLE_B |-> \h387a0000, LDLE_H |-> \h387a8000,
        LDLE_W |-> \h387b0000, LDLE_D |-> \h387b8000, STGT_B |-> \h387c0000,
        STGT_H |-> \h387c8000, STGT_W |-> \h387d0000, STGT_D |-> \h387d8000,
        STLE_B |-> \h387e0000, STLE_H |-> \h387e8000, STLE_W |-> \h387f0000,
        STLE_D |-> \h387f8000])
    @@ Under("format_42", [BEQZ |-> \h40000000, BNEZ |-> \h44000000])
    @@ Under("format_43", [BCEQZ |-> \h48000000, BCNEZ |-> \h48000100])
    @@ Under("format_64", [JISCR0 |-> \h48000200, JISCR1 |-> \h48000300])
    @@ Under("format_44", [JIRL |-> \h4c000000])
    @@ Under("format_45", [B |-> \h50000000])

TreeFromBL ==
    Under("format_45", [BL |-> \h54000000])
    @@ Under("format_44", [
        BEQ |-> \h58000000, BNE |-> \h5c000000, BLT |-> \h60000000, BGE |-> \h64000000,
        BLTU |-> \h68000000, BGEU |-> \h6c000000])
    @@ Under("vvv", [
        VSEQ_B |-> \h70000000, VSEQ_H |-> \h70008000, VSEQ_W |-> \h70010000,
        VSEQ_D |-> \h70018000, VSLE_B |-> \h70020000, VSLE_H |-> \h70028000,
        VSLE_W |-> \h70030000, VSLE_D |-> \h70038000, VSLE_BU |-> \h70040000,
        VSLE_HU |-> \h70048000, VSLE_WU |-> \h70050000, VSLE_DU |-> \h70058000,
        VSLT_B |-> \h70060000, VSLT_H |-> \h70068000, VSLT_W |-> \h70070000,
        VSLT_D |-> \h70078000, VSLT_BU |-> \h70080000, VSLT_HU |-> \h70088000,
        VSLT_WU |-> \h70090000, VSLT_DU |-> \h70098000, VADD_B |-> \h700a0000,
        VADD_H |-> \h700a8000, VADD_W |-> \h700b0000, VADD_D |-> \h700b8000,
        VSUB_B |-> \h700c0000, VSUB_H |-> \h700c8000, VSUB_W |-> \h700d0000,
        VSUB_D |-> \h700d8000, VADDWEV_H_B |-> \h701e0000, VADDWEV_W_H |-> \h701e8000,
        VADDWEV_D_W |-> \h701f0000, VADDWEV_Q_D |-> \h701f8000,
        VSUBWEV_H_B |-> \h70200000, VSUBWEV_W_H |-> \h70208000,
        VSUBWEV_D_W |-> \h70210000, VSUBWEV_Q_D |-> \h70218000,
        VADDWOD_H_B |-> \h70220000])

TreeFromVADDWOD_W_H ==
    Under("vvv", [
        VADDWOD_W_H |-> \h70228000, VADDWOD_D_W |-> \h70230000,
        VADDWOD_Q_D |-> \h70238000, VSUBWOD_H_B |-> \h70240000,
        VSUBWOD_W_H |-> \h70248000, VSUBWOD_D_W |-> \h70250000,
        VSUBWOD_Q_D |-> \h70258000, VADDWEV_H_BU |-> \h702e0000,
        VADDWEV_W_HU |-> \h702e8000, VADDWEV_D_WU |-> \h702f0000,
        VADDWEV_Q_DU |-> \h702f8000, VSUBWEV_H_BU |-> \h70300000,
        VSUBWEV_W_HU |-> \h70308000, VSUBWEV_D_WU |-> \h70310000,
        VSUBWEV_Q_DU |-> \h70318000, VADDWOD_H_BU |-> \h70320000,
        VADDWOD_W_HU |-> \h70328000, VADDWOD_D_WU |-> \h70330000,
        VADDWOD_Q_DU |-> \h70338000, VSUBWOD_H_BU |-> \h70340000,
        VSUBWOD_W_HU |-> \h70348000, VSUBWOD_D_WU |-> \h70350000,
        VSUBWOD_Q_DU |-> \h70358000, VADDWEV_H_BU_B |-> \h703e0000,
        VADDWEV_W_HU_H |-> \h703e8000, VADDWEV_D_WU_W |-> \h703f0000,
        VADDWEV_Q_DU_D |-> \h703f8000, VADDWOD_H_BU_B |-> \h70400000,
        VADDWOD_W_HU_H |-> \h70408000, VADDWOD_D_WU_W |-> \h70410000,
        VADDWOD_Q_DU_D |-> \h70418000, VSADD_B |-> \h70460000, VSADD_H |-> \h70468000,
        VSADD_W |-> \h70470000, VSADD_D |-> \h70478000, VSSUB_B |-> \h70480000,
        VSSUB_H |-> \h70488000, VSSUB_W |-> \h70490000, VSSUB_D |-> \h70498000,
        VSADD_BU |-> \h704a0000, VSADD_HU |-> \h704a8000, VSADD_WU |-> \h704b0000,
        VSADD_DU |-> \h704b8000, VSSUB_BU |-> \h704c0000])

TreeFromVSSUB_HU ==
    Under("vvv", [
        VSSUB_HU |-> \h704c8000, VSSUB_WU |-> \h704d0000, VSSUB_DU |-> \h704d8000,
        VHADDW_H_B |-> \h70540000, VHADDW_W_H |-> \h70548000,
        VHADDW_D_W |-> \h70550000, VHADDW_Q_D |-> \h70558000,
        VHSUBW_H_B |-> \h70560000, VHSUBW_W_H |-> \h70568000,
        VHSUBW_D_W |-> \h70570000, VHSUBW_Q_D |-> \h70578000,
        VHADDW_HU_BU |-> \h70580000, VHADDW_WU_HU |-> \h70588000,
        VHADDW_DU_WU |-> \h70590000, VHADDW_QU_DU |-> \h70598000,
        VHSUBW_HU_BU |-> \h705a0000, VHSUBW_WU_HU |-> \h705a8000,
        VHSUBW_DU_WU |-> \h705b0000, VHSUBW_QU_DU |-> \h705b8000,
        VADDA_B |-> \h705c0000, VADDA_H |-> \h705c8000, VADDA_W |-> \h705d0000,
        VADDA_D |-> \h705d8000, VABSD_B |-> \h70600000, VABSD_H |-> \h70608000,
        VABSD_W |-> \h70610000, VABSD_D |-> \h70618000, VABSD_BU |-> \h70620000,
        VABSD_HU |-> \h70628000, VABSD_WU |-> \h70630000, VABSD_DU |-> \h70638000,
        VAVG_B |-> \h70640000, VAVG_H |-> \h70648000, VAVG_W |-> \h70650000,
        VAVG_D |-> \h70658000, VAVG_BU |-> \h70660000, VAVG_HU |-> \h70668000,
        VAVG_WU |-> \h70670000, VAVG_DU |-> \h70678000, VAVGR_B |-> \h70680000,
        VAVGR_H |-> \h70688000, VAVGR_W |-> \h70690000, VAVGR_D |-> \h70698000,
        VAVGR_BU |-> \h706a0000])

TreeFromVAVGR_HU ==
    Under("vvv", [
        VAVGR_HU |-> \h706a8000, VAVGR_WU |-> \h706b0000, VAVGR_DU |-> \h706b8000,
        VMAX_B |-> \h70700000, VMAX_H |-> \h70708000, VMAX_W |-> \h70710000,
        VMAX_D |-> \h70718000, VMIN_B |-> \h70720000, VMIN_H |-> \h70728000,
        VMIN_W |-> \h70730000, VMIN_D |-> \h70738000, VMAX_BU |-> \h70740000,
        VMAX_HU |-> \h70748000, VMAX_WU |-> \h70750000, VMAX_DU |-> \h70758000,
        VMIN_BU |-> \h70760000, VMIN_HU |-> \h70768000, VMIN_WU |-> \h70770000,
        VMIN_DU |-> \h70778000, VMUL_B |-> \h70840000, VMUL_H |-> \h70848000,
        VMUL_W |-> \h70850000, VMUL_D |-> \h70858000, VMUH_B |-> \h70860000,
        VMUH_H |-> \h70868000, VMUH_W |-> \h70870000, VMUH_D |-> \h70878000,
        VMUH_BU |-> \h70880000, VMUH_HU |-> \h70888000, VMUH_WU |-> \h70890000,
        VMUH_DU |-> \h70898000, VMULWEV_H_B |-> \h70900000, VMULWEV_W_H |-> \h70908000,
        VMULWEV_D_W |-> \h70910000, VMULWEV_Q_D |-> \h70918000,
        VMULWOD_H_B |-> \h70920000, VMULWOD_W_H |-> \h70928000,
        VMULWOD_D_W |-> \h70930000, VMULWOD_Q_D |-> \h70938000,
        VMULWEV_H_BU |-> \h70980000, VMULWEV_W_HU |-> \h70988000,
        VMULWEV_D_WU |-> \h70990000, VMULWEV_Q_DU |-> \h70998000,
        VMULWOD_H_BU |-> \h709a0000])

TreeFromVMULWOD_W_HU ==
    Under("vvv", [
        VMULWOD_W_HU |-> \h709a8000, VMULWOD_D_WU |-> \h709b0000,
        VMULWOD_Q_DU |-> \h709b8000, VMULWEV_H_BU_B |-> \h70a00000,
        VMULWEV_W_HU_H |-> \h70a08000, VMULWEV_D_WU_W |-> \h70a10000,
        VMULWEV_Q_DU_D |-> \h70a18000, VMULWOD_H_BU_B |-> \h70a20000,
        VMULWOD_W_HU_H |-> \h70a28000, VMULWOD_D_WU_W |-> \h70a30000,
        VMULWOD_Q_DU_D |-> \h70a38000, VMADD_B |-> \h70a80000, VMADD_H |-> \h70a88000,
        VMADD_W |-> \h70a90000, VMADD_D |-> \h70a98000, VMSUB_B |-> \h70aa0000,
        VMSUB_H |-> \h70aa8000, VMSUB_W |-> \h70ab0000, VMSUB_D |-> \h70ab8000,
        VMADDWEV_H_B |-> \h70ac0000, VMADDWEV_W_H |-> \h70ac8000,
        VMADDWEV_D_W |-> \h70ad0000, VMADDWEV_Q_D |-> \h70ad8000,
        VMADDWOD_H_B |-> \h70ae0000, VMADDWOD_W_H |-> \h70ae8000,
        VMADDWOD_D_W |-> \h70af0000, VMADDWOD_Q_D |-> \h70af8000,
        VMADDWEV_H_BU |-> \h70b40000, VMADDWEV_W_HU |-> \h70b48000,
        VMADDWEV_D_WU |-> \h70b50000, VMADDWEV_Q_DU |-> \h70b58000,
        VMADDWOD_H_BU |-> \h70b60000, VMADDWOD_W_HU |-> \h70b68000,
        VMADDWOD_D_WU |-> \h70b70000, VMADDWOD_Q_DU |-> \h70b78000,
        VMADDWEV_H_BU_B |-> \h70bc0000, VMADDWEV_W_HU_H |-> \h70bc8000,
        VMADDWEV_D_WU_W |-> \h70bd0000, VMADDWEV_Q_DU_D |-> \h70bd8000,
        VMADDWOD_H_BU_B |-> \h70be0000, VMADDWOD_W_HU_H |-> \h70be8000,
        VMADDWOD_D_WU_W |-> \h70bf0000, VMADDWOD_Q_DU_D |-> \h70bf8000])

TreeFromVDIV_B ==
    Under("vvv", [
        VDIV_B |-> \h70e00000, VDIV_H |-> \h70e08000, VDIV_W |-> \h70e10000,
        VDIV_D |-> \h70e18000, VMOD_B |-> \h70e20000, VMOD_H |-> \h70e28000,
        VMOD_W |-> \h70e30000, VMOD_D |-> \h70e38000, VDIV_BU |-> \h70e40000,
        VDIV_HU |-> \h70e48000, VDIV_WU |-> \h70e50000, VDIV_DU |-> \h70e58000,
        VMOD_BU |-> \h70e60000, VMOD_HU |-> \h70e68000, VMOD_WU |-> \h70e70000,
        VMOD_DU |-> \h70e78000, VSLL_B |-> \h70e80000, VSLL_H |-> \h70e88000,
        VSLL_W |-> \h70e90000, VSLL_D |-> \h70e98000, VSRL_B |-> \h70ea0000,
        VSRL_H |-> \h70ea8000, VSRL_W |-> \h70eb0000, VSRL_D |-> \h70eb8000,
        VSRA_B |-> \h70ec0000, VSRA_H |-> \h70ec8000, VSRA_W |-> \h70ed0000,
        VSRA_D |-> \h70ed8000, VROTR_B |-> \h70ee0000, VROTR_H |-> \h70ee8000,
        VROTR_W |-> \h70ef0000, VROTR_D |-> \h70ef8000, VSRLR_B |-> \h70f00000,
        VSRLR_H |-> \h70f08000, VSRLR_W |-> \h70f10000, VSRLR_D |-> \h70f18000,
        VSRAR_B |-> \h70f20000, VSRAR_H |-> \h70f28000, VSRAR_W |-> \h70f30000,
        VSRAR_D |-> \h70f38000, VSRLN_B_H |-> \h70f48000, VSRLN_H_W |-> \h70f50000,
        VSRLN_W_D |-> \h70f58000, VSRAN_B_H |-> \h70f68000])

TreeFromVSRAN_H_W ==
    Under("vvv", [
        VSRAN_H_W |-> \h70f70000, VSRAN_W_D |-> \h70f78000, VSRLRN_B_H |-> \h70f88000,
        VSRLRN_H_W |-> \h70f90000, VSRLRN_W_D |-> \h70f98000,
        VSRARN_B_H |-> \h70fa8000, VSRARN_H_W |-> \h70fb0000,
        VSRARN_W_D |-> \h70fb8000, VSSRLN_B_H |-> \h70fc8000,
        VSSRLN_H_W |-> \h70fd0000, VSSRLN_W_D |-> \h70fd8000,
        VSSRAN_B_H |-> \h70fe8000, VSSRAN_H_W |-> \h70ff0000,
        VSSRAN_W_D |-> \h70ff8000, VSSRLRN_B_H |-> \h71008000,
        VSSRLRN_H_W |-> \h71010000, VSSRLRN_W_D |-> \h71018000,
        VSSRARN_B_H |-> \h71028000, VSSRARN_H_W |-> \h71030000,
        VSSRARN_W_D |-> \h71038000, VSSRLN_BU_H |-> \h71048000,
        VSSRLN_HU_W |-> \h71050000, VSSRLN_WU_D |-> \h71058000,
        VSSRAN_BU_H |-> \h71068000, VSSRAN_HU_W |-> \h71070000,
        VSSRAN_WU_D |-> \h71078000, VSSRLRN_BU_H |-> \h71088000,
        VSSRLRN_HU_W |-> \h71090000, VSSRLRN_WU_D |-> \h71098000,
        VSSRARN_BU_H |-> \h710a8000, VSSRARN_HU_W |-> \h710b0000,
        VSSRARN_WU_D |-> \h710b8000, VBITCLR_B |-> \h710c0000,
        VBITCLR_H |-> \h710c8000, VBITCLR_W |-> \h710d0000, VBITCLR_D |-> \h710d8000,
        VBITSET_B |-> \h710e0000, VBITSET_H |-> \h710e8000, VBITSET_W |-> \h710f0000,
        VBITSET_D |-> \h710f8000, VBITREV_B |-> \h71100000, VBITREV_H |-> \h71108000,
        VBITREV_W |-> \h71110000, VBITREV_D |-> \h71118000])

TreeFromVPACKEV_B ==
    Under("vvv", [
        VPACKEV_B |-> \h71160000, VPACKEV_H |-> \h71168000, VPACKEV_W |-> \h71170000,
        VPACKEV_D |-> \h71178000, VPACKOD_B |-> \h71180000, VPACKOD_H |-> \h71188000,
        VPACKOD_W |-> \h71190000, VPACKOD_D |-> \h71198000, VILVL_B |-> \h711a0000,
        VILVL_H |-> \h711a8000, VILVL_W |-> \h711b0000, VILVL_D |-> \h711b8000,
        VILVH_B |-> \h711c0000, VILVH_H |-> \h711c8000, VILVH_W |-> \h711d0000,
        VILVH_D |-> \h711d8000, VPICKEV_B |-> \h711e0000, VPICKEV_H |-> \h711e8000,
        VPICKEV_W |-> \h711f0000, VPICKEV_D |-> \h711f8000, VPICKOD_B |-> \h71200000,
        VPICKOD_H |-> \h71208000, VPICKOD_W |-> \h71210000, VPICKOD_D |-> \h71218000,
        VAND_V |-> \h71260000, VOR_V |-> \h71268000, VXOR_V |-> \h71270000,
        VNOR_V |-> \h71278000, VANDN_V |-> \h71280000, VORN_V |-> \h71288000,
        VFRSTP_B |-> \h712b0000, VFRSTP_H |-> \h712b8000, VADD_Q |-> \h712d0000,
        VSUB_Q |-> \h712d8000, VSIGNCOV_B |-> \h712e0000, VSIGNCOV_H |-> \h712e8000,
        VSIGNCOV_W |-> \h712f0000, VSIGNCOV_D |-> \h712f8000, VFADD_S |-> \h71308000,
        VFADD_D |-> \h71310000])
    @@ Under("vvr", [
        VREPLVE_B |-> \h71220000, VREPLVE_H |-> \h71228000, VREPLVE_W |-> \h71230000,
        VREPLVE_D |-> \h71238000])

TreeFromVFSUB_S ==
    Under("vvv", [
        VFSUB_S |-> \h71328000, VFSUB_D |-> \h71330000, VFMUL_S |-> \h71388000,
        VFMUL_D |-> \h71390000, VFDIV_S |-> \h713a8000, VFDIV_D |-> \h713b0000,
        VFMAX_S |-> \h713c8000, VFMAX_D |-> \h713d0000, VFMIN_S |-> \h713e8000,
        VFMIN_D |-> \h713f0000, VFMAXA_S |-> \h71408000, VFMAXA_D |-> \h71410000,
        VFMINA_S |-> \h71428000, VFMINA_D |-> \h71430000, VFCVT_H_S |-> \h71460000,
        VFCVT_S_D |-> \h71468000, VFFINT_S_L |-> \h71480000, VFTINT_W_D |-> \h71498000,
        VFTINTRM_W_D |-> \h714a0000, VFTINTRP_W_D |-> \h714a8000,
        VFTINTRZ_W_D |-> \h714b0000, VFTINTRNE_W_D |-> \h714b8000,
        VSHUF_H |-> \h717a8000, VSHUF_W |-> \h717b0000, VSHUF_D |-> \h717b8000])
    @@ Under("vv_i5", [
        VSEQI_B |-> \h72800000, VSEQI_H |-> \h72808000, VSEQI_W |-> \h72810000,
        VSEQI_D |-> \h72818000, VSLEI_B |-> \h72820000, VSLEI_H |-> \h72828000,
        VSLEI_W |-> \h72830000, VSLEI_D |-> \h72838000, VSLTI_B |-> \h72860000,
        VSLTI_H |-> \h72868000, VSLTI_W |-> \h72870000, VSLTI_D |-> \h72878000])
    @@ Under("vv_ui5", [
        VSLEI_BU |-> \h72840000, VSLEI_HU |-> \h72848000, VSLEI_WU |-> \h72850000,
        VSLEI_DU |-> \h72858000, VSLTI_BU |-> \h72880000, VSLTI_HU |-> \h72888000,
        VSLTI_WU |-> \h72890000])

TreeFromVSLTI_DU ==
    Under("vv_ui5", [
        VSLTI_DU |-> \h72898000, VADDI_BU |-> \h728a0000, VADDI_HU |-> \h728a8000,
        VADDI_WU |-> \h728b0000, VADDI_DU |-> \h728b8000, VSUBI_BU |-> \h728c0000,
        VSUBI_HU |-> \h728c8000, VSUBI_WU |-> \h728d0000, VSUBI_DU |-> \h728d8000,
        VBSLL_V |-> \h728e0000, VBSRL_V |-> \h728e8000, VMAXI_BU |-> \h72940000,
        VMAXI_HU |-> \h72948000, VMAXI_WU |-> \h72950000, VMAXI_DU |-> \h72958000,
        VMINI_BU |-> \h72960000, VMINI_HU |-> \h72968000, VMINI_WU |-> \h72970000,
        VMINI_DU |-> \h72978000, VFRSTPI_B |-> \h729a0000, VFRSTPI_H |-> \h729a8000])
    @@ Under("vv_i5", [
        VMAXI_B |-> \h72900000, VMAXI_H |-> \h72908000, VMAXI_W |-> \h72910000,
        VMAXI_D |-> \h72918000, VMINI_B |-> \h72920000, VMINI_H |-> \h72928000,
        VMINI_W |-> \h72930000, VMINI_D |-> \h72938000])
    @@ Under("vv", [
        VCLO_B |-> \h729c0000, VCLO_H |-> \h729c0400, VCLO_W |-> \h729c0800,
        VCLO_D |-> \h729c0c00, VCLZ_B |-> \h729c1000, VCLZ_H |-> \h729c1400,
        VCLZ_W |-> \h729c1800, VCLZ_D |-> \h729c1c00, VPCNT_B |-> \h729c2000,
        VPCNT_H |-> \h729c2400, VPCNT_W |-> \h729c2800, VPCNT_D |-> \h729c2c00,
        VNEG_B |-> \h729c3000, VNEG_H |-> \h729c3400, VNEG_W |-> \h729c3800])

TreeFromVNEG_D ==
    Under("vv", [
        VNEG_D |-> \h729c3c00, VMSKLTZ_B |-> \h729c4000, VMSKLTZ_H |-> \h729c4400,
        VMSKLTZ_W |-> \h729c4800, VMSKLTZ_D |-> \h729c4c00, VMSKGEZ_B |-> \h729c5000,
        VMSKNZ_B |-> \h729c6000, VFLOGB_S |-> \h729cc400, VFLOGB_D |-> \h729cc800,
        VFCLASS_S |-> \h729cd400, VFCLASS_D |-> \h729cd800, VFSQRT_S |-> \h729ce400,
        VFSQRT_D |-> \h729ce800, VFRECIP_S |-> \h729cf400, VFRECIP_D |-> \h729cf800,
        VFRSQRT_S |-> \h729d0400, VFRSQRT_D |-> \h729d0800, VFRINT_S |-> \h729d3400,
        VFRINT_D |-> \h729d3800, VFRINTRM_S |-> \h729d4400, VFRINTRM_D |-> \h729d4800,
        VFRINTRP_S |-> \h729d5400, VFRINTRP_D |-> \h729d5800,
        VFRINTRZ_S |-> \h729d6400, VFRINTRZ_D |-> \h729d6800,
        VFRINTRNE_S |-> \h729d7400, VFRINTRNE_D |-> \h729d7800,
        VFCVTL_S_H |-> \h729de800, VFCVTH_S_H |-> \h729dec00,
        VFCVTL_D_S |-> \h729df000, VFCVTH_D_S |-> \h729df400,
        VFFINT_S_W |-> \h729e0000, VFFINT_S_WU |-> \h729e0400,
        VFFINT_D_L |-> \h729e0800])
    @@ Under("cv", [
        VSETEQZ_V |-> \h729c9800, VSETNEZ_V |-> \h729c9c00,
        VSETANYEQZ_B |-> \h729ca000, VSETANYEQZ_H |-> \h729ca400,
        VSETANYEQZ_W |-> \h729ca800, VSETANYEQZ_D |-> \h729cac00,
        VSETALLNEZ_B |-> \h729cb000, VSETALLNEZ_H |-> \h729cb400,
        VSETALLNEZ_W |-> \h729cb800, VSETALLNEZ_D |-> \h729cbc00])

TreeFromVFFINT_D_LU ==
    Under("vv", [
        VFFINT_D_LU |-> \h729e0c00, VFFINTL_D_W |-> \h729e1000,
        VFFINTH_D_W |-> \h729e1400, VFTINT_W_S |-> \h729e3000,
        VFTINT_L_D |-> \h729e3400, VFTINTRM_W_S |-> \h729e3800,
        VFTINTRM_L_D |-> \h729e3c00, VFTINTRP_W_S |-> \h729e4000,
        VFTINTRP_L_D |-> \h729e4400, VFTINTRZ_W_S |-> \h729e4800,
        VFTINTRZ_L_D |-> \h729e4c00, VFTINTRNE_W_S |-> \h729e5000,
        VFTINTRNE_L_D |-> \h729e5400, VFTINT_WU_S |-> \h729e5800,
        VFTINT_LU_D |-> \h729e5c00, VFTINTRZ_WU_S |-> \h729e7000,
        VFTINTRZ_LU_D |-> \h729e7400, VFTINTL_L_S |-> \h729e8000,
        VFTINTH_L_S |-> \h729e8400, VFTINTRML_L_S |-> \h729e8800,
        VFTINTRMH_L_S |-> \h729e8c00, VFTINTRPL_L_S |-> \h729e9000,
        VFTINTRPH_L_S |-> \h729e9400, VFTINTRZL_L_S |-> \h729e9800,
        VFTINTRZH_L_S |-> \h729e9c00, VFTINTRNEL_L_S |-> \h729ea000,
        VFTINTRNEH_L_S |-> \h729ea400, VEXTH_H_B |-> \h729ee000,
        VEXTH_W_H |-> \h729ee400, VEXTH_D_W |-> \h729ee800, VEXTH_Q_D |-> \h729eec00,
        VEXTH_HU_BU |-> \h729ef000, VEXTH_WU_HU |-> \h729ef400,
        VEXTH_DU_WU |-> \h729ef800, VEXTH_QU_DU |-> \h729efc00])
    @@ Under("vr", [
        VREPLGR2VR_B |-> \h729f0000, VREPLGR2VR_H |-> \h729f0400,
        VREPLGR2VR_W |-> \h729f0800, VREPLGR2VR_D |-> \h729f0c00])
    @@ Under("vv_ui3", [VROTRI_B |-> \h72a02000, VSRLRI_B |-> \h72a42000])
    @@ Under("vv_ui4", [VROTRI_H |-> \h72a04000])
    @@ Under("vv_ui5", [VROTRI_W |-> \h72a08000])
    @@ Under("vv_ui6", [VROTRI_D |-> \h72a10000])

TreeFromVSRLRI_H ==
    Under("vv_ui4", [
        VSRLRI_H |-> \h72a44000, VSRARI_H |-> \h72a84000, VREPLVEI_B |-> \h72f78000,
        VSLLWIL_W_H |-> \h73084000, VSLLWIL_WU_HU |-> \h730c4000,
        VBITCLRI_H |-> \h73104000, VBITSETI_H |-> \h73144000, VBITREVI_H |-> \h73184000])
    @@ Under("vv_ui5", [
        VSRLRI_W |-> \h72a48000, VSRARI_W |-> \h72a88000, VSLLWIL_D_W |-> \h73088000,
        VSLLWIL_DU_WU |-> \h730c8000, VBITCLRI_W |-> \h73108000,
        VBITSETI_W |-> \h73148000, VBITREVI_W |-> \h73188000])
    @@ Under("vv_ui6", [
        VSRLRI_D |-> \h72a50000, VSRARI_D |-> \h72a90000, VBITCLRI_D |-> \h73110000,
        VBITSETI_D |-> \h73150000, VBITREVI_D |-> \h73190000])
    @@ Under("vv_ui3", [
        VSRARI_B |-> \h72a82000, VREPLVEI_H |-> \h72f7c000, VSLLWIL_H_B |-> \h73082000,
        VSLLWIL_HU_BU |-> \h730c2000, VBITCLRI_B |-> \h73102000,
        VBITSETI_B |-> \h73142000, VBITREVI_B |-> \h73182000, VSAT_B |-> \h73242000])
    @@ Under("vr_ui4", [VINSGR2VR_B |-> \h72eb8000])
    @@ Under("vr_ui3", [VINSGR2VR_H |-> \h72ebc000])
    @@ Under("vr_ui2", [VINSGR2VR_W |-> \h72ebe000])
    @@ Under("vr_ui1", [VINSGR2VR_D |-> \h72ebf000])
    @@ Under("rv_ui4", [VPICKVE2GR_B |-> \h72ef8000, VPICKVE2GR_BU |-> \h72f38000])
    @@ Under("rv_ui3", [VPICKVE2GR_H |-> \h72efc000, VPICKVE2GR_HU |-> \h72f3c000])
    @@ Under("rv_ui2", [VPICKVE2GR_W |-> \h72efe000, VPICKVE2GR_WU |-> \h72f3e000])
    @@ Under("rv_ui1", [VPICKVE2GR_D |-> \h72eff000, VPICKVE2GR_DU |-> \h72f3f000])
    @@ Under("vv_ui2", [VREPLVEI_W |-> \h72f7e000])
    @@ Under("vv_ui1", [VREPLVEI_D |-> \h72f7f000])
    @@ Under("vv", [VEXTL_Q_D |-> \h73090000, VEXTL_QU_DU |-> \h730d0000])

TreeFromVSAT_H ==
    Under("vv_ui4", [
        VSAT_H |-> \h73244000, VSAT_HU |-> \h73284000, VSLLI_H |-> \h732c4000,
        VSRLI_H |-> \h73304000, VSRAI_H |-> \h73344000, VSRLNI_B_H |-> \h73404000,
        VSRLRNI_B_H |-> \h73444000, VSSRLNI_B_H |-> \h73484000,
        VSSRLNI_BU_H |-> \h734c4000, VSSRLRNI_B_H |-> \h73504000,
        VSSRLRNI_BU_H |-> \h73544000, VSRANI_B_H |-> \h73584000])
    @@ Under("vv_ui5", [
        VSAT_W |-> \h73248000, VSAT_WU |-> \h73288000, VSLLI_W |-> \h732c8000,
        VSRLI_W |-> \h73308000, VSRAI_W |-> \h73348000, VSRLNI_H_W |-> \h73408000,
        VSRLRNI_H_W |-> \h73448000, VSSRLNI_H_W |-> \h73488000,
        VSSRLNI_HU_W |-> \h734c8000, VSSRLRNI_H_W |-> \h73508000,
        VSSRLRNI_HU_W |-> \h73548000])
    @@ Under("vv_ui6", [
        VSAT_D |-> \h73250000, VSAT_DU |-> \h73290000, VSLLI_D |-> \h732d0000,
        VSRLI_D |-> \h73310000, VSRAI_D |-> \h73350000, VSRLNI_W_D |-> \h73410000,
        VSRLRNI_W_D |-> \h73450000, VSSRLNI_W_D |-> \h73490000,
        VSSRLNI_WU_D |-> \h734d0000, VSSRLRNI_W_D |-> \h73510000,
        VSSRLRNI_WU_D |-> \h73550000])
    @@ Under("vv_ui3", [
        VSAT_BU |-> \h73282000, VSLLI_B |-> \h732c2000, VSRLI_B |-> \h73302000,
        VSRAI_B |-> \h73342000])
    @@ Under("vv_ui7", [
        VSRLNI_D_Q |-> \h73420000, VSRLRNI_D_Q |-> \h73460000,
        VSSRLNI_D_Q |-> \h734a0000, VSSRLNI_DU_Q |-> \h734e0000,
        VSSRLRNI_D_Q |-> \h73520000, VSSRLRNI_DU_Q |-> \h73560000])

TreeFromVSRANI_H_W ==
    Under("vv_ui5", [
        VSRANI_H_W |-> \h73588000, VSRARNI_H_W |-> \h735c8000,
        VSSRANI_H_W |-> \h73608000, VSSRANI_HU_W |-> \h73648000,
        VSSRARNI_H_W |-> \h73688000, VSSRARNI_HU_W |-> \h736c8000])
    @@ Under("vv_ui6", [
        VSRANI_W_D |-> \h73590000, VSRARNI_W_D |-> \h735d0000,
        VSSRANI_W_D |-> \h73610000, VSSRANI_WU_D |-> \h73650000,
        VSSRARNI_W_D |-> \h73690000, VSSRARNI_WU_D |-> \h736d0000])
    @@ Under("vv_ui7", [
        VSRANI_D_Q |-> \h735a0000, VSRARNI_D_Q |-> \h735e0000,
        VSSRANI_D_Q |-> \h73620000, VSSRANI_DU_Q |-> \h73660000,
        VSSRARNI_D_Q |-> \h736a0000, VSSRARNI_DU_Q |-> \h736e0000])
    @@ Under("vv_ui4", [
        VSRARNI_B_H |-> \h735c4000, VSSRANI_B_H |-> \h73604000,
        VSSRANI_BU_H |-> \h73644000, VSSRARNI_B_H |-> \h73684000,
        VSSRARNI_BU_H |-> \h736c4000])
    @@ Under("vv_ui8", [
        VEXTRINS_D |-> \h73800000, VEXTRINS_W |-> \h73840000,
        VEXTRINS_H |-> \h73880000, VEXTRINS_B |-> \h738c0000, VSHUF4I_B |-> \h73900000,
        VSHUF4I_H |-> \h73940000, VSHUF4I_W |-> \h73980000, VSHUF4I_D |-> \h739c0000])

TreeFromVBITSELI_B ==
    Under("vv_ui8", [
        VBITSELI_B |-> \h73c40000, VANDI_B |-> \h73d00000, VORI_B |-> \h73d40000,
        VXORI_B |-> \h73d80000, VNORI_B |-> \h73dc0000, VPERMI_W |-> \h73e40000])
    @@ Under("v_i13", [VLDI |-> \h73e00000])

DecodeTree ==
       TreeFromGR2SCR @@ TreeFromALSL_W @@ TreeFromCRC_W_B_W @@ TreeFromARMROTRI_W
    @@ TreeFromX86ROTR_W @@ TreeFromSLLI_W @@ TreeFromX86MTFLAG @@ TreeFromMOVGR2FR_D
    @@ TreeFromSLTI @@ TreeFromINVTLB @@ TreeFromFCMP_SEQ_D @@ TreeFromPCADDU18I
    @@ TreeFromXVST @@ TreeFromVLDX @@ TreeFromFSTGT_S @@ TreeFromBL
    @@ TreeFromVADDWOD_W_H @@ TreeFromVSSUB_HU @@ TreeFromVAVGR_HU @@ TreeFromVMULWOD_W_HU
    @@ TreeFromVDIV_B @@ TreeFromVSRAN_H_W @@ TreeFromVPACKEV_B @@ TreeFromVFSUB_S
    @@ TreeFromVSLTI_DU @@ TreeFromVNEG_D @@ TreeFromVFFINT_D_LU @@ TreeFromVSRLRI_H
    @@ TreeFromVSAT_H @@ TreeFromVSRANI_H_W @@ TreeFromVBITSELI_B

-----------------------------------------------------------------------------
(* opc2bin.                                                                *)

Bin(values) == [opc \in DOMAIN values |-> Bits(values[opc])]

Opc2binFromGR2SCR ==
    Bin([GR2SCR |-> 2048, SRC2GR |-> 3072, CLO_W |-> 4096, CLZ_W |-> 5120, CTO_W |-> 6144,
     CTZ_W |-> 7168, CLO_D |-> 8192, CLZ_D |-> 9216, CTO_D |-> 10240, CTZ_D |-> 11264,
     REVB_2H |-> 12288, REVB_4H |-> 13312, REVB_2W |-> 14336, REVB_D |-> 15360,
     REVH_2W |-> 16384, REVH_D |-> 17408, BITREV_4B |-> 18432, BITREV_8B |-> 19456,
     BITREV_W |-> 20480, BITREV_D |-> 21504, EXT_W_H |-> 22528, EXT_W_B |-> 23552,
     RDTIMEL_W |-> 24576, RDTIMEH_W |-> 25600, RDTIME_D |-> 26624, CPUCFG |-> 27648,
     X86MTTOP |-> 28672, X86MFTOP |-> 29696, SETX86LOOPE |-> 30720,
     SETX86LOOPNE |-> 31744, X86INC_B |-> 32768, X86INC_H |-> 32769,
     X86INC_W |-> 32770, X86INC_D |-> 32771, X86DEC_B |-> 32772, X86DEC_H |-> 32773,
     X86DEC_W |-> 32774, X86DEC_D |-> 32775, X86SETTM |-> 32776, X86CLRTM |-> 32808,
     X86INCTOP |-> 32777, X86DECTOP |-> 32809, ASRTLE_D |-> 65536, ASRTGT_D |-> 98304,
     ALSL_W |-> 262144, ALSL_WU |-> 393216, BYTEPICK_W |-> 524288,
     BYTEPICK_D |-> 786432, ADD_W |-> 1048576, ADD_D |-> 1081344, SUB_W |-> 1114112,
     SUB_D |-> 1146880, SLT |-> 1179648, SLTU |-> 1212416, MASKEQZ |-> 1245184,
     MASKNEZ |-> 1277952, NOR |-> 1310720, AND |-> 1343488, OR |-> 1376256,
     XOR |-> 1409024, ORN |-> 1441792, ANDN |-> 1474560, SLL_W |-> 1507328,
     SRL_W |-> 1540096, SRA_W |-> 1572864, SLL_D |-> 1605632, SRL_D |-> 1638400,
     SRA_D |-> 1671168, ROTR_B |-> 1703936, ROTR_H |-> 1736704, ROTR_W |-> 1769472,
     ROTR_D |-> 1802240, MUL_W |-> 1835008, MULH_W |-> 1867776, MULH_WU |-> 1900544,
     MUL_D |-> 1933312, MULH_D |-> 1966080, MULH_DU |-> 1998848, MULW_D_W |-> 2031616,
     MULW_D_WU |-> 2064384, DIV_W |-> 2097152, MOD_W |-> 2129920, DIV_WU |-> 2162688,
     MOD_WU |-> 2195456, DIV_D |-> 2228224, MOD_D |-> 2260992, DIV_DU |-> 2293760,
     MOD_DU |-> 2326528, CRC_W_B_W |-> 2359296, CRC_W_H_W |-> 2392064,
     CRC_W_W_W |-> 2424832, CRC_W_D_W |-> 2457600, CRCC_W_B_W |-> 2490368,
     CRCC_W_H_W |-> 2523136, CRCC_W_W_W |-> 2555904, CRCC_W_D_W |-> 2588672,
     ADDU12I_D |-> 2686976, ADDU12I_W |-> 2719744, BREAK |-> 2752512, DBCL |-> 2785280,
     SYSCALL |-> 2818048, HVCL |-> 2850816, ALSL_D |-> 2883584, ADC_B |-> 3145728,
     ADC_H |-> 3178496, ADC_W |-> 3211264, ADC_D |-> 3244032, SBC_B |-> 3276800,
     SBC_H |-> 3309568, SBC_W |-> 3342336, SBC_D |-> 3375104, RCR_B |-> 3407872,
     RCR_H |-> 3440640, RCR_W |-> 3473408, RCR_D |-> 3506176, ARMMOVE |-> 3555328,
     SETX86J |-> 3571712, SETARMJ |-> 3588096, ARMADD_W |-> 3604496,
     ARMSUB_W |-> 3637264, ARMADC_W |-> 3670032, ARMSBC_W |-> 3702800,
     ARMAND_W |-> 3735568, ARMOR_W |-> 3768336, ARMXOR_W |-> 3801104,
     ARMSLL_W |-> 3833872, ARMSRL_W |-> 3866640, ARMSRA_W |-> 3899408,
     ARMROTR_W |-> 3932176, ARMSLLI_W |-> 3964944, ARMSRLI_W |-> 3997712,
     ARMSRAI_W |-> 4030480, ARMROTRI_W |-> 4063248, X86MUL_B |-> 4096000,
     X86MUL_H |-> 4096001, X86MUL_W |-> 4096002, X86MUL_D |-> 4096003,
     X86MUL_BU |-> 4096004, X86MUL_HU |-> 4096005, X86MUL_WU |-> 4096006])

Opc2binFromX86MUL_DU ==
    Bin([X86MUL_DU |-> 4096007, X86ADD_WU |-> 4128768, X86ADD_DU |-> 4128769,
     X86SUB_WU |-> 4128770, X86SUB_DU |-> 4128771, X86ADD_B |-> 4128772,
     X86ADD_H |-> 4128773, X86ADD_W |-> 4128774, X86ADD_D |-> 4128775,
     X86SUB_B |-> 4128776, X86SUB_H |-> 4128777, X86SUB_W |-> 4128778,
     X86SUB_D |-> 4128779, X86ADC_B |-> 4128780, X86ADC_H |-> 4128781,
     X86ADC_W |-> 4128782, X86ADC_D |-> 4128783, X86SBC_B |-> 4128784,
     X86SBC_H |-> 4128785, X86SBC_W |-> 4128786, X86SBC_D |-> 4128787,
     X86SLL_B |-> 4128788, X86SLL_H |-> 4128789, X86SLL_W |-> 4128790,
     X86SLL_D |-> 4128791, X86SRL_B |-> 4128792, X86SRL_H |-> 4128793,
     X86SRL_W |-> 4128794, X86SRL_D |-> 4128795, X86SRA_B |-> 4128796,
     X86SRA_H |-> 4128797, X86SRA_W |-> 4128798, X86SRA_D |-> 4128799,
     X86ROTR_B |-> 4161536, X86ROTR_H |-> 4161537, X86ROTR_D |-> 4161538,
     X86ROTR_W |-> 4161539, X86ROTL_B |-> 4161540, X86ROTL_H |-> 4161541,
     X86ROTL_W |-> 4161542, X86ROTL_D |-> 4161543, X86RCR_B |-> 4161544,
     X86RCR_H |-> 4161545, X86RCR_W |-> 4161546, X86RCR_D |-> 4161547,
     X86RCL_B |-> 4161548, X86RCL_H |-> 4161549, X86RCL_W |-> 4161550,
     X86RCL_D |-> 4161551, X86AND_B |-> 4161552, X86AND_H |-> 4161553,
     X86AND_W |-> 4161554, X86AND_D |-> 4161555, X86OR_B |-> 4161556,
     X86OR_H |-> 4161557, X86OR_W |-> 4161558, X86OR_D |-> 4161559,
     X86XOR_B |-> 4161560, X86XOR_H |-> 4161561, X86XOR_W |-> 4161562,
     X86XOR_D |-> 4161563, ARMNOT_W |-> 4177948, ARMMOV_W |-> 4177949,
     ARMMOV_D |-> 4177950, ARMRRX_W |-> 4177951, SLLI_W |-> 4227072,
     SLLI_D |-> 4259840, SRLI_W |-> 4489216, SRLI_D |-> 4521984, SRAI_W |-> 4751360,
     SRAI_D |-> 4784128, ROTRI_B |-> 4988928, ROTRI_H |-> 4997120, ROTRI_W |-> 5013504,
     ROTRI_D |-> 5046272, RCRI_B |-> 5251072, RCRI_H |-> 5259264, RCRI_W |-> 5275648,
     RCRI_D |-> 5308416, X86SLLI_B |-> 5513216, X86SLLI_H |-> 5521409,
     X86SLLI_W |-> 5537794, X86SRLI_B |-> 5513220, X86SRLI_H |-> 5521413,
     X86SRLI_W |-> 5537798, X86SRAI_B |-> 5513224, X86SRAI_H |-> 5521417,
     X86SRAI_W |-> 5537802, X86ROTRI_B |-> 5513228, X86ROTRI_H |-> 5521421,
     X86ROTRI_W |-> 5537806, X86RCRI_B |-> 5513232, X86RCRI_H |-> 5521425,
     X86RCRI_W |-> 5537810, X86ROTLI_B |-> 5513236, X86ROTLI_H |-> 5521429,
     X86ROTLI_W |-> 5537814, X86RCLI_B |-> 5513240, X86RCLI_H |-> 5521433,
     X86RCLI_W |-> 5537818, X86SLLI_D |-> 5570563, X86SRLI_D |-> 5570567,
     X86SRAI_D |-> 5570571, X86ROTRI_D |-> 5570575, X86RCRI_D |-> 5570579,
     X86ROTLI_D |-> 5570583, X86RCLI_D |-> 5570587, X86SETTAG |-> 5767168,
     X86MFFLAG |-> 6029312, X86MTFLAG |-> 6029344, ARMMFFLAG |-> 6029376,
     ARMMTFLAG |-> 6029408, BSTRINS_W |-> 6291456, BSTRPICK_W |-> 6324224,
     BSTRINS_D |-> 8388608, BSTRPICK_D |-> 12582912, FADD_S |-> 16809984,
     FADD_D |-> 16842752, FSUB_S |-> 16941056, FSUB_D |-> 16973824,
     FMUL_S |-> 17072128, FMUL_D |-> 17104896, FDIV_S |-> 17203200,
     FDIV_D |-> 17235968, FMAX_S |-> 17334272, FMAX_D |-> 17367040,
     FMIN_S |-> 17465344, FMIN_D |-> 17498112, FMAXA_S |-> 17596416,
     FMAXA_D |-> 17629184, FMINA_S |-> 17727488, FMINA_D |-> 17760256,
     FSCALEB_S |-> 17858560, FSCALEB_D |-> 17891328, FCOPYSIGN_S |-> 17989632,
     FCOPYSIGN_D |-> 18022400, FABS_S |-> 18088960, FABS_D |-> 18089984,
     FNEG_S |-> 18093056, FNEG_D |-> 18094080])

Opc2binFromFLOGB_S ==
    Bin([FLOGB_S |-> 18097152, FLOGB_D |-> 18098176, FCLASS_S |-> 18101248,
     FCLASS_D |-> 18102272, FSQRT_S |-> 18105344, FSQRT_D |-> 18106368,
     FRECIP_S |-> 18109440, FRECIP_D |-> 18110464, FRSQRT_S |-> 18113536,
     FRSQRT_D |-> 18114560, FMOV_S |-> 18125824, FMOV_D |-> 18126848,
     MOVGR2FR_W |-> 18129920, MOVGR2FR_D |-> 18130944, MOVGR2FRH_W |-> 18131968,
     MOVFR2GR_S |-> 18134016, MOVFR2GR_D |-> 18135040, MOVFRH2GR_S |-> 18136064,
     MOVGR2FCSR |-> 18137088, MOVFCSR2GR |-> 18139136, MOVFR2CF |-> 18141184,
     MOVCF2FR |-> 18142208, MOVGR2CF |-> 18143232, MOVCF2GR |-> 18144256,
     FCVT_LD_D |-> 18145280, FCVT_UD_D |-> 18146304, FCVT_D_LC |-> 18153472,
     FCVT_S_D |-> 18421760, FCVT_D_S |-> 18424832, FTINTRM_W_S |-> 18482176,
     FTINTRM_W_D |-> 18483200, FTINTRM_L_S |-> 18490368, FTINTRM_L_D |-> 18491392,
     FTINTRP_W_S |-> 18498560, FTINTRP_W_D |-> 18499584, FTINTRP_L_S |-> 18506752,
     FTINTRP_L_D |-> 18507776, FTINTRZ_W_S |-> 18514944, FTINTRZ_W_D |-> 18515968,
     FTINTRZ_L_S |-> 18523136, FTINTRZ_L_D |-> 18524160, FTINTRNE_W_S |-> 18531328,
     FTINTRNE_W_D |-> 18532352, FTINTRNE_L_S |-> 18539520, FTINTRNE_L_D |-> 18540544,
     FTINT_W_S |-> 18547712, FTINT_W_D |-> 18548736, FTINT_L_S |-> 18555904,
     FTINT_L_D |-> 18556928, FFINT_S_W |-> 18681856, FFINT_S_L |-> 18683904,
     FFINT_D_W |-> 18685952, FFINT_D_L |-> 18688000, FRINT_S |-> 18760704,
     FRINT_D |-> 18761728, SLTI |-> 33554432, SLTUI |-> 37748736, ADDI_W |-> 41943040,
     ADDI_D |-> 46137344, LU52I_D |-> 50331648, ANDI |-> 54525952, ORI |-> 58720256,
     XORI |-> 62914560, CSRRD |-> 67108864, CSRWR |-> 67108896, CSRXCHG |-> 67108864,
     GCSRRD |-> 83886080, GCSRWR |-> 83886112, GCSRXCHG |-> 83886080,
     CACOP |-> 100663296, LDDIR |-> 104857600, LDPTE |-> 105119744,
     IOCSRRD_B |-> 105381888, IOCSRRD_H |-> 105382912, IOCSRRD_W |-> 105383936,
     IOCSRRD_D |-> 105384960, IOCSRWR_B |-> 105385984, IOCSRWR_H |-> 105387008,
     IOCSRWR_W |-> 105388032, IOCSRWR_D |-> 105389056, TLBCLR |-> 105390080,
     GTLBCLR |-> 105390081, TLBFLUSH |-> 105391104, GTLBFLUSH |-> 105391105,
     TLBSRCH |-> 105392128, GTLBSRCH |-> 105392129, TLBRD |-> 105393152,
     GTLBRD |-> 105393153, TLBWR |-> 105394176, GTLBWR |-> 105394177,
     TLBFILL |-> 105395200, GTLBFILL |-> 105395201, ERTN |-> 105396224,
     IDLE |-> 105414656, SCFGR_W |-> 105455616, SCFGR_D |-> 105456640,
     SCFGW_W |-> 105457664, SCFGW_D |-> 105458688, SNOP |-> 105459712,
     INVTLB |-> 105480192, FMADD_S |-> 135266304, FMADD_D |-> 136314880,
     FMSUB_S |-> 139460608, FMSUB_D |-> 140509184, FNMADD_S |-> 143654912,
     FNMADD_D |-> 144703488, FNMSUB_S |-> 147849216, FNMSUB_D |-> 148897792,
     VFMADD_S |-> 152043520, VFMADD_D |-> 153092096, VFMSUB_S |-> 156237824,
     VFMSUB_D |-> 157286400, VFNMADD_S |-> 160432128, VFNMADD_D |-> 161480704,
     VFNMSUB_S |-> 164626432, VFNMSUB_D |-> 165675008, FCMP_CAF_S |-> 202375168,
     FCMP_SAF_S |-> 202407936, FCMP_CLT_S |-> 202440704, FCMP_STL_S |-> 202473472,
     FCMP_CEQ_S |-> 202506240, FCMP_SEQ_S |-> 202539008, FCMP_CLE_S |-> 202571776,
     FCMP_SLE_S |-> 202604544, FCMP_CUN_S |-> 202637312, FCMP_SUN_S |-> 202670080,
     FCMP_CULT_S |-> 202702848, FCMP_SULT_S |-> 202735616, FCMP_CUEQ_S |-> 202768384,
     FCMP_SUEQ_S |-> 202801152, FCMP_CULE_S |-> 202833920, FCMP_SULE_S |-> 202866688,
     FCMP_CNE_S |-> 202899456, FCMP_SNE_S |-> 202932224, FCMP_COR_S |-> 203030528,
     FCMP_SOR_S |-> 203063296, FCMP_CUNE_S |-> 203161600, FCMP_SUNE_S |-> 203194368,
     FCMP_CAF_D |-> 203423744, FCMP_SAF_D |-> 203456512])

Opc2binFromFCMP_CLT_D ==
    Bin([FCMP_CLT_D |-> 203489280, FCMP_STL_D |-> 203522048, FCMP_CEQ_D |-> 203554816,
     FCMP_SEQ_D |-> 203587584, FCMP_CLE_D |-> 203620352, FCMP_SLE_D |-> 203653120,
     FCMP_CUN_D |-> 203685888, FCMP_SUN_D |-> 203718656, FCMP_CULT_D |-> 203751424,
     FCMP_SULT_D |-> 203784192, FCMP_CUEQ_D |-> 203816960, FCMP_SUEQ_D |-> 203849728,
     FCMP_CULE_D |-> 203882496, FCMP_SULE_D |-> 203915264, FCMP_CNE_D |-> 203948032,
     FCMP_SNE_D |-> 203980800, FCMP_COR_D |-> 204079104, FCMP_SOR_D |-> 204111872,
     FCMP_CUNE_D |-> 204210176, FCMP_SUNE_D |-> 204242944, VFCMP_COND_S |-> 206569472,
     VFCMP_COND_D |-> 207618048, FSEL |-> 218103808, VBITSEL_V |-> 219152384,
     VSHUF_B |-> 223346688, ADDU16I_D |-> 268435456, LU12I_W |-> 335544320,
     LU32I_D |-> 369098752, PCADDI |-> 402653184, PCALAU12I |-> 436207616,
     PCADDU12I |-> 469762048, PCADDU18I |-> 503316480, LL_W |-> 536870912,
     SC_W |-> 553648128, LL_D |-> 570425344, SC_D |-> 587202560, LDPTR_W |-> 603979776,
     STPTR_W |-> 620756992, LDPTR_D |-> 637534208, STPTR_D |-> 654311424,
     LD_B |-> 671088640, LD_H |-> 675282944, LD_W |-> 679477248, LD_D |-> 683671552,
     ST_B |-> 687865856, ST_H |-> 692060160, ST_W |-> 696254464, ST_D |-> 700448768,
     LD_BU |-> 704643072, LD_HU |-> 708837376, LD_WU |-> 713031680,
     PRELD |-> 717225984, FLD_S |-> 721420288, FST_S |-> 725614592,
     FLD_D |-> 729808896, FST_D |-> 734003200, VLD |-> 738197504, VST |-> 742391808,
     XVLD |-> 746586112, XVST |-> 750780416, LDL_W |-> 771751936, LDR_W |-> 775946240,
     LDL_D |-> 780140544, LDR_D |-> 784334848, STL_W |-> 788529152,
     STR_W |-> 792723456, STL_D |-> 796917760, STR_D |-> 801112064,
     VLDREPL_D |-> 806354944, VLDREPL_W |-> 807403520, VLDREPL_H |-> 809500672,
     VLDREPL_B |-> 813694976, VSTELM_D |-> 823132160, VSTELM_W |-> 824180736,
     VSTELM_H |-> 826277888, VSTELM_B |-> 830472192, LDX_B |-> 939524096,
     LDX_H |-> 939786240, LDX_W |-> 940048384, LDX_D |-> 940310528,
     STX_B |-> 940572672, STX_H |-> 940834816, STX_W |-> 941096960,
     STX_D |-> 941359104, LDX_BU |-> 941621248, LDX_HU |-> 941883392,
     LDX_WU |-> 942145536, PRELDX |-> 942407680, FLDX_S |-> 942669824,
     FLDX_D |-> 942931968, FSTX_S |-> 943194112, FSTX_D |-> 943456256,
     VLDX |-> 943718400, VSTX |-> 943980544, AMSWAP_W |-> 945815552,
     AMSWAP_D |-> 945848320, AMADD_W |-> 945881088, AMADD_D |-> 945913856,
     AMAND_W |-> 945946624, AMAND_D |-> 945979392, AMOR_W |-> 946012160,
     AMOR_D |-> 946044928, AMXOR_W |-> 946077696, AMXOR_D |-> 946110464,
     AMMAX_W |-> 946143232, AMMAX_D |-> 946176000, AMMIN_W |-> 946208768,
     AMMIN_D |-> 946241536, AMMAX_WU |-> 946274304, AMMAX_DU |-> 946307072,
     AMMIN_WU |-> 946339840, AMMIN_DU |-> 946372608, AMSWAP_DB_W |-> 946405376,
     AMSWAP_DB_D |-> 946438144, AMADD_DB_W |-> 946470912, AMADD_DB_D |-> 946503680,
     AMAND_DB_W |-> 946536448, AMAND_DB_D |-> 946569216, AMOR_DB_W |-> 946601984,
     AMOR_DB_D |-> 946634752, AMXOR_DB_W |-> 946667520, AMXOR_DB_D |-> 946700288,
     AMMAX_DB_W |-> 946733056, AMMAX_DB_D |-> 946765824, AMMIN_DB_W |-> 946798592,
     AMMIN_DB_D |-> 946831360, AMMAX_DB_WU |-> 946864128, AMMAX_DB_DU |-> 946896896,
     AMMIN_DB_WU |-> 946929664, AMMIN_DB_DU |-> 946962432, DBAR |-> 946995200,
     IBAR |-> 947027968, FLDGT_S |-> 947126272, FLDGT_D |-> 947159040,
     FLDLE_S |-> 947191808, FLDLE_D |-> 947224576, FSTGT_S |-> 947257344,
     FSTGT_D |-> 947290112, FSTLE_S |-> 947322880, FSTLE_D |-> 947355648])

Opc2binFromLDGT_B ==
    Bin([LDGT_B |-> 947388416, LDGT_H |-> 947421184, LDGT_W |-> 947453952,
     LDGT_D |-> 947486720, LDLE_B |-> 947519488, LDLE_H |-> 947552256,
     LDLE_W |-> 947585024, LDLE_D |-> 947617792, STGT_B |-> 947650560,
     STGT_H |-> 947683328, STGT_W |-> 947716096, STGT_D |-> 947748864,
     STLE_B |-> 947781632, STLE_H |-> 947814400, STLE_W |-> 947847168,
     STLE_D |-> 947879936, BEQZ |-> 1073741824, BNEZ |-> 1140850688,
     BCEQZ |-> 1207959552, BCNEZ |-> 1207959808, JISCR0 |-> 1207960064,
     JISCR1 |-> 1207960320, JIRL |-> 1275068416, B |-> 1342177280, BL |-> 1409286144,
     BEQ |-> 1476395008, BNE |-> 1543503872, BLT |-> 1610612736, BGE |-> 1677721600,
     BLTU |-> 1744830464, BGEU |-> 1811939328, VSEQ_B |-> 1879048192,
     VSEQ_H |-> 1879080960, VSEQ_W |-> 1879113728, VSEQ_D |-> 1879146496,
     VSLE_B |-> 1879179264, VSLE_H |-> 1879212032, VSLE_W |-> 1879244800,
     VSLE_D |-> 1879277568, VSLE_BU |-> 1879310336, VSLE_HU |-> 1879343104,
     VSLE_WU |-> 1879375872, VSLE_DU |-> 1879408640, VSLT_B |-> 1879441408,
     VSLT_H |-> 1879474176, VSLT_W |-> 1879506944, VSLT_D |-> 1879539712,
     VSLT_BU |-> 1879572480, VSLT_HU |-> 1879605248, VSLT_WU |-> 1879638016,
     VSLT_DU |-> 1879670784, VADD_B |-> 1879703552, VADD_H |-> 1879736320,
     VADD_W |-> 1879769088, VADD_D |-> 1879801856, VSUB_B |-> 1879834624,
     VSUB_H |-> 1879867392, VSUB_W |-> 1879900160, VSUB_D |-> 1879932928,
     VADDWEV_H_B |-> 1881014272, VADDWEV_W_H |-> 1881047040,
     VADDWEV_D_W |-> 1881079808, VADDWEV_Q_D |-> 1881112576,
     VSUBWEV_H_B |-> 1881145344, VSUBWEV_W_H |-> 1881178112,
     VSUBWEV_D_W |-> 1881210880, VSUBWEV_Q_D |-> 1881243648,
     VADDWOD_H_B |-> 1881276416, VADDWOD_W_H |-> 1881309184,
     VADDWOD_D_W |-> 1881341952, VADDWOD_Q_D |-> 1881374720,
     VSUBWOD_H_B |-> 1881407488, VSUBWOD_W_H |-> 1881440256,
     VSUBWOD_D_W |-> 1881473024, VSUBWOD_Q_D |-> 1881505792,
     VADDWEV_H_BU |-> 1882062848, VADDWEV_W_HU |-> 1882095616,
     VADDWEV_D_WU |-> 1882128384, VADDWEV_Q_DU |-> 1882161152,
     VSUBWEV_H_BU |-> 1882193920, VSUBWEV_W_HU |-> 1882226688,
     VSUBWEV_D_WU |-> 1882259456, VSUBWEV_Q_DU |-> 1882292224,
     VADDWOD_H_BU |-> 1882324992, VADDWOD_W_HU |-> 1882357760,
     VADDWOD_D_WU |-> 1882390528, VADDWOD_Q_DU |-> 1882423296,
     VSUBWOD_H_BU |-> 1882456064, VSUBWOD_W_HU |-> 1882488832,
     VSUBWOD_D_WU |-> 1882521600, VSUBWOD_Q_DU |-> 1882554368,
     VADDWEV_H_BU_B |-> 1883111424, VADDWEV_W_HU_H |-> 1883144192,
     VADDWEV_D_WU_W |-> 1883176960, VADDWEV_Q_DU_D |-> 1883209728,
     VADDWOD_H_BU_B |-> 1883242496, VADDWOD_W_HU_H |-> 1883275264,
     VADDWOD_D_WU_W |-> 1883308032, VADDWOD_Q_DU_D |-> 1883340800,
     VSADD_B |-> 1883635712, VSADD_H |-> 1883668480, VSADD_W |-> 1883701248,
     VSADD_D |-> 1883734016, VSSUB_B |-> 1883766784, VSSUB_H |-> 1883799552,
     VSSUB_W |-> 1883832320, VSSUB_D |-> 1883865088, VSADD_BU |-> 1883897856,
     VSADD_HU |-> 1883930624, VSADD_WU |-> 1883963392, VSADD_DU |-> 1883996160,
     VSSUB_BU |-> 1884028928, VSSUB_HU |-> 1884061696, VSSUB_WU |-> 1884094464,
     VSSUB_DU |-> 1884127232, VHADDW_H_B |-> 1884553216, VHADDW_W_H |-> 1884585984,
     VHADDW_D_W |-> 1884618752, VHADDW_Q_D |-> 1884651520, VHSUBW_H_B |-> 1884684288,
     VHSUBW_W_H |-> 1884717056, VHSUBW_D_W |-> 1884749824, VHSUBW_Q_D |-> 1884782592,
     VHADDW_HU_BU |-> 1884815360, VHADDW_WU_HU |-> 1884848128,
     VHADDW_DU_WU |-> 1884880896, VHADDW_QU_DU |-> 1884913664,
     VHSUBW_HU_BU |-> 1884946432, VHSUBW_WU_HU |-> 1884979200,
     VHSUBW_DU_WU |-> 1885011968, VHSUBW_QU_DU |-> 1885044736, VADDA_B |-> 1885077504,
     VADDA_H |-> 1885110272, VADDA_W |-> 1885143040, VADDA_D |-> 1885175808,
     VABSD_B |-> 1885339648, VABSD_H |-> 1885372416, VABSD_W |-> 1885405184,
     VABSD_D |-> 1885437952, VABSD_BU |-> 1885470720])

Opc2binFromVABSD_HU ==
    Bin([VABSD_HU |-> 1885503488, VABSD_WU |-> 1885536256, VABSD_DU |-> 1885569024,
     VAVG_B |-> 1885601792, VAVG_H |-> 1885634560, VAVG_W |-> 1885667328,
     VAVG_D |-> 1885700096, VAVG_BU |-> 1885732864, VAVG_HU |-> 1885765632,
     VAVG_WU |-> 1885798400, VAVG_DU |-> 1885831168, VAVGR_B |-> 1885863936,
     VAVGR_H |-> 1885896704, VAVGR_W |-> 1885929472, VAVGR_D |-> 1885962240,
     VAVGR_BU |-> 1885995008, VAVGR_HU |-> 1886027776, VAVGR_WU |-> 1886060544,
     VAVGR_DU |-> 1886093312, VMAX_B |-> 1886388224, VMAX_H |-> 1886420992,
     VMAX_W |-> 1886453760, VMAX_D |-> 1886486528, VMIN_B |-> 1886519296,
     VMIN_H |-> 1886552064, VMIN_W |-> 1886584832, VMIN_D |-> 1886617600,
     VMAX_BU |-> 1886650368, VMAX_HU |-> 1886683136, VMAX_WU |-> 1886715904,
     VMAX_DU |-> 1886748672, VMIN_BU |-> 1886781440, VMIN_HU |-> 1886814208,
     VMIN_WU |-> 1886846976, VMIN_DU |-> 1886879744, VMUL_B |-> 1887698944,
     VMUL_H |-> 1887731712, VMUL_W |-> 1887764480, VMUL_D |-> 1887797248,
     VMUH_B |-> 1887830016, VMUH_H |-> 1887862784, VMUH_W |-> 1887895552,
     VMUH_D |-> 1887928320, VMUH_BU |-> 1887961088, VMUH_HU |-> 1887993856,
     VMUH_WU |-> 1888026624, VMUH_DU |-> 1888059392, VMULWEV_H_B |-> 1888485376,
     VMULWEV_W_H |-> 1888518144, VMULWEV_D_W |-> 1888550912,
     VMULWEV_Q_D |-> 1888583680, VMULWOD_H_B |-> 1888616448,
     VMULWOD_W_H |-> 1888649216, VMULWOD_D_W |-> 1888681984,
     VMULWOD_Q_D |-> 1888714752, VMULWEV_H_BU |-> 1889009664,
     VMULWEV_W_HU |-> 1889042432, VMULWEV_D_WU |-> 1889075200,
     VMULWEV_Q_DU |-> 1889107968, VMULWOD_H_BU |-> 1889140736,
     VMULWOD_W_HU |-> 1889173504, VMULWOD_D_WU |-> 1889206272,
     VMULWOD_Q_DU |-> 1889239040, VMULWEV_H_BU_B |-> 1889533952,
     VMULWEV_W_HU_H |-> 1889566720, VMULWEV_D_WU_W |-> 1889599488,
     VMULWEV_Q_DU_D |-> 1889632256, VMULWOD_H_BU_B |-> 1889665024,
     VMULWOD_W_HU_H |-> 1889697792, VMULWOD_D_WU_W |-> 1889730560,
     VMULWOD_Q_DU_D |-> 1889763328, VMADD_B |-> 1890058240, VMADD_H |-> 1890091008,
     VMADD_W |-> 1890123776, VMADD_D |-> 1890156544, VMSUB_B |-> 1890189312,
     VMSUB_H |-> 1890222080, VMSUB_W |-> 1890254848, VMSUB_D |-> 1890287616,
     VMADDWEV_H_B |-> 1890320384, VMADDWEV_W_H |-> 1890353152,
     VMADDWEV_D_W |-> 1890385920, VMADDWEV_Q_D |-> 1890418688,
     VMADDWOD_H_B |-> 1890451456, VMADDWOD_W_H |-> 1890484224,
     VMADDWOD_D_W |-> 1890516992, VMADDWOD_Q_D |-> 1890549760,
     VMADDWEV_H_BU |-> 1890844672, VMADDWEV_W_HU |-> 1890877440,
     VMADDWEV_D_WU |-> 1890910208, VMADDWEV_Q_DU |-> 1890942976,
     VMADDWOD_H_BU |-> 1890975744, VMADDWOD_W_HU |-> 1891008512,
     VMADDWOD_D_WU |-> 1891041280, VMADDWOD_Q_DU |-> 1891074048,
     VMADDWEV_H_BU_B |-> 1891368960, VMADDWEV_W_HU_H |-> 1891401728,
     VMADDWEV_D_WU_W |-> 1891434496, VMADDWEV_Q_DU_D |-> 1891467264,
     VMADDWOD_H_BU_B |-> 1891500032, VMADDWOD_W_HU_H |-> 1891532800,
     VMADDWOD_D_WU_W |-> 1891565568, VMADDWOD_Q_DU_D |-> 1891598336,
     VDIV_B |-> 1893728256, VDIV_H |-> 1893761024, VDIV_W |-> 1893793792,
     VDIV_D |-> 1893826560, VMOD_B |-> 1893859328, VMOD_H |-> 1893892096,
     VMOD_W |-> 1893924864, VMOD_D |-> 1893957632, VDIV_BU |-> 1893990400,
     VDIV_HU |-> 1894023168, VDIV_WU |-> 1894055936, VDIV_DU |-> 1894088704,
     VMOD_BU |-> 1894121472, VMOD_HU |-> 1894154240, VMOD_WU |-> 1894187008,
     VMOD_DU |-> 1894219776, VSLL_B |-> 1894252544, VSLL_H |-> 1894285312,
     VSLL_W |-> 1894318080, VSLL_D |-> 1894350848, VSRL_B |-> 1894383616,
     VSRL_H |-> 1894416384, VSRL_W |-> 1894449152, VSRL_D |-> 1894481920,
     VSRA_B |-> 1894514688, VSRA_H |-> 1894547456, VSRA_W |-> 1894580224,
     VSRA_D |-> 1894612992, VROTR_B |-> 1894645760, VROTR_H |-> 1894678528,
     VROTR_W |-> 1894711296, VROTR_D |-> 1894744064, VSRLR_B |-> 1894776832,
     VSRLR_H |-> 1894809600, VSRLR_W |-> 1894842368, VSRLR_D |-> 1894875136,
     VSRAR_B |-> 1894907904])

Opc2binFromVSRAR_H ==
    Bin([VSRAR_H |-> 1894940672, VSRAR_W |-> 1894973440, VSRAR_D |-> 1895006208,
     VSRLN_B_H |-> 1895071744, VSRLN_H_W |-> 1895104512, VSRLN_W_D |-> 1895137280,
     VSRAN_B_H |-> 1895202816, VSRAN_H_W |-> 1895235584, VSRAN_W_D |-> 1895268352,
     VSRLRN_B_H |-> 1895333888, VSRLRN_H_W |-> 1895366656, VSRLRN_W_D |-> 1895399424,
     VSRARN_B_H |-> 1895464960, VSRARN_H_W |-> 1895497728, VSRARN_W_D |-> 1895530496,
     VSSRLN_B_H |-> 1895596032, VSSRLN_H_W |-> 1895628800, VSSRLN_W_D |-> 1895661568,
     VSSRAN_B_H |-> 1895727104, VSSRAN_H_W |-> 1895759872, VSSRAN_W_D |-> 1895792640,
     VSSRLRN_B_H |-> 1895858176, VSSRLRN_H_W |-> 1895890944,
     VSSRLRN_W_D |-> 1895923712, VSSRARN_B_H |-> 1895989248,
     VSSRARN_H_W |-> 1896022016, VSSRARN_W_D |-> 1896054784,
     VSSRLN_BU_H |-> 1896120320, VSSRLN_HU_W |-> 1896153088,
     VSSRLN_WU_D |-> 1896185856, VSSRAN_BU_H |-> 1896251392,
     VSSRAN_HU_W |-> 1896284160, VSSRAN_WU_D |-> 1896316928,
     VSSRLRN_BU_H |-> 1896382464, VSSRLRN_HU_W |-> 1896415232,
     VSSRLRN_WU_D |-> 1896448000, VSSRARN_BU_H |-> 1896513536,
     VSSRARN_HU_W |-> 1896546304, VSSRARN_WU_D |-> 1896579072,
     VBITCLR_B |-> 1896611840, VBITCLR_H |-> 1896644608, VBITCLR_W |-> 1896677376,
     VBITCLR_D |-> 1896710144, VBITSET_B |-> 1896742912, VBITSET_H |-> 1896775680,
     VBITSET_W |-> 1896808448, VBITSET_D |-> 1896841216, VBITREV_B |-> 1896873984,
     VBITREV_H |-> 1896906752, VBITREV_W |-> 1896939520, VBITREV_D |-> 1896972288,
     VPACKEV_B |-> 1897267200, VPACKEV_H |-> 1897299968, VPACKEV_W |-> 1897332736,
     VPACKEV_D |-> 1897365504, VPACKOD_B |-> 1897398272, VPACKOD_H |-> 1897431040,
     VPACKOD_W |-> 1897463808, VPACKOD_D |-> 1897496576, VILVL_B |-> 1897529344,
     VILVL_H |-> 1897562112, VILVL_W |-> 1897594880, VILVL_D |-> 1897627648,
     VILVH_B |-> 1897660416, VILVH_H |-> 1897693184, VILVH_W |-> 1897725952,
     VILVH_D |-> 1897758720, VPICKEV_B |-> 1897791488, VPICKEV_H |-> 1897824256,
     VPICKEV_W |-> 1897857024, VPICKEV_D |-> 1897889792, VPICKOD_B |-> 1897922560,
     VPICKOD_H |-> 1897955328, VPICKOD_W |-> 1897988096, VPICKOD_D |-> 1898020864,
     VREPLVE_B |-> 1898053632, VREPLVE_H |-> 1898086400, VREPLVE_W |-> 1898119168,
     VREPLVE_D |-> 1898151936, VAND_V |-> 1898315776, VOR_V |-> 1898348544,
     VXOR_V |-> 1898381312, VNOR_V |-> 1898414080, VANDN_V |-> 1898446848,
     VORN_V |-> 1898479616, VFRSTP_B |-> 1898643456, VFRSTP_H |-> 1898676224,
     VADD_Q |-> 1898774528, VSUB_Q |-> 1898807296, VSIGNCOV_B |-> 1898840064,
     VSIGNCOV_H |-> 1898872832, VSIGNCOV_W |-> 1898905600, VSIGNCOV_D |-> 1898938368,
     VFADD_S |-> 1899003904, VFADD_D |-> 1899036672, VFSUB_S |-> 1899134976,
     VFSUB_D |-> 1899167744, VFMUL_S |-> 1899528192, VFMUL_D |-> 1899560960,
     VFDIV_S |-> 1899659264, VFDIV_D |-> 1899692032, VFMAX_S |-> 1899790336,
     VFMAX_D |-> 1899823104, VFMIN_S |-> 1899921408, VFMIN_D |-> 1899954176,
     VFMAXA_S |-> 1900052480, VFMAXA_D |-> 1900085248, VFMINA_S |-> 1900183552,
     VFMINA_D |-> 1900216320, VFCVT_H_S |-> 1900412928, VFCVT_S_D |-> 1900445696,
     VFFINT_S_L |-> 1900544000, VFTINT_W_D |-> 1900642304, VFTINTRM_W_D |-> 1900675072,
     VFTINTRP_W_D |-> 1900707840, VFTINTRZ_W_D |-> 1900740608,
     VFTINTRNE_W_D |-> 1900773376, VSHUF_H |-> 1903853568, VSHUF_W |-> 1903886336,
     VSHUF_D |-> 1903919104, VSEQI_B |-> 1920991232, VSEQI_H |-> 1921024000,
     VSEQI_W |-> 1921056768, VSEQI_D |-> 1921089536, VSLEI_B |-> 1921122304,
     VSLEI_H |-> 1921155072, VSLEI_W |-> 1921187840, VSLEI_D |-> 1921220608,
     VSLEI_BU |-> 1921253376, VSLEI_HU |-> 1921286144, VSLEI_WU |-> 1921318912,
     VSLEI_DU |-> 1921351680, VSLTI_B |-> 1921384448, VSLTI_H |-> 1921417216,
     VSLTI_W |-> 1921449984, VSLTI_D |-> 1921482752, VSLTI_BU |-> 1921515520,
     VSLTI_HU |-> 1921548288, VSLTI_WU |-> 1921581056, VSLTI_DU |-> 1921613824])

Opc2binFromVADDI_BU ==
    Bin([VADDI_BU |-> 1921646592, VADDI_HU |-> 1921679360, VADDI_WU |-> 1921712128,
     VADDI_DU |-> 1921744896, VSUBI_BU |-> 1921777664, VSUBI_HU |-> 1921810432,
     VSUBI_WU |-> 1921843200, VSUBI_DU |-> 1921875968, VBSLL_V |-> 1921908736,
     VBSRL_V |-> 1921941504, VMAXI_B |-> 1922039808, VMAXI_H |-> 1922072576,
     VMAXI_W |-> 1922105344, VMAXI_D |-> 1922138112, VMINI_B |-> 1922170880,
     VMINI_H |-> 1922203648, VMINI_W |-> 1922236416, VMINI_D |-> 1922269184,
     VMAXI_BU |-> 1922301952, VMAXI_HU |-> 1922334720, VMAXI_WU |-> 1922367488,
     VMAXI_DU |-> 1922400256, VMINI_BU |-> 1922433024, VMINI_HU |-> 1922465792,
     VMINI_WU |-> 1922498560, VMINI_DU |-> 1922531328, VFRSTPI_B |-> 1922695168,
     VFRSTPI_H |-> 1922727936, VCLO_B |-> 1922826240, VCLO_H |-> 1922827264,
     VCLO_W |-> 1922828288, VCLO_D |-> 1922829312, VCLZ_B |-> 1922830336,
     VCLZ_H |-> 1922831360, VCLZ_W |-> 1922832384, VCLZ_D |-> 1922833408,
     VPCNT_B |-> 1922834432, VPCNT_H |-> 1922835456, VPCNT_W |-> 1922836480,
     VPCNT_D |-> 1922837504, VNEG_B |-> 1922838528, VNEG_H |-> 1922839552,
     VNEG_W |-> 1922840576, VNEG_D |-> 1922841600, VMSKLTZ_B |-> 1922842624,
     VMSKLTZ_H |-> 1922843648, VMSKLTZ_W |-> 1922844672, VMSKLTZ_D |-> 1922845696,
     VMSKGEZ_B |-> 1922846720, VMSKNZ_B |-> 1922850816, VSETEQZ_V |-> 1922865152,
     VSETNEZ_V |-> 1922866176, VSETANYEQZ_B |-> 1922867200,
     VSETANYEQZ_H |-> 1922868224, VSETANYEQZ_W |-> 1922869248,
     VSETANYEQZ_D |-> 1922870272, VSETALLNEZ_B |-> 1922871296,
     VSETALLNEZ_H |-> 1922872320, VSETALLNEZ_W |-> 1922873344,
     VSETALLNEZ_D |-> 1922874368, VFLOGB_S |-> 1922876416, VFLOGB_D |-> 1922877440,
     VFCLASS_S |-> 1922880512, VFCLASS_D |-> 1922881536, VFSQRT_S |-> 1922884608,
     VFSQRT_D |-> 1922885632, VFRECIP_S |-> 1922888704, VFRECIP_D |-> 1922889728,
     VFRSQRT_S |-> 1922892800, VFRSQRT_D |-> 1922893824, VFRINT_S |-> 1922905088,
     VFRINT_D |-> 1922906112, VFRINTRM_S |-> 1922909184, VFRINTRM_D |-> 1922910208,
     VFRINTRP_S |-> 1922913280, VFRINTRP_D |-> 1922914304, VFRINTRZ_S |-> 1922917376,
     VFRINTRZ_D |-> 1922918400, VFRINTRNE_S |-> 1922921472, VFRINTRNE_D |-> 1922922496,
     VFCVTL_S_H |-> 1922951168, VFCVTH_S_H |-> 1922952192, VFCVTL_D_S |-> 1922953216,
     VFCVTH_D_S |-> 1922954240, VFFINT_S_W |-> 1922957312, VFFINT_S_WU |-> 1922958336,
     VFFINT_D_L |-> 1922959360, VFFINT_D_LU |-> 1922960384, VFFINTL_D_W |-> 1922961408,
     VFFINTH_D_W |-> 1922962432, VFTINT_W_S |-> 1922969600, VFTINT_L_D |-> 1922970624,
     VFTINTRM_W_S |-> 1922971648, VFTINTRM_L_D |-> 1922972672,
     VFTINTRP_W_S |-> 1922973696, VFTINTRP_L_D |-> 1922974720,
     VFTINTRZ_W_S |-> 1922975744, VFTINTRZ_L_D |-> 1922976768,
     VFTINTRNE_W_S |-> 1922977792, VFTINTRNE_L_D |-> 1922978816,
     VFTINT_WU_S |-> 1922979840, VFTINT_LU_D |-> 1922980864,
     VFTINTRZ_WU_S |-> 1922985984, VFTINTRZ_LU_D |-> 1922987008,
     VFTINTL_L_S |-> 1922990080, VFTINTH_L_S |-> 1922991104,
     VFTINTRML_L_S |-> 1922992128, VFTINTRMH_L_S |-> 1922993152,
     VFTINTRPL_L_S |-> 1922994176, VFTINTRPH_L_S |-> 1922995200,
     VFTINTRZL_L_S |-> 1922996224, VFTINTRZH_L_S |-> 1922997248,
     VFTINTRNEL_L_S |-> 1922998272, VFTINTRNEH_L_S |-> 1922999296,
     VEXTH_H_B |-> 1923014656, VEXTH_W_H |-> 1923015680, VEXTH_D_W |-> 1923016704,
     VEXTH_Q_D |-> 1923017728, VEXTH_HU_BU |-> 1923018752, VEXTH_WU_HU |-> 1923019776,
     VEXTH_DU_WU |-> 1923020800, VEXTH_QU_DU |-> 1923021824,
     VREPLGR2VR_B |-> 1923022848, VREPLGR2VR_H |-> 1923023872,
     VREPLGR2VR_W |-> 1923024896, VREPLGR2VR_D |-> 1923025920, VROTRI_B |-> 1923096576,
     VROTRI_H |-> 1923104768, VROTRI_W |-> 1923121152, VROTRI_D |-> 1923153920,
     VSRLRI_B |-> 1923358720, VSRLRI_H |-> 1923366912, VSRLRI_W |-> 1923383296,
     VSRLRI_D |-> 1923416064, VSRARI_B |-> 1923620864, VSRARI_H |-> 1923629056,
     VSRARI_W |-> 1923645440, VSRARI_D |-> 1923678208, VINSGR2VR_B |-> 1928036352,
     VINSGR2VR_H |-> 1928052736])

Opc2binFromVINSGR2VR_W ==
    Bin([VINSGR2VR_W |-> 1928060928, VINSGR2VR_D |-> 1928065024,
     VPICKVE2GR_B |-> 1928298496, VPICKVE2GR_H |-> 1928314880,
     VPICKVE2GR_W |-> 1928323072, VPICKVE2GR_D |-> 1928327168,
     VPICKVE2GR_BU |-> 1928560640, VPICKVE2GR_HU |-> 1928577024,
     VPICKVE2GR_WU |-> 1928585216, VPICKVE2GR_DU |-> 1928589312,
     VREPLVEI_B |-> 1928822784, VREPLVEI_H |-> 1928839168, VREPLVEI_W |-> 1928847360,
     VREPLVEI_D |-> 1928851456, VSLLWIL_H_B |-> 1929912320, VSLLWIL_W_H |-> 1929920512,
     VSLLWIL_D_W |-> 1929936896, VEXTL_Q_D |-> 1929969664,
     VSLLWIL_HU_BU |-> 1930174464, VSLLWIL_WU_HU |-> 1930182656,
     VSLLWIL_DU_WU |-> 1930199040, VEXTL_QU_DU |-> 1930231808,
     VBITCLRI_B |-> 1930436608, VBITCLRI_H |-> 1930444800, VBITCLRI_W |-> 1930461184,
     VBITCLRI_D |-> 1930493952, VBITSETI_B |-> 1930698752, VBITSETI_H |-> 1930706944,
     VBITSETI_W |-> 1930723328, VBITSETI_D |-> 1930756096, VBITREVI_B |-> 1930960896,
     VBITREVI_H |-> 1930969088, VBITREVI_W |-> 1930985472, VBITREVI_D |-> 1931018240,
     VSAT_B |-> 1931747328, VSAT_H |-> 1931755520, VSAT_W |-> 1931771904,
     VSAT_D |-> 1931804672, VSAT_BU |-> 1932009472, VSAT_HU |-> 1932017664,
     VSAT_WU |-> 1932034048, VSAT_DU |-> 1932066816, VSLLI_B |-> 1932271616,
     VSLLI_H |-> 1932279808, VSLLI_W |-> 1932296192, VSLLI_D |-> 1932328960,
     VSRLI_B |-> 1932533760, VSRLI_H |-> 1932541952, VSRLI_W |-> 1932558336,
     VSRLI_D |-> 1932591104, VSRAI_B |-> 1932795904, VSRAI_H |-> 1932804096,
     VSRAI_W |-> 1932820480, VSRAI_D |-> 1932853248, VSRLNI_B_H |-> 1933590528,
     VSRLNI_H_W |-> 1933606912, VSRLNI_W_D |-> 1933639680, VSRLNI_D_Q |-> 1933705216,
     VSRLRNI_B_H |-> 1933852672, VSRLRNI_H_W |-> 1933869056,
     VSRLRNI_W_D |-> 1933901824, VSRLRNI_D_Q |-> 1933967360,
     VSSRLNI_B_H |-> 1934114816, VSSRLNI_H_W |-> 1934131200,
     VSSRLNI_W_D |-> 1934163968, VSSRLNI_D_Q |-> 1934229504,
     VSSRLNI_BU_H |-> 1934376960, VSSRLNI_HU_W |-> 1934393344,
     VSSRLNI_WU_D |-> 1934426112, VSSRLNI_DU_Q |-> 1934491648,
     VSSRLRNI_B_H |-> 1934639104, VSSRLRNI_H_W |-> 1934655488,
     VSSRLRNI_W_D |-> 1934688256, VSSRLRNI_D_Q |-> 1934753792,
     VSSRLRNI_BU_H |-> 1934901248, VSSRLRNI_HU_W |-> 1934917632,
     VSSRLRNI_WU_D |-> 1934950400, VSSRLRNI_DU_Q |-> 1935015936,
     VSRANI_B_H |-> 1935163392, VSRANI_H_W |-> 1935179776, VSRANI_W_D |-> 1935212544,
     VSRANI_D_Q |-> 1935278080, VSRARNI_B_H |-> 1935425536, VSRARNI_H_W |-> 1935441920,
     VSRARNI_W_D |-> 1935474688, VSRARNI_D_Q |-> 1935540224,
     VSSRANI_B_H |-> 1935687680, VSSRANI_H_W |-> 1935704064,
     VSSRANI_W_D |-> 1935736832, VSSRANI_D_Q |-> 1935802368,
     VSSRANI_BU_H |-> 1935949824, VSSRANI_HU_W |-> 1935966208,
     VSSRANI_WU_D |-> 1935998976, VSSRANI_DU_Q |-> 1936064512,
     VSSRARNI_B_H |-> 1936211968, VSSRARNI_H_W |-> 1936228352,
     VSSRARNI_W_D |-> 1936261120, VSSRARNI_D_Q |-> 1936326656,
     VSSRARNI_BU_H |-> 1936474112, VSSRARNI_HU_W |-> 1936490496,
     VSSRARNI_WU_D |-> 1936523264, VSSRARNI_DU_Q |-> 1936588800,
     VEXTRINS_D |-> 1937768448, VEXTRINS_W |-> 1938030592, VEXTRINS_H |-> 1938292736,
     VEXTRINS_B |-> 1938554880, VSHUF4I_B |-> 1938817024, VSHUF4I_H |-> 1939079168,
     VSHUF4I_W |-> 1939341312, VSHUF4I_D |-> 1939603456, VBITSELI_B |-> 1942224896,
     VANDI_B |-> 1943011328, VORI_B |-> 1943273472, VXORI_B |-> 1943535616,
     VNORI_B |-> 1943797760, VLDI |-> 1944059904, VPERMI_W |-> 1944322048])

Opc2bin ==
       Opc2binFromGR2SCR @@ Opc2binFromX86MUL_DU @@ Opc2binFromFLOGB_S
    @@ Opc2binFromFCMP_CLT_D @@ Opc2binFromLDGT_B @@ Opc2binFromVABSD_HU
    @@ Opc2binFromVSRAR_H @@ Opc2binFromVADDI_BU @@ Opc2binFromVINSGR2VR_W

-----------------------------------------------------------------------------
(* insn2format.                                                            *)

Of(format, opcodes) == [opc \in opcodes |-> format]

FormatsFromCLO_W ==
    Of("format_0", {
        "CLO_W", "CLZ_W", "CTO_W", "CTZ_W", "CLO_D", "CLZ_D", "CTO_D", "CTZ_D",
        "REVB_2H", "REVB_4H", "REVB_2W", "REVB_D", "REVH_2W", "REVH_D", "BITREV_4B",
        "BITREV_8B", "BITREV_W", "BITREV_D", "EXT_W_H", "EXT_W_B", "RDTIMEL_W",
        "RDTIMEH_W", "RDTIME_D", "CPUCFG"})
    @@ Of("format_1", {"ASRTLE_D", "ASRTGT_D"})
    @@ Of("format_2", {"ALSL_W", "ALSL_WU", "BYTEPICK_W", "ALSL_D"})
    @@ Of("format_3", {"BYTEPICK_D"})
    @@ Of("format_4", {
        "ADD_W", "ADD_D", "SUB_W", "SUB_D", "SLT", "SLTU", "MASKEQZ", "MASKNEZ", "NOR",
        "AND", "OR", "XOR", "ORN", "ANDN", "SLL_W", "SRL_W", "SRA_W", "SLL_D", "SRL_D",
        "SRA_D", "ROTR_W", "ROTR_D", "MUL_W", "MULH_W", "MULH_WU", "MUL_D", "MULH_D",
        "MULH_DU", "MULW_D_W", "MULW_D_WU", "DIV_W", "MOD_W", "DIV_WU", "MOD_WU",
        "DIV_D", "MOD_D", "DIV_DU", "MOD_DU", "CRC_W_B_W", "CRC_W_H_W", "CRC_W_W_W",
        "CRC_W_D_W", "CRCC_W_B_W", "CRCC_W_H_W", "CRCC_W_W_W", "CRCC_W_D_W"})
    @@ Of("format_5", {"BREAK", "DBCL", "SYSCALL"})
    @@ Of("format_6", {"SLLI_W", "SRLI_W", "SRAI_W", "ROTRI_W"})
    @@ Of("format_7", {"SLLI_D", "SRLI_D", "SRAI_D", "ROTRI_D"})
    @@ Of("format_8", {"BSTRINS_W", "BSTRPICK_W"})
    @@ Of("format_9", {"BSTRINS_D", "BSTRPICK_D"})
    @@ Of("format_10", {
        "FADD_S", "FADD_D", "FSUB_S", "FSUB_D", "FMUL_S", "FMUL_D", "FDIV_S", "FDIV_D",
        "FMAX_S", "FMAX_D", "FMIN_S", "FMIN_D", "FMAXA_S", "FMAXA_D", "FMINA_S",
        "FMINA_D", "FSCALEB_S", "FSCALEB_D", "FCOPYSIGN_S", "FCOPYSIGN_D"})
    @@ Of("format_11", {
        "FABS_S", "FABS_D", "FNEG_S", "FNEG_D", "FLOGB_S", "FLOGB_D", "FCLASS_S",
        "FCLASS_D", "FSQRT_S", "FSQRT_D", "FRECIP_S", "FRECIP_D", "FRSQRT_S",
        "FRSQRT_D", "FMOV_S", "FMOV_D"})
    @@ Of("format_12", {"MOVGR2FR_W", "MOVGR2FR_D", "MOVGR2FRH_W"})
    @@ Of("format_13", {"MOVFR2GR_S", "MOVFR2GR_D", "MOVFRH2GR_S"})
    @@ Of("format_14", {"MOVGR2FCSR"})
    @@ Of("format_15", {"MOVFCSR2GR"})
    @@ Of("format_16", {"MOVFR2CF"})
    @@ Of("format_17", {"MOVCF2FR"})
    @@ Of("format_18", {"MOVGR2CF"})
    @@ Of("format_19", {"MOVCF2GR"})

FormatsFromFCVT_S_D ==
    Of("format_11", {
        "FCVT_S_D", "FCVT_D_S", "FTINTRM_W_S", "FTINTRM_W_D", "FTINTRM_L_S",
        "FTINTRM_L_D", "FTINTRP_W_S", "FTINTRP_W_D", "FTINTRP_L_S", "FTINTRP_L_D",
        "FTINTRZ_W_S", "FTINTRZ_W_D", "FTINTRZ_L_S", "FTINTRZ_L_D", "FTINTRNE_W_S",
        "FTINTRNE_W_D", "FTINTRNE_L_S", "FTINTRNE_L_D", "FTINT_W_S", "FTINT_W_D",
        "FTINT_L_S", "FTINT_L_D", "FFINT_S_W", "FFINT_S_L", "FFINT_D_W", "FFINT_D_L",
        "FRINT_S", "FRINT_D"})
    @@ Of("format_20", {
        "SLTI", "SLTUI", "ADDI_W", "ADDI_D", "LU52I_D", "LD_B", "LD_H", "LD_W", "LD_D",
        "ST_B", "ST_H", "ST_W", "ST_D", "LD_BU", "LD_HU", "LD_WU"})
    @@ Of("format_21", {"ANDI", "ORI", "XORI"})
    @@ Of("format_22", {"CSRRD", "CSRWR"})
    @@ Of("format_23", {"CSRXCHG"})
    @@ Of("format_24", {"CACOP"})
    @@ Of("format_25", {"LDDIR"})
    @@ Of("format_26", {"LDPTE"})
    @@ Of("format_0", {
        "IOCSRRD_B", "IOCSRRD_H", "IOCSRRD_W", "IOCSRRD_D", "IOCSRWR_B", "IOCSRWR_H",
        "IOCSRWR_W", "IOCSRWR_D"})
    @@ Of("format_27", {
        "TLBCLR", "TLBFLUSH", "TLBSRCH", "TLBRD", "TLBWR", "TLBFILL", "ERTN"})
    @@ Of("format_28", {"IDLE"})
    @@ Of("format_29", {"INVTLB"})
    @@ Of("format_30", {
        "FMADD_S", "FMADD_D", "FMSUB_S", "FMSUB_D", "FNMADD_S", "FNMADD_D", "FNMSUB_S",
        "FNMSUB_D"})
    @@ Of("format_31", {
        "FCMP_CAF_S", "FCMP_SAF_S", "FCMP_CLT_S", "FCMP_STL_S", "FCMP_CEQ_S",
        "FCMP_SEQ_S", "FCMP_CLE_S", "FCMP_SLE_S", "FCMP_CUN_S", "FCMP_SUN_S",
        "FCMP_CULT_S", "FCMP_SULT_S", "FCMP_CUEQ_S", "FCMP_SUEQ_S", "FCMP_CULE_S",
        "FCMP_SULE_S", "FCMP_CNE_S", "FCMP_SNE_S", "FCMP_COR_S", "FCMP_SOR_S",
        "FCMP_CUNE_S", "FCMP_SUNE_S", "FCMP_CAF_D", "FCMP_SAF_D", "FCMP_CLT_D",
        "FCMP_STL_D", "FCMP_CEQ_D", "FCMP_SEQ_D", "FCMP_CLE_D", "FCMP_SLE_D",
        "FCMP_CUN_D", "FCMP_SUN_D", "FCMP_CULT_D", "FCMP_SULT_D", "FCMP_CUEQ_D",
        "FCMP_SUEQ_D", "FCMP_CULE_D", "FCMP_SULE_D", "FCMP_CNE_D", "FCMP_SNE_D",
        "FCMP_COR_D", "FCMP_SOR_D", "FCMP_CUNE_D", "FCMP_SUNE_D"})
    @@ Of("format_32", {"FSEL"})
    @@ Of("format_33", {"ADDU16I_D"})
    @@ Of("format_34", {
        "LU12I_W", "LU32I_D", "PCADDI", "PCALAU12I", "PCADDU12I", "PCADDU18I"})
    @@ Of("format_35", {
        "LL_W", "SC_W", "LL_D", "SC_D", "LDPTR_W", "STPTR_W", "LDPTR_D", "STPTR_D"})
    @@ Of("format_36", {"PRELD"})
    @@ Of("format_37", {"FLD_S"})

FormatsFromFST_S ==
    Of("format_37", {"FST_S", "FLD_D", "FST_D"})
    @@ Of("format_4", {
        "LDX_B", "LDX_H", "LDX_W", "LDX_D", "STX_B", "STX_H", "STX_W", "STX_D",
        "LDX_BU", "LDX_HU", "LDX_WU", "AMSWAP_W", "AMSWAP_D", "AMADD_W", "AMADD_D",
        "AMAND_W", "AMAND_D", "AMOR_W", "AMOR_D", "AMXOR_W", "AMXOR_D", "AMMAX_W",
        "AMMAX_D", "AMMIN_W", "AMMIN_D", "AMMAX_WU", "AMMAX_DU", "AMMIN_WU",
        "AMMIN_DU", "AMSWAP_DB_W", "AMSWAP_DB_D", "AMADD_DB_W", "AMADD_DB_D",
        "AMAND_DB_W", "AMAND_DB_D", "AMOR_DB_W", "AMOR_DB_D", "AMXOR_DB_W",
        "AMXOR_DB_D", "AMMAX_DB_W", "AMMAX_DB_D", "AMMIN_DB_W", "AMMIN_DB_D",
        "AMMAX_DB_WU", "AMMAX_DB_DU", "AMMIN_DB_WU", "AMMIN_DB_DU", "LDGT_B", "LDGT_H",
        "LDGT_W", "LDGT_D", "LDLE_B", "LDLE_H", "LDLE_W", "LDLE_D", "STGT_B", "STGT_H",
        "STGT_W", "STGT_D", "STLE_B", "STLE_H", "STLE_W", "STLE_D", "ROTR_B", "ROTR_H",
        "ADC_B", "ADC_H", "ADC_W", "ADC_D", "SBC_B", "SBC_H", "SBC_W", "SBC_D",
        "RCR_B", "RCR_H", "RCR_W", "RCR_D"})
    @@ Of("format_38", {"PRELDX"})
    @@ Of("format_39", {
        "FLDX_S", "FLDX_D", "FSTX_S", "FSTX_D", "FLDGT_S", "FLDGT_D", "FLDLE_S",
        "FLDLE_D", "FSTGT_S", "FSTGT_D", "FSTLE_S", "FSTLE_D"})
    @@ Of("format_40", {"DBAR"})
    @@ Of("format_41", {"IBAR"})
    @@ Of("format_42", {"BEQZ", "BNEZ"})
    @@ Of("format_43", {"BCEQZ", "BCNEZ"})
    @@ Of("format_44", {"JIRL", "BEQ", "BNE", "BLT", "BGE", "BLTU", "BGEU"})
    @@ Of("format_45", {"B", "BL"})
    @@ Of("format_46", {"GR2SCR"})
    @@ Of("format_47", {"SRC2GR"})
    @@ Of("format_48", {"X86MTTOP"})
    @@ Of("format_49", {"X86MFTOP"})
    @@ Of("format_0", {"SETX86LOOPE", "SETX86LOOPNE"})
    @@ Of("format_50", {
        "X86INC_B", "X86INC_H", "X86INC_W", "X86INC_D", "X86DEC_B", "X86DEC_H",
        "X86DEC_W", "X86DEC_D"})
    @@ Of("format_27", {"X86SETTM", "X86CLRTM", "X86INCTOP", "X86DECTOP"})
    @@ Of("format_51", {"ADDU12I_W", "ADDU12I_D"})
    @@ Of("format_5", {"HVCL"})
    @@ Of("format_52", {"ARMMOVE"})
    @@ Of("format_53", {"SETX86J", "SETARMJ"})
    @@ Of("format_54", {
        "ARMADD_W", "ARMSUB_W", "ARMADC_W", "ARMSBC_W", "ARMAND_W", "ARMOR_W",
        "ARMXOR_W", "ARMSLL_W"})

FormatsFromARMSRL_W ==
    Of("format_54", {
        "ARMSRL_W", "ARMSRA_W", "ARMROTR_W", "ARMSLLI_W", "ARMSRLI_W", "ARMSRAI_W",
        "ARMROTRI_W"})
    @@ Of("format_1", {
        "X86MUL_B", "X86MUL_H", "X86MUL_W", "X86MUL_D", "X86MUL_BU", "X86MUL_HU",
        "X86MUL_WU", "X86MUL_DU", "X86ADD_WU", "X86ADD_DU", "X86SUB_WU", "X86SUB_DU",
        "X86ADD_B", "X86ADD_H", "X86ADD_W", "X86ADD_D", "X86SUB_B", "X86SUB_H",
        "X86SUB_W", "X86SUB_D", "X86ADC_B", "X86ADC_H", "X86ADC_W", "X86ADC_D",
        "X86SBC_B", "X86SBC_H", "X86SBC_W", "X86SBC_D", "X86SLL_B", "X86SLL_H",
        "X86SLL_W", "X86SLL_D", "X86SRL_B", "X86SRL_H", "X86SRL_W", "X86SRL_D",
        "X86SRA_B", "X86SRA_H", "X86SRA_W", "X86SRA_D", "X86ROTR_B", "X86ROTR_H",
        "X86ROTR_D", "X86ROTR_W", "X86ROTL_B", "X86ROTL_H", "X86ROTL_W", "X86ROTL_D",
        "X86RCR_B", "X86RCR_H", "X86RCR_W", "X86RCR_D", "X86RCL_B", "X86RCL_H",
        "X86RCL_W", "X86RCL_D", "X86AND_B", "X86AND_H", "X86AND_W", "X86AND_D",
        "X86OR_B", "X86OR_H", "X86OR_W", "X86OR_D", "X86XOR_B", "X86XOR_H", "X86XOR_W",
        "X86XOR_D"})
    @@ Of("format_55", {"ARMNOT_W", "ARMMOV_W", "ARMMOV_D", "ARMRRX_W"})
    @@ Of("format_56", {"ROTRI_B", "RCRI_B"})
    @@ Of("format_57", {"ROTRI_H", "RCRI_H"})
    @@ Of("format_6", {"RCRI_W"})
    @@ Of("format_7", {"RCRI_D"})
    @@ Of("format_58", {
        "X86SLLI_B", "X86SRLI_B", "X86SRAI_B", "X86ROTRI_B", "X86RCRI_B", "X86ROTLI_B",
        "X86RCLI_B"})
    @@ Of("format_59", {
        "X86SLLI_H", "X86SRLI_H", "X86SRAI_H", "X86ROTRI_H", "X86RCRI_H", "X86ROTLI_H",
        "X86RCLI_H"})
    @@ Of("format_60", {
        "X86SLLI_W", "X86SRLI_W", "X86SRAI_W", "X86ROTRI_W", "X86RCRI_W", "X86ROTLI_W",
        "X86RCLI_W"})
    @@ Of("format_61", {
        "X86SLLI_D", "X86SRLI_D", "X86SRAI_D", "X86ROTRI_D", "X86RCRI_D", "X86ROTLI_D",
        "X86RCLI_D"})
    @@ Of("format_62", {"X86SETTAG"})
    @@ Of("format_63", {"X86MFFLAG", "X86MTFLAG", "ARMMFFLAG", "ARMMTFLAG"})
    @@ Of("format_11", {"FCVT_LD_D", "FCVT_UD_D"})
    @@ Of("format_10", {"FCVT_D_LC"})
    @@ Of("format_22", {"GCSRRD", "GCSRWR"})
    @@ Of("format_23", {"GCSRXCHG"})
    @@ Of("format_27", {
        "GTLBCLR", "GTLBFLUSH", "GTLBSRCH", "GTLBRD", "GTLBWR", "GTLBFILL", "SNOP"})
    @@ Of("format_0", {"SCFGR_W", "SCFGR_D", "SCFGW_W", "SCFGW_D"})
    @@ Of("format_20", {"LDL_W", "LDR_W", "LDL_D", "LDR_D", "STL_W"})

FormatsFromSTR_W ==
    Of("format_20", {"STR_W", "STL_D", "STR_D"})
    @@ Of("format_64", {"JISCR0", "JISCR1"})
    @@ Of("vvv", {
        "VADD_B", "VADD_H", "VADD_W", "VADD_D", "VADD_Q", "VSUB_B", "VSUB_H", "VSUB_W",
        "VSUB_D", "VSUB_Q", "VSADD_B", "VSADD_H", "VSADD_W", "VSADD_D", "VSADD_BU",
        "VSADD_HU", "VSADD_WU", "VSADD_DU", "VSSUB_B", "VSSUB_H", "VSSUB_W", "VSSUB_D",
        "VSSUB_BU", "VSSUB_HU", "VSSUB_WU", "VSSUB_DU", "VHADDW_H_B", "VHADDW_W_H",
        "VHADDW_D_W", "VHADDW_Q_D", "VHADDW_HU_BU", "VHADDW_WU_HU", "VHADDW_DU_WU",
        "VHADDW_QU_DU", "VHSUBW_H_B", "VHSUBW_W_H", "VHSUBW_D_W", "VHSUBW_Q_D",
        "VHSUBW_HU_BU", "VHSUBW_WU_HU", "VHSUBW_DU_WU", "VHSUBW_QU_DU", "VADDWEV_H_B",
        "VADDWEV_W_H", "VADDWEV_D_W", "VADDWEV_Q_D", "VADDWOD_H_B", "VADDWOD_W_H",
        "VADDWOD_D_W", "VADDWOD_Q_D", "VSUBWEV_H_B", "VSUBWEV_W_H", "VSUBWEV_D_W",
        "VSUBWEV_Q_D", "VSUBWOD_H_B", "VSUBWOD_W_H", "VSUBWOD_D_W", "VSUBWOD_Q_D",
        "VADDWEV_H_BU", "VADDWEV_W_HU", "VADDWEV_D_WU", "VADDWEV_Q_DU", "VADDWOD_H_BU",
        "VADDWOD_W_HU", "VADDWOD_D_WU", "VADDWOD_Q_DU", "VSUBWEV_H_BU", "VSUBWEV_W_HU",
        "VSUBWEV_D_WU", "VSUBWEV_Q_DU", "VSUBWOD_H_BU", "VSUBWOD_W_HU", "VSUBWOD_D_WU",
        "VSUBWOD_Q_DU", "VADDWEV_H_BU_B", "VADDWEV_W_HU_H", "VADDWEV_D_WU_W",
        "VADDWEV_Q_DU_D", "VADDWOD_H_BU_B", "VADDWOD_W_HU_H", "VADDWOD_D_WU_W",
        "VADDWOD_Q_DU_D", "VAVG_B", "VAVG_H", "VAVG_W", "VAVG_D", "VAVG_BU", "VAVG_HU",
        "VAVG_WU", "VAVG_DU", "VAVGR_B", "VAVGR_H", "VAVGR_W", "VAVGR_D", "VAVGR_BU",
        "VAVGR_HU", "VAVGR_WU", "VAVGR_DU", "VABSD_B", "VABSD_H", "VABSD_W", "VABSD_D",
        "VABSD_BU", "VABSD_HU", "VABSD_WU", "VABSD_DU", "VADDA_B", "VADDA_H",
        "VADDA_W", "VADDA_D", "VMAX_B", "VMAX_H", "VMAX_W", "VMAX_D", "VMAX_BU",
        "VMAX_HU", "VMAX_WU", "VMAX_DU"})
    @@ Of("vv_ui5", {
        "VADDI_BU", "VADDI_HU", "VADDI_WU", "VADDI_DU", "VSUBI_BU", "VSUBI_HU",
        "VSUBI_WU", "VSUBI_DU", "VMAXI_BU"})
    @@ Of("vv", {"VNEG_B", "VNEG_H", "VNEG_W", "VNEG_D"})
    @@ Of("vv_i5", {"VMAXI_B", "VMAXI_H", "VMAXI_W", "VMAXI_D"})

FormatsFromVMAXI_HU ==
    Of("vv_ui5", {
        "VMAXI_HU", "VMAXI_WU", "VMAXI_DU", "VMINI_BU", "VMINI_HU", "VMINI_WU",
        "VMINI_DU", "VSAT_W", "VSAT_WU"})
    @@ Of("vvv", {
        "VMIN_B", "VMIN_H", "VMIN_W", "VMIN_D", "VMIN_BU", "VMIN_HU", "VMIN_WU",
        "VMIN_DU", "VMUL_B", "VMUL_H", "VMUL_W", "VMUL_D", "VMUH_B", "VMUH_H",
        "VMUH_W", "VMUH_D", "VMUH_BU", "VMUH_HU", "VMUH_WU", "VMUH_DU", "VMULWEV_H_B",
        "VMULWEV_W_H", "VMULWEV_D_W", "VMULWEV_Q_D", "VMULWOD_H_B", "VMULWOD_W_H",
        "VMULWOD_D_W", "VMULWOD_Q_D", "VMULWEV_H_BU", "VMULWEV_W_HU", "VMULWEV_D_WU",
        "VMULWEV_Q_DU", "VMULWOD_H_BU", "VMULWOD_W_HU", "VMULWOD_D_WU", "VMULWOD_Q_DU",
        "VMULWEV_H_BU_B", "VMULWEV_W_HU_H", "VMULWEV_D_WU_W", "VMULWEV_Q_DU_D",
        "VMULWOD_H_BU_B", "VMULWOD_W_HU_H", "VMULWOD_D_WU_W", "VMULWOD_Q_DU_D",
        "VMADD_B", "VMADD_H", "VMADD_W", "VMADD_D", "VMSUB_B", "VMSUB_H", "VMSUB_W",
        "VMSUB_D", "VMADDWEV_H_B", "VMADDWEV_W_H", "VMADDWEV_D_W", "VMADDWEV_Q_D",
        "VMADDWOD_H_B", "VMADDWOD_W_H", "VMADDWOD_D_W", "VMADDWOD_Q_D",
        "VMADDWEV_H_BU", "VMADDWEV_W_HU", "VMADDWEV_D_WU", "VMADDWEV_Q_DU",
        "VMADDWOD_H_BU", "VMADDWOD_W_HU", "VMADDWOD_D_WU", "VMADDWOD_Q_DU",
        "VMADDWEV_H_BU_B", "VMADDWEV_W_HU_H", "VMADDWEV_D_WU_W", "VMADDWEV_Q_DU_D",
        "VMADDWOD_H_BU_B", "VMADDWOD_W_HU_H", "VMADDWOD_D_WU_W", "VMADDWOD_Q_DU_D",
        "VDIV_B", "VDIV_H", "VDIV_W", "VDIV_D", "VDIV_BU", "VDIV_HU", "VDIV_WU",
        "VDIV_DU", "VMOD_B", "VMOD_H", "VMOD_W", "VMOD_D", "VMOD_BU", "VMOD_HU",
        "VMOD_WU", "VMOD_DU", "VSIGNCOV_B", "VSIGNCOV_H", "VSIGNCOV_W", "VSIGNCOV_D",
        "VAND_V", "VOR_V", "VXOR_V", "VNOR_V", "VANDN_V", "VORN_V"})
    @@ Of("vv_i5", {"VMINI_B", "VMINI_H", "VMINI_W", "VMINI_D"})
    @@ Of("vv_ui3", {"VSAT_B", "VSAT_BU"})
    @@ Of("vv_ui4", {"VSAT_H", "VSAT_HU"})
    @@ Of("vv_ui6", {"VSAT_D", "VSAT_DU"})
    @@ Of("vv", {
        "VEXTH_H_B", "VEXTH_W_H", "VEXTH_D_W", "VEXTH_Q_D", "VEXTH_HU_BU",
        "VEXTH_WU_HU", "VEXTH_DU_WU", "VEXTH_QU_DU", "VMSKLTZ_B", "VMSKLTZ_H",
        "VMSKLTZ_W", "VMSKLTZ_D", "VMSKGEZ_B", "VMSKNZ_B"})
    @@ Of("v_i13", {"VLDI"})
    @@ Of("vv_ui8", {"VANDI_B", "VORI_B", "VXORI_B", "VNORI_B"})

FormatsFromVSLL_B ==
    Of("vvv", {
        "VSLL_B", "VSLL_H", "VSLL_W", "VSLL_D", "VSRL_B", "VSRL_H", "VSRL_W", "VSRL_D",
        "VSRA_B", "VSRA_H", "VSRA_W", "VSRA_D", "VROTR_B", "VROTR_H", "VROTR_W",
        "VROTR_D", "VSRLR_B", "VSRLR_H", "VSRLR_W", "VSRLR_D", "VSRAR_B", "VSRAR_H",
        "VSRAR_W", "VSRAR_D", "VSRLN_B_H", "VSRLN_H_W", "VSRLN_W_D", "VSRAN_B_H",
        "VSRAN_H_W", "VSRAN_W_D", "VSRLRN_B_H", "VSRLRN_H_W", "VSRLRN_W_D",
        "VSRARN_B_H", "VSRARN_H_W", "VSRARN_W_D", "VSSRLN_B_H", "VSSRLN_H_W",
        "VSSRLN_W_D", "VSSRAN_B_H", "VSSRAN_H_W", "VSSRAN_W_D", "VSSRLN_BU_H",
        "VSSRLN_HU_W", "VSSRLN_WU_D", "VSSRAN_BU_H", "VSSRAN_HU_W", "VSSRAN_WU_D",
        "VSSRLRN_B_H", "VSSRLRN_H_W", "VSSRLRN_W_D", "VSSRARN_B_H", "VSSRARN_H_W",
        "VSSRARN_W_D", "VSSRLRN_BU_H", "VSSRLRN_HU_W", "VSSRLRN_WU_D", "VSSRARN_BU_H",
        "VSSRARN_HU_W", "VSSRARN_WU_D"})
    @@ Of("vv_ui3", {
        "VSLLI_B", "VSRLI_B", "VSRAI_B", "VROTRI_B", "VSLLWIL_H_B", "VSLLWIL_HU_BU",
        "VSRLRI_B", "VSRARI_B"})
    @@ Of("vv_ui4", {
        "VSLLI_H", "VSRLI_H", "VSRAI_H", "VROTRI_H", "VSLLWIL_W_H", "VSLLWIL_WU_HU",
        "VSRLRI_H", "VSRARI_H", "VSRLNI_B_H", "VSRANI_B_H", "VSRLRNI_B_H",
        "VSRARNI_B_H", "VSSRLNI_B_H", "VSSRANI_B_H", "VSSRLNI_BU_H", "VSSRANI_BU_H",
        "VSSRLRNI_B_H", "VSSRARNI_B_H", "VSSRLRNI_BU_H", "VSSRARNI_BU_H"})
    @@ Of("vv_ui5", {
        "VSLLI_W", "VSRLI_W", "VSRAI_W", "VROTRI_W", "VSLLWIL_D_W", "VSLLWIL_DU_WU",
        "VSRLRI_W", "VSRARI_W", "VSRLNI_H_W", "VSRANI_H_W", "VSRLRNI_H_W",
        "VSRARNI_H_W", "VSSRLNI_H_W", "VSSRANI_H_W", "VSSRLNI_HU_W", "VSSRANI_HU_W",
        "VSSRLRNI_H_W", "VSSRARNI_H_W", "VSSRLRNI_HU_W", "VSSRARNI_HU_W"})
    @@ Of("vv_ui6", {
        "VSLLI_D", "VSRLI_D", "VSRAI_D", "VROTRI_D", "VSRLRI_D", "VSRARI_D",
        "VSRLNI_W_D", "VSRANI_W_D", "VSRLRNI_W_D", "VSRARNI_W_D", "VSSRLNI_W_D",
        "VSSRANI_W_D", "VSSRLNI_WU_D", "VSSRANI_WU_D", "VSSRLRNI_W_D", "VSSRARNI_W_D",
        "VSSRLRNI_WU_D", "VSSRARNI_WU_D"})
    @@ Of("vv", {"VEXTL_Q_D", "VEXTL_QU_DU"})
    @@ Of("vv_ui7", {
        "VSRLNI_D_Q", "VSRANI_D_Q", "VSRLRNI_D_Q", "VSRARNI_D_Q", "VSSRLNI_D_Q",
        "VSSRANI_D_Q", "VSSRLNI_DU_Q", "VSSRANI_DU_Q", "VSSRLRNI_D_Q", "VSSRARNI_D_Q",
        "VSSRLRNI_DU_Q", "VSSRARNI_DU_Q"})

FormatsFromVCLO_B ==
    Of("vv", {
        "VCLO_B", "VCLO_H", "VCLO_W", "VCLO_D", "VCLZ_B", "VCLZ_H", "VCLZ_W", "VCLZ_D",
        "VPCNT_B", "VPCNT_H", "VPCNT_W", "VPCNT_D", "VFLOGB_S", "VFLOGB_D",
        "VFCLASS_S", "VFCLASS_D", "VFSQRT_S", "VFSQRT_D", "VFRECIP_S", "VFRECIP_D",
        "VFRSQRT_S", "VFRSQRT_D", "VFCVTL_S_H", "VFCVTH_S_H", "VFCVTL_D_S",
        "VFCVTH_D_S", "VFRINT_S", "VFRINT_D", "VFRINTRM_S", "VFRINTRM_D", "VFRINTRP_S",
        "VFRINTRP_D", "VFRINTRZ_S", "VFRINTRZ_D", "VFRINTRNE_S", "VFRINTRNE_D",
        "VFTINT_W_S", "VFTINT_L_D", "VFTINTRM_W_S", "VFTINTRM_L_D", "VFTINTRP_W_S",
        "VFTINTRP_L_D", "VFTINTRZ_W_S", "VFTINTRZ_L_D", "VFTINTRNE_W_S",
        "VFTINTRNE_L_D", "VFTINT_WU_S", "VFTINT_LU_D", "VFTINTRZ_WU_S",
        "VFTINTRZ_LU_D", "VFTINTL_L_S", "VFTINTH_L_S", "VFTINTRML_L_S",
        "VFTINTRMH_L_S", "VFTINTRPL_L_S", "VFTINTRPH_L_S", "VFTINTRZL_L_S",
        "VFTINTRZH_L_S", "VFTINTRNEL_L_S", "VFTINTRNEH_L_S", "VFFINT_S_W",
        "VFFINT_S_WU", "VFFINT_D_L", "VFFINT_D_LU", "VFFINTL_D_W", "VFFINTH_D_W"})
    @@ Of("vvv", {
        "VBITCLR_B", "VBITCLR_H", "VBITCLR_W", "VBITCLR_D", "VBITSET_B", "VBITSET_H",
        "VBITSET_W", "VBITSET_D", "VBITREV_B", "VBITREV_H", "VBITREV_W", "VBITREV_D",
        "VFRSTP_B", "VFRSTP_H", "VFADD_S", "VFADD_D", "VFSUB_S", "VFSUB_D", "VFMUL_S",
        "VFMUL_D", "VFDIV_S", "VFDIV_D", "VFMAX_S", "VFMAX_D", "VFMIN_S", "VFMIN_D",
        "VFMAXA_S", "VFMAXA_D", "VFMINA_S", "VFMINA_D", "VFCVT_H_S", "VFCVT_S_D",
        "VFTINT_W_D", "VFTINTRM_W_D", "VFTINTRP_W_D", "VFTINTRZ_W_D", "VFTINTRNE_W_D",
        "VFFINT_S_L", "VSEQ_B", "VSEQ_H", "VSEQ_W", "VSEQ_D", "VSLE_B", "VSLE_H",
        "VSLE_W", "VSLE_D"})
    @@ Of("vv_ui3", {"VBITCLRI_B", "VBITSETI_B", "VBITREVI_B"})
    @@ Of("vv_ui4", {"VBITCLRI_H", "VBITSETI_H", "VBITREVI_H"})
    @@ Of("vv_ui5", {
        "VBITCLRI_W", "VBITSETI_W", "VBITREVI_W", "VFRSTPI_B", "VFRSTPI_H"})
    @@ Of("vv_ui6", {"VBITCLRI_D", "VBITSETI_D", "VBITREVI_D"})
    @@ Of("vvvv", {
        "VFMADD_S", "VFMADD_D", "VFMSUB_S", "VFMSUB_D", "VFNMADD_S", "VFNMADD_D",
        "VFNMSUB_S", "VFNMSUB_D"})
    @@ Of("vv_i5", {"VSEQI_B", "VSEQI_H", "VSEQI_W", "VSEQI_D", "VSLEI_B", "VSLEI_H"})

FormatsFromVSLEI_W ==
    Of("vv_i5", {"VSLEI_W", "VSLEI_D", "VSLTI_B", "VSLTI_H", "VSLTI_W", "VSLTI_D"})
    @@ Of("vvv", {
        "VSLE_BU", "VSLE_HU", "VSLE_WU", "VSLE_DU", "VSLT_B", "VSLT_H", "VSLT_W",
        "VSLT_D", "VSLT_BU", "VSLT_HU", "VSLT_WU", "VSLT_DU", "VPACKEV_B", "VPACKEV_H",
        "VPACKEV_W", "VPACKEV_D", "VPACKOD_B", "VPACKOD_H", "VPACKOD_W", "VPACKOD_D",
        "VPICKEV_B", "VPICKEV_H", "VPICKEV_W", "VPICKEV_D", "VPICKOD_B", "VPICKOD_H",
        "VPICKOD_W", "VPICKOD_D", "VILVL_B", "VILVL_H", "VILVL_W", "VILVL_D",
        "VILVH_B", "VILVH_H", "VILVH_W", "VILVH_D", "VSHUF_H", "VSHUF_W", "VSHUF_D"})
    @@ Of("vv_ui5", {
        "VSLEI_BU", "VSLEI_HU", "VSLEI_WU", "VSLEI_DU", "VSLTI_BU", "VSLTI_HU",
        "VSLTI_WU", "VSLTI_DU", "VBSLL_V", "VBSRL_V"})
    @@ Of("vvv_fcond", {"VFCMP_COND_S", "VFCMP_COND_D"})
    @@ Of("vvvv", {"VBITSEL_V", "VSHUF_B"})
    @@ Of("vv_ui8", {
        "VBITSELI_B", "VSHUF4I_B", "VSHUF4I_H", "VSHUF4I_W", "VSHUF4I_D", "VPERMI_W",
        "VEXTRINS_D", "VEXTRINS_W", "VEXTRINS_H", "VEXTRINS_B"})
    @@ Of("cv", {
        "VSETEQZ_V", "VSETNEZ_V", "VSETANYEQZ_B", "VSETANYEQZ_H", "VSETANYEQZ_W",
        "VSETANYEQZ_D", "VSETALLNEZ_B", "VSETALLNEZ_H", "VSETALLNEZ_W", "VSETALLNEZ_D"})
    @@ Of("vr_ui4", {"VINSGR2VR_B"})
    @@ Of("vr_ui3", {"VINSGR2VR_H"})
    @@ Of("vr_ui2", {"VINSGR2VR_W"})
    @@ Of("vr_ui1", {"VINSGR2VR_D"})
    @@ Of("rv_ui4", {"VPICKVE2GR_B", "VPICKVE2GR_BU"})
    @@ Of("rv_ui3", {"VPICKVE2GR_H", "VPICKVE2GR_HU"})
    @@ Of("rv_ui2", {"VPICKVE2GR_W", "VPICKVE2GR_WU"})
    @@ Of("rv_ui1", {"VPICKVE2GR_D", "VPICKVE2GR_DU"})
    @@ Of("vr", {"VREPLGR2VR_B", "VREPLGR2VR_H", "VREPLGR2VR_W", "VREPLGR2VR_D"})
    @@ Of("vvr", {"VREPLVE_B", "VREPLVE_H", "VREPLVE_W", "VREPLVE_D"})
    @@ Of("vv_ui4", {"VREPLVEI_B"})
    @@ Of("vv_ui3", {"VREPLVEI_H"})
    @@ Of("vv_ui2", {"VREPLVEI_W"})
    @@ Of("vv_ui1", {"VREPLVEI_D"})
    @@ Of("vr_i12", {"VLD", "VST", "VLDREPL_B"})
    @@ Of("vrr", {"VLDX", "VSTX"})
    @@ Of("vr_i9", {"VLDREPL_D"})
    @@ Of("vr_i10", {"VLDREPL_W"})
    @@ Of("vr_i11", {"VLDREPL_H"})
    @@ Of("vr_i8i1", {"VSTELM_D"})
    @@ Of("vr_i8i2", {"VSTELM_W"})
    @@ Of("vr_i8i3", {"VSTELM_H"})
    @@ Of("vr_i8i4", {"VSTELM_B"})
    @@ Of("xr_i12", {"XVLD", "XVST"})

Insn2format ==
       FormatsFromCLO_W @@ FormatsFromFCVT_S_D @@ FormatsFromFST_S
    @@ FormatsFromARMSRL_W @@ FormatsFromSTR_W @@ FormatsFromVMAXI_HU
    @@ FormatsFromVSLL_B @@ FormatsFromVCLO_B @@ FormatsFromVSLEI_W
=============================================================================
