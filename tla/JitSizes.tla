------------------------------ MODULE JitSizes ------------------------------
(***************************************************************************)
(* The instruction-size tables of lib/jit_*-sz.c: for each target (word    *)
(* size and architecture, as the #if guards select) JIT_INSTR_MAX and one  *)
(* row per abstract opcode giving the most bytes its encoding may take.    *)
(* The rows are transcribed in source order; OpNames gives the opcode of   *)
(* each row (the comment on the row).  On 64-bit PowerPC the three htonr   *)
(* rows depend on the byte order.                                          *)
(***************************************************************************)
EXTENDS Integers, Sequences

CONSTANT BigEndian   \* __BYTE_ORDER == __BIG_ENDIAN

OpNames ==
  <<
    "data", "live", "align", "save", "load", "#name", "#note", "label",
    "prolog", "arg", "addr", "addi", "addcr", "addci", "addxr", "addxi",
    "subr", "subi", "subcr", "subci", "subxr", "subxi", "rsbi", "mulr",
    "muli", "qmulr", "qmuli", "qmulr_u", "qmuli_u", "divr", "divi",
    "divr_u", "divi_u", "qdivr", "qdivi", "qdivr_u", "qdivi_u", "remr",
    "remi", "remr_u", "remi_u", "andr", "andi", "orr", "ori", "xorr",
    "xori", "lshr", "lshi", "rshr", "rshi", "rshr_u", "rshi_u", "negr",
    "comr", "ltr", "lti", "ltr_u", "lti_u", "ler", "lei", "ler_u", "lei_u",
    "eqr", "eqi", "ger", "gei", "ger_u", "gei_u", "gtr", "gti", "gtr_u",
    "gti_u", "ner", "nei", "movr", "movi", "extr_c", "extr_uc", "extr_s",
    "extr_us", "extr_i", "extr_ui", "htonr_us", "htonr_ui", "htonr_ul",
    "ldr_c", "ldi_c", "ldr_uc", "ldi_uc", "ldr_s", "ldi_s", "ldr_us",
    "ldi_us", "ldr_i", "ldi_i", "ldr_ui", "ldi_ui", "ldr_l", "ldi_l",
    "ldxr_c", "ldxi_c", "ldxr_uc", "ldxi_uc", "ldxr_s", "ldxi_s",
    "ldxr_us", "ldxi_us", "ldxr_i", "ldxi_i", "ldxr_ui", "ldxi_ui",
    "ldxr_l", "ldxi_l", "str_c", "sti_c", "str_s", "sti_s", "str_i",
    "sti_i", "str_l", "sti_l", "stxr_c", "stxi_c", "stxr_s", "stxi_s",
    "stxr_i", "stxi_i", "stxr_l", "stxi_l", "bltr", "blti", "bltr_u",
    "blti_u", "bler", "blei", "bler_u", "blei_u", "beqr", "beqi", "bger",
    "bgei", "bger_u", "bgei_u", "bgtr", "bgti", "bgtr_u", "bgti_u", "bner",
    "bnei", "bmsr", "bmsi", "bmcr", "bmci", "boaddr", "boaddi", "boaddr_u",
    "boaddi_u", "bxaddr", "bxaddi", "bxaddr_u", "bxaddi_u", "bosubr",
    "bosubi", "bosubr_u", "bosubi_u", "bxsubr", "bxsubi", "bxsubr_u",
    "bxsubi_u", "jmpr", "jmpi", "callr", "calli", "epilog", "arg_f",
    "addr_f", "addi_f", "subr_f", "subi_f", "rsbi_f", "mulr_f", "muli_f",
    "divr_f", "divi_f", "negr_f", "absr_f", "sqrtr_f", "ltr_f", "lti_f",
    "ler_f", "lei_f", "eqr_f", "eqi_f", "ger_f", "gei_f", "gtr_f", "gti_f",
    "ner_f", "nei_f", "unltr_f", "unlti_f", "unler_f", "unlei_f",
    "uneqr_f", "uneqi_f", "unger_f", "ungei_f", "ungtr_f", "ungti_f",
    "ltgtr_f", "ltgti_f", "ordr_f", "ordi_f", "unordr_f", "unordi_f",
    "truncr_f_i", "truncr_f_l", "extr_f", "extr_d_f", "movr_f", "movi_f",
    "ldr_f", "ldi_f", "ldxr_f", "ldxi_f", "str_f", "sti_f", "stxr_f",
    "stxi_f", "bltr_f", "blti_f", "bler_f", "blei_f", "beqr_f", "beqi_f",
    "bger_f", "bgei_f", "bgtr_f", "bgti_f", "bner_f", "bnei_f", "bunltr_f",
    "bunlti_f", "bunler_f", "bunlei_f", "buneqr_f", "buneqi_f", "bunger_f",
    "bungei_f", "bungtr_f", "bungti_f", "bltgtr_f", "bltgti_f", "bordr_f",
    "bordi_f", "bunordr_f", "bunordi_f", "arg_d", "addr_d", "addi_d",
    "subr_d", "subi_d", "rsbi_d", "mulr_d", "muli_d", "divr_d", "divi_d",
    "negr_d", "absr_d", "sqrtr_d", "ltr_d", "lti_d", "ler_d", "lei_d",
    "eqr_d", "eqi_d", "ger_d", "gei_d", "gtr_d", "gti_d", "ner_d", "nei_d",
    "unltr_d", "unlti_d", "unler_d", "unlei_d", "uneqr_d", "uneqi_d",
    "unger_d", "ungei_d", "ungtr_d", "ungti_d", "ltgtr_d", "ltgti_d",
    "ordr_d", "ordi_d", "unordr_d", "unordi_d", "truncr_d_i", "truncr_d_l",
    "extr_d", "extr_f_d", "movr_d", "movi_d", "ldr_d", "ldi_d", "ldxr_d",
    "ldxi_d", "str_d", "sti_d", "stxr_d", "stxi_d", "bltr_d", "blti_d",
    "bler_d", "blei_d", "beqr_d", "beqi_d", "bger_d", "bgei_d", "bgtr_d",
    "bgti_d", "bner_d", "bnei_d", "bunltr_d", "bunlti_d", "bunler_d",
    "bunlei_d", "buneqr_d", "buneqi_d", "bunger_d", "bungei_d", "bungtr_d",
    "bungti_d", "bltgtr_d", "bltgti_d", "bordr_d", "bordi_d", "bunordr_d",
    "bunordi_d", "movr_w_f", "movr_ww_d", "movr_w_d", "movr_f_w",
    "movi_f_w", "movr_d_ww", "movi_d_ww", "movr_d_w", "movi_d_w",
    "x86_retval_f", "x86_retval_d", "va_start", "va_arg", "va_arg_d",
    "va_end"
  >>

Aarch64W64Rows1 ==
  <<
    0, 0, 4, 0, 0, 0, 0, 0, 64, 0, 4, 12, 4, 12, 4, 8, 4, 16, 4, 12, 4, 8,
    20, 4, 12, 12, 20, 12, 20, 4, 12, 4, 12, 20, 16, 20, 16, 12, 20, 12,
    20, 4, 12, 4, 12, 4, 12, 4, 4, 4, 4, 4, 4, 4, 4, 8, 8, 8, 8, 8, 8, 8,
    8, 8, 8, 8, 8, 8, 8, 8, 8, 8, 8, 8, 8, 4, 16, 4, 4, 4, 4, 4, 4, 8, 8,
    4, 4, 12, 4, 12, 4, 12, 4, 12, 4, 12, 4, 12, 4, 12, 8, 8, 4, 4, 4, 4,
    4, 4, 4, 4, 4, 4, 4, 4, 4, 12, 4, 12, 4, 12, 4, 12, 4, 4, 4, 4, 4, 4,
    4, 4, 8, 8, 8, 8, 8, 8, 8, 8, 8, 24, 8, 8, 8, 8, 8, 8, 8, 8, 8, 24
  >>

Aarch64W64Rows2 ==
  <<
    8, 8, 8, 8, 8, 8, 8, 8, 8, 8, 8, 8, 8, 8, 8, 8, 8, 8, 8, 8, 0, 20, 4,
    20, 64, 0, 4, 12, 4, 12, 12, 4, 12, 4, 12, 4, 4, 4, 8, 16, 8, 16, 8,
    16, 8, 16, 8, 16, 8, 16, 8, 16, 8, 16, 16, 24, 8, 16, 8, 16, 16, 24, 8,
    16, 8, 16, 8, 4, 4, 4, 4, 8, 8, 16, 8, 8, 8, 16, 8, 8, 8, 16, 8, 16, 8,
    16, 8, 16, 8, 16, 8, 16, 8, 16, 8, 16, 16, 24, 8, 16, 8, 16, 16, 24, 8,
    16, 8, 16, 0, 4, 12, 4, 12, 12, 4, 12, 4, 12, 4, 4, 4, 8, 16, 8, 16, 8,
    16, 8, 16, 8, 16, 8, 16, 8, 16, 8, 16, 16, 24, 8, 16, 8, 16, 16, 24, 8,
    16, 8, 16, 8
  >>

Aarch64W64Rows3 ==
  <<
    4, 4, 4, 4, 12, 8, 16, 8, 8, 8, 16, 8, 8, 8, 16, 8, 16, 8, 20, 8, 16,
    8, 16, 8, 16, 8, 16, 8, 16, 16, 24, 8, 16, 8, 16, 16, 24, 8, 16, 8, 16,
    0, 0, 0, 0, 0, 0, 0, 0, 0, 0, 0, 0, 0, 0, 0
  >>

Aarch64W64Max == 64

Aarch64W64Sizes == Aarch64W64Rows1 \o Aarch64W64Rows2 \o Aarch64W64Rows3

PpcW32Rows1 ==
  <<
    0, 0, 0, 0, 0, 0, 0, 0, 44, 0, 4, 12, 4, 12, 4, 8, 4, 12, 4, 12, 4, 8,
    16, 4, 12, 12, 16, 12, 16, 4, 12, 4, 12, 20, 16, 20, 16, 12, 20, 12,
    20, 4, 12, 4, 12, 4, 12, 4, 4, 4, 4, 4, 4, 4, 4, 12, 12, 12, 16, 16,
    16, 16, 16, 12, 12, 16, 16, 16, 16, 12, 12, 12, 12, 16, 16, 4, 8, 4, 4,
    4, 4, 0, 0, 4, 4, 0, 8, 12, 4, 8, 4, 8, 4, 8, 4, 8, 0, 0, 0, 0, 8, 8,
    4, 4, 4, 4, 4, 4, 4, 4, 0, 0, 0, 0, 4, 8, 4, 8, 4, 8, 0, 0, 4, 4, 4, 4,
    4, 4, 0, 0, 8, 8, 8, 12, 8, 8, 8, 12, 8, 16, 8, 8, 8, 8, 8, 8, 8, 8, 8,
    16
  >>

PpcW32Rows2 ==
  <<
    12, 12, 12, 12, 12, 16, 12, 12, 12, 16, 12, 12, 12, 16, 12, 16, 12, 16,
    12, 16, 0, 4, 8, 16, 44, 0, 4, 12, 4, 12, 12, 4, 12, 4, 12, 4, 4, 4,
    12, 20, 16, 24, 12, 20, 16, 24, 12, 20, 16, 24, 16, 24, 16, 24, 16, 24,
    16, 24, 16, 24, 16, 24, 16, 24, 12, 20, 12, 0, 20, 4, 4, 8, 4, 8, 4, 4,
    4, 8, 4, 4, 8, 16, 12, 20, 8, 16, 12, 20, 8, 16, 8, 16, 12, 20, 8, 16,
    12, 20, 8, 16, 12, 20, 12, 20, 8, 16, 8, 16, 0, 4, 12, 4, 12, 12, 4,
    12, 4, 12, 4, 4, 4, 12, 20, 16, 24, 12, 20, 16, 24, 12, 20, 16, 24, 16,
    24, 16, 24, 16, 24, 16, 24, 16, 24, 16, 24, 16, 24, 12, 20, 12
  >>

PpcW32Rows3 ==
  <<
    0, 20, 4, 4, 8, 4, 8, 4, 4, 4, 8, 4, 4, 8, 16, 12, 20, 8, 16, 12, 20,
    8, 16, 8, 16, 12, 20, 8, 16, 12, 20, 8, 16, 12, 20, 12, 20, 8, 16, 8,
    16, 0, 0, 0, 0, 0, 0, 0, 0, 0, 0, 0, 0, 0, 0, 0
  >>

PpcW32Max == 44

PpcW32Sizes == PpcW32Rows1 \o PpcW32Rows2 \o PpcW32Rows3

PowerpcW32Rows1 ==
  <<
    0, 0, 0, 0, 0, 0, 0, 0, 72, 0, 4, 12, 4, 12, 4, 8, 4, 12, 4, 12, 4, 8,
    16, 4, 12, 12, 16, 12, 16, 4, 12, 4, 12, 20, 16, 20, 16, 12, 20, 12,
    20, 4, 12, 4, 12, 4, 12, 4, 4, 4, 4, 4, 4, 4, 4, 12, 12, 12, 16, 16,
    16, 16, 16, 12, 12, 16, 16, 16, 16, 12, 12, 12, 12, 16, 16, 4, 8, 4, 4,
    4, 4, 0, 0, 4, 4, 0, 8, 12, 4, 8, 4, 8, 4, 8, 4, 8, 0, 0, 0, 0, 8, 8,
    4, 4, 4, 4, 4, 4, 4, 4, 0, 0, 0, 0, 4, 8, 4, 8, 4, 8, 0, 0, 4, 4, 4, 4,
    4, 4, 0, 0, 8, 8, 8, 12, 8, 8, 8, 12, 8, 16, 8, 8, 8, 8, 8, 8, 8, 8, 8,
    16
  >>

PowerpcW32Rows2 ==
  <<
    12, 12, 12, 12, 12, 16, 12, 12, 12, 16, 12, 12, 12, 16, 12, 16, 12, 16,
    12, 16, 0, 4, 28, 40, 72, 0, 4, 16, 4, 16, 16, 4, 16, 4, 16, 4, 4, 4,
    12, 24, 16, 28, 12, 24, 16, 28, 12, 24, 16, 28, 16, 28, 16, 28, 16, 28,
    16, 28, 16, 28, 16, 28, 16, 28, 12, 24, 12, 0, 20, 4, 4, 12, 4, 8, 4,
    4, 4, 8, 4, 4, 8, 20, 12, 24, 8, 20, 12, 24, 8, 20, 8, 20, 12, 24, 8,
    20, 12, 24, 8, 20, 12, 24, 12, 24, 8, 20, 8, 20, 0, 4, 24, 4, 24, 24,
    4, 24, 4, 24, 4, 4, 4, 12, 32, 16, 36, 12, 32, 16, 36, 12, 32, 16, 36,
    16, 36, 16, 36, 16, 36, 16, 36, 16, 36, 16, 36, 16, 36, 12, 32, 12
  >>

PowerpcW32Rows3 ==
  <<
    0, 20, 4, 4, 24, 4, 8, 4, 4, 4, 8, 4, 4, 8, 28, 12, 32, 8, 32, 12, 32,
    8, 28, 8, 28, 12, 32, 8, 28, 12, 32, 8, 28, 12, 32, 12, 32, 8, 28, 8,
    28, 0, 0, 0, 0, 0, 0, 0, 0, 0, 0, 0, 0, 0, 0, 0
  >>

PowerpcW32Max == 72

PowerpcW32Sizes == PowerpcW32Rows1 \o PowerpcW32Rows2 \o PowerpcW32Rows3

PowerpcW64Rows1 ==
  <<
    0, 0, 4, 0, 0, 0, 0, 0, 72, 0, 4, 28, 4, 28, 4, 8, 4, 28, 4, 28, 4, 8,
    32, 4, 28, 12, 28, 12, 28, 4, 28, 4, 28, 20, 16, 20, 16, 12, 36, 12,
    36, 4, 28, 4, 28, 4, 28, 4, 4, 4, 4, 4, 4, 4, 4, 12, 12, 12, 16, 16,
    16, 16, 16, 12, 12, 16, 16, 16, 16, 12, 12, 12, 12, 16, 16, 4, 36, 4,
    4, 4, 4, 4, 4
  >> \o (IF BigEndian THEN <<4, 4, 4>> ELSE <<20, 16, 44>>) \o
  <<
    8, 28, 4, 24, 4, 24, 4, 24, 4, 24, 4, 24, 4, 24, 8, 8, 4, 4, 4, 4, 4,
    4, 4, 4, 4, 4, 4, 4, 4, 24, 4, 24, 4, 24, 4, 24, 4, 4, 4, 4, 4, 4, 4,
    4, 8, 8, 8, 12, 8, 8, 8, 12, 8, 44, 8, 8, 8, 8
  >>

PowerpcW64Rows2 ==
  <<
    8, 8, 8, 8, 8, 36, 12, 12, 12, 12, 12, 16, 12, 12, 12, 16, 12, 12, 12,
    16, 12, 16, 12, 16, 12, 16, 0, 4, 28, 56, 72, 0, 4, 28, 4, 28, 28, 4,
    28, 4, 28, 4, 4, 4, 12, 36, 16, 40, 12, 36, 16, 40, 12, 36, 16, 40, 16,
    40, 16, 40, 16, 40, 16, 40, 16, 40, 16, 40, 16, 40, 12, 36, 12, 12, 12,
    4, 4, 24, 4, 24, 4, 4, 4, 24, 4, 4, 8, 32, 12, 36, 8, 32, 12, 36, 8,
    32, 8, 32, 12, 36, 8, 32, 12, 36, 8, 32, 12, 36, 12, 36, 8, 32, 8, 32,
    0, 4, 28, 4, 28, 28, 4, 28, 4, 28, 4, 4, 4, 12, 40, 16, 44, 12, 40, 16,
    44, 12, 40, 16, 44, 16, 44, 16, 44, 16, 44, 16, 44, 16, 44, 16
  >>

PowerpcW64Rows3 ==
  <<
    44, 16, 44, 12, 40, 12, 12, 12, 4, 4, 32, 4, 24, 4, 4, 4, 24, 4, 4, 8,
    32, 12, 36, 8, 40, 12, 40, 8, 36, 8, 36, 12, 36, 8, 32, 12, 36, 8, 36,
    12, 40, 12, 40, 8, 36, 8, 32, 0, 0, 0, 0, 0, 0, 0, 0, 0, 0, 0, 0, 0, 0,
    0
  >>

PowerpcW64Max == 72

PowerpcW64Sizes == PowerpcW64Rows1 \o PowerpcW64Rows2 \o PowerpcW64Rows3

S390W32Rows1 ==
  <<
    0, 0, 2, 0, 0, 0, 0, 2, 38, 0, 4, 12, 4, 10, 6, 10, 6, 12, 6, 10, 8,
    10, 14, 6, 14, 46, 50, 10, 18, 10, 18, 16, 24, 12, 16, 18, 22, 10, 18,
    16, 24, 4, 10, 4, 10, 4, 12, 8, 10, 8, 10, 8, 10, 2, 8, 16, 20, 16, 20,
    16, 20, 16, 20, 16, 20, 16, 20, 16, 20, 16, 20, 16, 20, 16, 20, 2, 8,
    4, 4, 4, 4, 0, 0, 4, 2, 0, 6, 12, 6, 14, 6, 12, 6, 12, 6, 12, 0, 0, 0,
    0, 10, 16, 10, 16, 10, 16, 10, 16, 10, 16, 0, 0, 0, 0, 4, 12, 4, 10, 4,
    10, 0, 0, 8, 16, 8, 16, 8, 16, 0, 0, 8, 12, 8, 12, 8, 12, 8, 12, 8, 16,
    8, 12, 8, 12, 8, 12, 8, 12, 8, 16
  >>

S390W32Rows2 ==
  <<
    12, 14, 12, 14, 8, 12, 8, 12, 8, 12, 8, 12, 8, 12, 8, 12, 8, 12, 8, 12,
    2, 10, 2, 10, 36, 0, 6, 24, 8, 24, 28, 6, 24, 8, 24, 4, 4, 4, 16, 36,
    16, 36, 16, 36, 16, 36, 16, 36, 16, 36, 16, 36, 16, 36, 20, 40, 16, 36,
    16, 36, 20, 40, 16, 36, 16, 36, 4, 0, 4, 4, 2, 20, 4, 10, 8, 14, 4, 10,
    8, 14, 10, 28, 10, 30, 10, 30, 10, 30, 10, 30, 10, 30, 10, 28, 10, 28,
    18, 36, 10, 30, 10, 30, 18, 38, 10, 30, 10, 28, 0, 6, 34, 8, 34, 38, 6,
    34, 8, 34, 4, 4, 4, 16, 46, 16, 46, 16, 46, 16, 46, 16, 46, 16, 46, 16,
    46, 16, 46, 20, 50, 16, 46, 16, 46, 20, 50, 16, 46, 16, 46, 4
  >>

S390W32Rows3 ==
  <<
    0, 4, 4, 2, 30, 4, 10, 8, 14, 4, 10, 8, 14, 10, 38, 10, 38, 10, 40, 10,
    40, 10, 40, 10, 40, 10, 38, 10, 38, 18, 46, 10, 40, 10, 40, 18, 48, 10,
    40, 10, 38, 0, 0, 0, 0, 0, 0, 0, 0, 0, 0, 0, 0, 0, 0, 0
  >>

S390W32Max == 50

S390W32Sizes == S390W32Rows1 \o S390W32Rows2 \o S390W32Rows3

S390W64Rows1 ==
  <<
    0, 0, 6, 0, 0, 0, 0, 2, 38, 0, 8, 24, 8, 20, 8, 12, 12, 24, 12, 20, 12,
    12, 28, 8, 24, 60, 68, 16, 32, 12, 28, 16, 32, 16, 20, 20, 24, 12, 28,
    16, 32, 8, 20, 8, 20, 8, 24, 6, 10, 6, 10, 6, 10, 4, 12, 20, 24, 20,
    24, 20, 24, 20, 24, 20, 24, 20, 24, 20, 24, 20, 24, 20, 24, 20, 24, 4,
    16, 4, 4, 4, 4, 4, 4, 4, 4, 4, 6, 18, 6, 18, 6, 18, 6, 18, 6, 18, 6,
    18, 6, 18, 14, 6, 14, 6, 14, 6, 14, 6, 14, 6, 14, 6, 14, 6, 4, 16, 4,
    16, 4, 16, 6, 18, 12, 4, 12, 4, 12, 6, 14, 6, 10, 14, 10, 14, 10, 14,
    10, 14, 10, 26, 10, 14, 10, 14, 10, 14, 10, 14, 10, 26
  >>

S390W64Rows2 ==
  <<
    18, 18, 18, 18, 10, 14, 10, 14, 10, 14, 10, 14, 10, 14, 10, 14, 10, 14,
    10, 14, 0, 18, 2, 18, 36, 0, 6, 26, 8, 26, 26, 6, 26, 8, 26, 4, 4, 4,
    16, 36, 16, 36, 16, 36, 16, 36, 16, 36, 16, 36, 16, 36, 16, 36, 20, 40,
    16, 36, 16, 36, 20, 40, 16, 36, 16, 36, 4, 4, 4, 4, 2, 20, 4, 16, 12,
    4, 4, 16, 12, 4, 10, 30, 10, 30, 10, 30, 10, 30, 10, 30, 10, 30, 10,
    30, 10, 30, 18, 38, 10, 30, 10, 30, 18, 38, 10, 30, 10, 30, 0, 6, 26,
    8, 26, 26, 6, 26, 8, 26, 4, 4, 4, 16, 36, 16, 36, 16, 36, 16, 36, 16,
    36, 16, 36, 16, 36, 16, 36, 20, 40, 16, 36, 16, 36, 20, 40, 16, 36, 16,
    36, 4
  >>

S390W64Rows3 ==
  <<
    4, 4, 4, 2, 24, 4, 16, 12, 4, 4, 16, 12, 4, 10, 30, 10, 30, 10, 34, 10,
    30, 10, 30, 10, 30, 10, 30, 10, 30, 18, 38, 10, 30, 10, 30, 18, 38, 10,
    30, 10, 30, 0, 0, 0, 0, 0, 0, 0, 0, 0, 0, 0, 0, 0, 0, 0
  >>

(* Faulty variant: the 64-bit table paired with the 32-bit JIT_INSTR_MAX.  *)
S390W64Max_w32 == 50

S390W64Max == 68

S390W64Sizes == S390W64Rows1 \o S390W64Rows2 \o S390W64Rows3

(* The targets, each with its table and its JIT_INSTR_MAX.                 *)
Variants == {"aarch64_64", "ppc_32", "powerpc_32", "powerpc_64", "s390_32", "s390_64"}

JIT_INSTR_MAX ==
  [aarch64_64 |-> Aarch64W64Max,
   ppc_32 |-> PpcW32Max,
   powerpc_32 |-> PowerpcW32Max,
   powerpc_64 |-> PowerpcW64Max,
   s390_32 |-> S390W32Max,
   s390_64 |-> S390W64Max]

SizeTable(v) ==
  CASE v = "aarch64_64" -> Aarch64W64Sizes
    [] v = "ppc_32" -> PpcW32Sizes
    [] v = "powerpc_32" -> PowerpcW32Sizes
    [] v = "powerpc_64" -> PowerpcW64Sizes
    [] v = "s390_32" -> S390W32Sizes
    [] v = "s390_64" -> S390W64Sizes

(* Row i of the table holds opcode OpNames[i].                             *)
OpIndex == [o \in {OpNames[i] : i \in DOMAIN OpNames} |-> CHOOSE i \in DOMAIN OpNames : OpNames[i] = o]

(* max_bytes (op) on target v.                                              *)
MaxBytes(v, op) == SizeTable(v)[OpIndex[op]]
=============================================================================
