-------------------------------- MODULE SeedData --------------------------------
(***************************************************************************)
(* The questions of the university subjects (database/ngan-hang, the files *)
(* mon_*.py), and BANKS, the dictionary build.py makes of them.            *)
(*                                                                         *)
(* A row (content, A, B, C, D, right answer, difficulty) keeps what the    *)
(* scripts tell apart: the number of its columns, how many of its four     *)
(* answers differ, the letter of the right one, the difficulty.  Texts are *)
(* left out: in these files every row has seven columns and four different *)
(* answers.                                                                *)
(*                                                                         *)
(* The name of a subject is known by two spellings: `plain` is what        *)
(* khong_dau leaves of it (no marks, lower case, a dash for what is no     *)
(* letter or digit), `exact` is the name itself, its Vietnamese letters    *)
(* written in ASCII (VIQR: ^ ( + for the letters, ' ! ? ~ . for the tones).*)
(***************************************************************************)
EXTENDS Integers, SequencesExt

\* n rows; the right answer is B, C, D in the rows named so and A elsewhere;
\* rows are easy or hard where named so and medium elsewhere.
Rows(n, b, c, d, easy, hard) ==
    [i \in 1..n |->
        [columns |-> 7, options |-> 4,
         correct |-> CASE i \in b -> "B" [] i \in c -> "C" [] i \in d -> "D" [] OTHER -> "A",
         difficulty |-> CASE i \in easy -> "easy" [] i \in hard -> "hard" [] OTHER -> "medium"]]

Bank(plain, exact, rows) == [name |-> [plain |-> plain, exact |-> exact], rows |-> rows]

\* Information technology (mon_cntt.py).
LAP_TRINH_C ==
    Rows(50, {3}, {}, {},
         (1..6) \cup {8, 10, 18, 21, 23, 25, 27, 28, 29, 31, 33, 35, 42, 44, 46, 47, 48,
         50},
         {20, 22, 38, 49})
CTDL_GT ==
    Rows(50, {}, {}, {},
         (4..8) \cup {1, 2, 12, 18, 19, 26, 35, 36, 42, 43},
         (45..50) \cup {15, 23, 25, 28, 31})
CO_SO_DU_LIEU ==
    Rows(50, {}, {}, {},
         (5..11) \cup {1, 2, 3, 14, 15, 18, 33, 34, 41, 45},
         {13, 21, 22, 29, 43, 44, 46, 47, 48, 50})
MANG_MAY_TINH ==
    Rows(50, {}, {1, 7}, {},
         (5..13) \cup (22..26) \cup {1, 29, 35, 37, 39, 40, 49},
         {33, 45})
HE_DIEU_HANH ==
    Rows(50, {}, {}, {},
         (20..26) \cup {1, 2, 5, 6, 30, 34, 36, 38, 42, 43, 45, 48, 50},
         {11, 18, 19, 28, 41, 46, 47})
LAP_TRINH_WEB ==
    Rows(50, {}, {}, {},
         (1..7) \cup (24..30) \cup {9, 10, 12, 13, 14, 17, 20, 21, 32, 38, 39, 46, 49},
         {31, 35, 43})
CONG_NGHE_PHAN_MEM ==
    Rows(50, {}, {}, {},
         {1, 2, 3, 5, 6, 14, 15, 18, 20, 24, 29, 32, 33, 36, 37, 44, 47},
         {35, 40, 45, 49})
DATA_CNTT == <<
    Bank("lap-trinh-c-c", "La.^p tri!nh C/C++", LAP_TRINH_C),
    Bank("cau-truc-du-lieu-va-giai-thuat", "Ca^'u tru'c du+~ lie.^u va! gia?i thua.^t", CTDL_GT),
    Bank("co-so-du-lieu-nang-cao", "Co+ so+? du+~ lie.^u na^ng cao", CO_SO_DU_LIEU),
    Bank("mang-may-tinh", "Ma.ng ma'y ti'nh", MANG_MAY_TINH),
    Bank("he-dieu-hanh", "He.^ ddie^!u ha!nh", HE_DIEU_HANH),
    Bank("lap-trinh-web-nang-cao", "La.^p tri!nh Web na^ng cao", LAP_TRINH_WEB),
    Bank("cong-nghe-phan-mem", "Co^ng nghe.^ pha^!n me^!m", CONG_NGHE_PHAN_MEM) >>

\* General subjects (mon_dai_cuong.py).
PHAP_LUAT ==
    Rows(51, {15}, {9, 10, 33}, {},
         {1, 2, 4, 5, 6, 9, 12, 13, 18, 19, 21, 24, 25, 27, 28, 29, 31, 33, 35, 47, 49,
         50, 51},
         {39})
GDQP ==
    Rows(50, {11, 16}, {15}, {},
         {1, 2, 3, 9, 17, 24, 27, 31, 34, 37, 38, 39, 43, 44, 46, 48, 49, 50},
         {16, 26})
TIENG_ANH ==
    Rows(50, (7..10) \cup (12..16) \cup (33..37) \cup {1, 3, 4, 5, 18, 23, 24, 26,
         27, 30, 39, 40, 42, 43, 44, 47, 49, 50}, {2, 6, 19, 28, 38}, {11},
         (31..34) \cup {1, 2, 5, 6, 16, 24, 25, 36, 44, 46, 50},
         {8, 10, 19, 21, 27, 29, 30, 39, 42, 48})
TIN_HOC_DAI_CUONG ==
    Rows(50, (22..31) \cup {2, 4, 7, 8, 10, 12, 13, 14, 16, 19, 20, 33, 34, 36, 45,
         48}, {3, 5, 9, 15, 18, 21, 47}, {},
         (1..6) \cup (9..12) \cup (17..21) \cup {15, 23, 24, 25, 28, 29, 31, 33, 36, 37,
         43, 44, 46, 49},
         {35})
KY_NANG_MEM ==
    Rows(50, {}, {}, {},
         (5..9) \cup (27..33) \cup (38..43) \cup (46..50) \cup {1, 2, 3, 12, 18, 20, 23,
         24, 36},
         {14, 45})
DATA_DAI_CUONG == <<
    Bank("phap-luat-dai-cuong", "Pha'p lua.^t dda.i cu+o+ng", PHAP_LUAT),
    Bank("giao-duc-quoc-phong-va-an-ninh", "Gia'o du.c quo^'c pho!ng va! an ninh", GDQP),
    Bank("tieng-anh--dai-hoc", "Tie^'ng Anh (DDa.i ho.c)", TIENG_ANH),
    Bank("tin-hoc-dai-cuong", "Tin ho.c dda.i cu+o+ng", TIN_HOC_DAI_CUONG),
    Bank("ky-nang-mem", "Ky~ na(ng me^!m", KY_NANG_MEM) >>

\* Economics and management (mon_kinh_te.py).
KINH_TE_VI_MO ==
    Rows(50, {}, {}, {},
         {1, 2, 4, 5, 6, 22, 23, 28, 33, 36, 50},
         (39..42) \cup {9, 16, 20, 21, 25, 34, 44, 45, 48})
KINH_TE_VI_MO_2 ==
    Rows(50, {}, {}, {},
         {1, 2, 5, 7, 8, 9, 12, 14, 18, 19, 22, 30, 31, 35, 36, 40, 44, 46, 50},
         {15, 17, 26, 27, 37, 38, 39, 45, 48})
KE_TOAN ==
    Rows(50, {}, {}, {},
         (1..6) \cup (31..34) \cup {13, 22, 26, 48, 49, 50},
         {17, 18, 19, 24, 36, 39, 41})
MARKETING ==
    Rows(50, {}, {}, {},
         {1, 2, 3, 6, 8, 15, 19, 24, 26, 29, 30, 31, 33, 40, 43, 45, 47, 49},
         {13, 14, 38, 41, 44})
QUAN_TRI_HOC ==
    Rows(50, {}, {}, {},
         (1..6) \cup (44..48) \cup {14, 15, 16, 31, 37, 41},
         {13, 17, 18, 23, 25, 28, 33, 38, 40, 50})
DATA_KINH_TE == <<
    Bank("kinh-te-vi-mo", "Kinh te^' vi mo^", KINH_TE_VI_MO),
    Bank("kinh-te-vi-mo", "Kinh te^' vi~ mo^", KINH_TE_VI_MO_2),
    Bank("nguyen-ly-ke-toan", "Nguye^n ly' ke^' toa'n", KE_TOAN),
    Bank("marketing-can-ban", "Marketing ca(n ba?n", MARKETING),
    Bank("quan-tri-hoc", "Qua?n tri. ho.c", QUAN_TRI_HOC) >>

\* Political theory (mon_ly_luan.py).
TRIET_HOC ==
    Rows(51, {2, 3, 4, 6, 7, 10, 13, 14, 15, 17, 18, 19, 21, 22, 28, 30, 33, 35,
         39, 40, 42}, {9, 23, 26, 37}, {24},
         {1, 2, 6, 17, 23, 24, 36},
         {11, 12, 21, 28, 30, 47})
KINH_TE_CHINH_TRI ==
    Rows(50, {2, 7, 9, 13, 18, 24}, {11, 34, 35}, {},
         (42..45) \cup {2, 3, 5, 40},
         {9, 15, 16, 21, 23, 29, 30, 31, 33, 46, 49})
CNXH_KHOA_HOC ==
    Rows(50, {3, 39}, {}, {},
         {1, 2, 3, 11, 19, 20, 21, 26, 29, 33, 36, 39, 44, 47, 48},
         {8, 23, 30, 34, 35, 41, 50})
TU_TUONG_HCM ==
    Rows(51, {3, 11, 41}, {4, 10, 42, 47}, {},
         (32..35) \cup {1, 2, 3, 5, 11, 13, 16, 19, 21, 27, 37, 38, 49, 50},
         {8, 24, 45, 47})
LICH_SU_DANG ==
    Rows(50, {6, 11, 16, 17, 19, 20, 23, 28, 29, 44, 46}, {10, 15, 21, 27, 30, 31,
         45, 47}, {},
         {3, 5, 7, 10, 11, 15, 16, 20, 21, 22, 24, 33, 34, 47, 49, 50},
         {9, 27, 36, 37, 40, 42, 43, 46})
DATA_LY_LUAN == <<
    Bank("triet-hoc-mac---lenin", "Trie^'t ho.c Ma'c - Le^nin", TRIET_HOC),
    Bank("kinh-te-chinh-tri-mac---lenin",
         "Kinh te^' chi'nh tri. Ma'c - Le^nin", KINH_TE_CHINH_TRI),
    Bank("chu-nghia-xa-hoi-khoa-hoc", "Chu? nghi~a xa~ ho.^i khoa ho.c", CNXH_KHOA_HOC),
    Bank("tu-tuong-ho-chi-minh", "Tu+ tu+o+?ng Ho^! Chi' Minh", TU_TUONG_HCM),
    Bank("lich-su-dang-cong-san-viet-nam", "Li.ch su+? DDa?ng Co.^ng sa?n Vie.^t Nam", LICH_SU_DANG) >>

\* Mathematics and physics (mon_toan_ly.py).
TOAN_CAO_CAP ==
    Rows(51, {3, 7, 8, 22}, {}, {},
         (1..6) \cup (33..36) \cup (38..41) \cup {13, 21, 22, 31, 43, 51},
         (46..49) \cup {23, 24})
DAI_SO_TUYEN_TINH ==
    Rows(50, {}, {}, {},
         {1, 2, 3, 6, 7, 15, 21, 22, 27, 30, 45, 46, 48},
         (40..43) \cup {18, 19, 23, 24, 25, 32, 34, 35, 36, 49, 50})
GIAI_TICH ==
    Rows(50, {8, 33, 34, 42}, {}, {},
         {1, 3, 8, 10, 11, 38, 39, 41, 42, 44, 48},
         {6, 13, 16, 17, 18, 20, 22, 23, 25, 26, 28, 29, 35, 37, 40, 47, 49, 50})
XAC_SUAT_THONG_KE ==
    Rows(50, {17}, {2}, {},
         (1..7) \cup (22..26) \cup (41..44) \cup {12, 13, 14, 18, 35, 39, 50},
         {10, 30, 33, 34, 48, 49})
VAT_LY_DAI_CUONG ==
    Rows(50, {}, {}, {},
         (1..10) \cup (35..38) \cup {12, 13, 22, 26, 27, 30, 32, 33, 40, 42, 47, 48, 50},
         {39, 49})
DATA_TOAN_LY == <<
    Bank("toan-cao-cap", "Toa'n cao ca^'p", TOAN_CAO_CAP),
    Bank("dai-so-tuyen-tinh", "DDa.i so^' tuye^'n ti'nh", DAI_SO_TUYEN_TINH),
    Bank("giai-tich", "Gia?i ti'ch", GIAI_TICH),
    Bank("xac-suat-thong-ke", "Xa'c sua^'t tho^'ng ke^", XAC_SUAT_THONG_KE),
    Bank("vat-ly-dai-cuong", "Va.^t ly' dda.i cu+o+ng", VAT_LY_DAI_CUONG) >>

\* BANKS.update(DATA): a name already there keeps its place and takes the new rows.
Put(banks, bank) ==
    IF \E i \in DOMAIN banks : banks[i].name = bank.name
    THEN [i \in DOMAIN banks |-> IF banks[i].name = bank.name THEN bank ELSE banks[i]]
    ELSE Append(banks, bank)
Update(banks, data) == FoldLeft(Put, banks, data)

\* The modules are imported in the order of their file names.
Merged ==
    FoldLeft(Update, <<>>,
             <<DATA_CNTT, DATA_DAI_CUONG, DATA_KINH_TE, DATA_LY_LUAN, DATA_TOAN_LY>>)
================================================================================
