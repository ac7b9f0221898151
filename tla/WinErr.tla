------------------------------- MODULE WinErr -------------------------------
(***************************************************************************)
(* internal/errno.c and internal/winerr_map.h: the errno that stands for a *)
(* Windows error.  The table has 9000 places, most of them 0 (no errno).   *)
(* It is given here in stretches of 150 codes, as the codes of each errno; *)
(* a stretch that is missing holds zeros only.  An errno is a string.      *)
(***************************************************************************)
EXTENDS Naturals

winerr_map_size == 9000

Codes0 ==
    [EINVAL |-> {1, 13, 25, 27, 87, 131},
     ENOENT |-> {2, 3, 18, 53, 55, 64, 67, 123, 126}, EMFILE |-> {4},
     EACCES |-> {5}, EBADF |-> {6}, ENOMEM |-> {8, 14},
     ENODEV |-> {15, 20}, EXDEV |-> {17}, EROFS |-> {19},
     EIO |-> {21, 23, 59, 110}, EBUSY |-> {32, 33, 129},
     ENOLCK |-> {36}, ENODATA |-> {38}, ENOSPC |-> {39, 112},
     ENOSYS |-> {50, 58, 120}, EHOSTUNREACH |-> {51},
     EADDRINUSE |-> {52}, EEXIST |-> {80}, EPERM |-> {82},
     EAGAIN |-> {89}, EINTR |-> {104}, EPIPE |-> {109},
     ENFILE |-> {113}, ESRCH |-> {127}, ECHILD |-> {128},
     ENOTEMPTY |-> {145}]

Codes150 ==
    [EIO |-> {156, 205}, ENOENT |-> {161, 259},
     EBUSY |-> {162, 170, 231}, EAGAIN |-> {164}, EEXIST |-> {183},
     ENOEXEC |-> {191, 192, 193, 197, 216}, ENAMETOOLONG |-> {206},
     EINVAL |-> {208, 209, 210, 230, 254, 255}, EPIPE |-> {232, 233},
     EMSGSIZE |-> {234}, ENOTDIR |-> {267}, ENOSPC |-> {275, 277},
     ENOTSUP |-> {282}, EPERM |-> {288}]

Codes300 ==
    [EINVAL |-> {424}]

Codes450 ==
    [EINVAL |-> {487}, EBUSY |-> {535}, EPIPE |-> {536}]

Codes900 ==
    [EAGAIN |-> {996, 997}, EFAULT |-> {998}, ENXIO |-> {1006},
     EINVAL |-> {1008}]

Codes1050 ==
    [EBUSY |-> {1053}, EFAULT |-> {1067}, ENOSPC |-> {1100},
     EIO |-> {1101, 1102, 1103, 1104, 1106, 1111, 1112, 1117, 1129, 1165, 1166},
     EDEADLOCK |-> {1131}, EMLINK |-> {1142}]

Codes1200 ==
    [ENODEV |-> {1200}, EINTR |-> {1223}, ECONNREFUSED |-> {1225},
     EPERM |-> {1314}, EINVAL |-> {1332}]

Codes1350 ==
    [EEXIST |-> {1392}, EIO |-> {1393}, EFBIG |-> {1450},
     EAGAIN |-> {1451, 1452, 1453, 1454, 1455}, EBUSY |-> {1460}]

Codes1800 ==
    [EIO |-> {1816}]

Codes2100 ==
    [EINVAL |-> {2202}]

Codes2250 ==
    [ENOLINK |-> {2250}]

Codes2400 ==
    [EAGAIN |-> {2401, 2402, 2404}]

Codes8250 ==
    [EIO |-> {8341}]

Stretches ==
    <<Codes0, Codes150, Codes300, Codes450, Codes900, Codes1050, Codes1200,
      Codes1350, Codes1800, Codes2100, Codes2250, Codes2400, Codes8250>>

Listed(w) ==
    UNION {{e \in DOMAIN Stretches[i] : w \in Stretches[i][e]} : i \in DOMAIN Stretches}

\* __winerr_map[w]; reading past the table gives anything.
winerr_map(w) ==
    CASE w >= winerr_map_size -> "garbage"
      [] Listed(w) # {}       -> CHOOSE e \in Listed(w) : TRUE
      [] OTHER                -> "0"

InTableOffByOne(w) == w <= winerr_map_size
InTable(w) == w < winerr_map_size

UnmappedAsZero(mapped_err) == mapped_err
Unmapped(mapped_err) == IF mapped_err = "0" THEN "-1" ELSE mapped_err

set_errno_via_winerr(w) ==
    IF w = 0 THEN "0"
    ELSE IF InTable(w) THEN Unmapped(winerr_map(w)) ELSE "-1"
=============================================================================
