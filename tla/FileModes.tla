----------------------------- MODULE FileModes -----------------------------
(***************************************************************************)
(* The pure parts of winsup/file.c, acl.c, stat.c and mknod_compat.h: mode *)
(* strings of fopen() and fdopen(), permission bits, the extensions that   *)
(* make a file executable, device numbers.                                 *)
(*                                                                         *)
(* A mode string is a record: its first character ("" when the string is   *)
(* empty) and the set of the characters behind it.  Open flags are a set;  *)
(* O_RDONLY, which is 0, is the absence of O_WRONLY and O_RDWR.            *)
(***************************************************************************)
EXTENDS Integers

CONSTANT Minors  \* how many minor device numbers there are, 2^16 in the code

ASSUME MinorsAssumption == Minors \in Nat \ {0}

Invalid == {"invalid"}

Flag(cond, flag) == IF cond THEN {flag} ELSE {}

\* strchr("rwa", *mode) finds the terminator too: an empty string is accepted.
UncheckedFirst == {"r", "w", "a", "", "?"}
AcceptedFirst == {"r", "w", "a", ""}

__fmodeflags(mode) ==
    IF mode.first \notin AcceptedFirst THEN Invalid
    ELSE (IF "+" \in mode.rest THEN {"O_RDWR"}
          ELSE IF mode.first = "r" THEN {} ELSE {"O_WRONLY"})
         \cup Flag("x" \in mode.rest, "O_EXCL")
         \cup Flag({"e", "N"} \cap mode.rest # {}, "O_CLOEXEC")
         \cup Flag(mode.first # "r", "O_CREAT")
         \cup Flag(mode.first = "w", "O_TRUNC")
         \cup Flag(mode.first = "a", "O_APPEND")
         \cup {"O_BINARY"}

\* The first letter of the mode given to the real fdopen(), from the flags.
FixedFirst(flags) ==
    IF "O_RDWR" \in flags
    THEN IF "O_APPEND" \in flags THEN "a"
         ELSE IF "O_TRUNC" \in flags THEN "w"
         ELSE IF "O_CREAT" \notin flags THEN "r" ELSE "none"
    ELSE IF "O_WRONLY" \in flags
    THEN IF "O_TRUNC" \in flags THEN "w"
         ELSE IF "O_APPEND" \in flags THEN "a" ELSE "none"
    ELSE "r"

\* What the stream is allowed: its mode is the letter, "+" and "b".
StreamCanNoPlus(flags) ==
    IF FixedFirst(flags) = "r" THEN {"r"} ELSE {"w"}

StreamCan(flags) ==
    IF "O_RDWR" \in flags THEN {"r", "w"}
    ELSE IF FixedFirst(flags) = "r" THEN {"r"} ELSE {"w"}

__fixup_fmode(old_mode) ==
    LET flags == __fmodeflags(old_mode)
        first == FixedFirst(flags)
    IN  IF flags = Invalid \/ first = "none" \/ (first # "r" /\ "O_CREAT" \notin flags)
        THEN Invalid
        ELSE StreamCan(flags) \cup Flag(first = "a", "append")

\* The access a descriptor opened with flags has.
Access(flags) ==
    IF "O_RDWR" \in flags THEN {"r", "w"} ELSE IF "O_WRONLY" \in flags THEN {"w"} ELSE {"r"}

-----------------------------------------------------------------------------
(* Permission bits, of which Windows keeps whether anybody may write: creat()
   and fchmod() ask for S_IWUSR | S_IWGRP | S_IWOTH. *)

OwnerMayWrite(mode) == <<"usr", "w">> \in mode
AnyMayWrite(mode) == \E who \in {"usr", "grp", "oth"} : <<who, "w">> \in mode

-----------------------------------------------------------------------------
(* Executable extensions, compared by (c1 << 2) | (c2 << 1) | c3, here as the
   set of the bits that are 1.  A character is its code. *)

Bit(n, i) == i >= 0 /\ (n \div 2^i) % 2 = 1

tolower(c) == IF c \in 65 .. 90 THEN c + 32 ELSE c

SuffixBits(c1, c2, c3) == {i \in 0 .. 9 : Bit(c1, i - 2) \/ Bit(c2, i - 1) \/ Bit(c3, i)}

EXE_SUFFIX == SuffixBits(101, 120, 101)
BAT_SUFFIX == SuffixBits(98, 97, 116)
CMD_SUFFIX == SuffixBits(99, 109, 100)
COM_SUFFIX == SuffixBits(99, 111, 109)

\* An extension is three characters, or <<>> when there is no dot before them.
HasExecSuffix(ext) ==
    ext # <<>> /\ SuffixBits(tolower(ext[1]), tolower(ext[2]), tolower(ext[3]))
                    \in {EXE_SUFFIX, BAT_SUFFIX, CMD_SUFFIX, COM_SUFFIX}

-----------------------------------------------------------------------------
(* Device numbers: a dev_t has twice the bits of its parts. *)

makedev(maj, min) == (maj * Minors + (min % Minors)) % (Minors * Minors)
major(dev) == (dev \div Minors) % Minors
minor(dev) == dev % Minors
=============================================================================
