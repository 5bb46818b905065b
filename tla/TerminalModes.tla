--------------------------- MODULE TerminalModes ---------------------------
(***************************************************************************)
(* The terminal settings that the remote shell sends to the host it runs   *)
(* on (tools/shell/shell_protocol.cpp): a termios structure is packed into *)
(* words whose bits do not depend on the platform, and unpacked there.     *)
(*                                                                         *)
(* Settings are a record: the sets of flags i, o, c and l, the character   *)
(* size, the input and output speed and the special characters by name.    *)
(***************************************************************************)
EXTENDS Integers, Sequences

\* enum InputFlag and its fellows: Bit[i] of the word stands for flag i of the
\* table.  IUCLC and OLCUC are there on platforms that have them.
Bit == <<1, 2, 4, 8, 16, 32, 64, 128, 256, 512, 1024, 2048, 4096>>
InputFlags == <<"BRKINT", "ICRNL", "IGNBRK", "IGNCR", "IGNPAR", "INLCR", "INPCK",
                "ISTRIP", "IXANY", "IXOFF", "IXON", "PARMRK", "IUCLC">>
OutputFlags == <<"OPOST", "OLCUC", "ONLCR", "OCRNL", "ONOCR", "ONLRET">>
ControlFlags == <<"CS8", "CSTOPB", "PARENB", "PARODD", "HUPCL", "CLOCAL">>
LocalFlags == <<"ECHO", "ECHOE", "ECHOK", "ECHONL", "ICANON", "IEXTEN", "ISIG",
                "NOFLSH", "TOSTOP">>

\* The special characters that have a place in the message, and all of them:
\* VMIN and VTIME stand for those that have none.
CarriedChars == {"VEOF", "VEOL", "VERASE", "VINTR", "VKILL", "VQUIT", "VSTART",
                 "VSTOP", "VSUSP"}
Chars == CarriedChars \cup {"VMIN", "VTIME"}

\* The speeds that termpackspeed and termunpackspeed know.
Speeds == {0, 50, 75, 110, 134, 150, 200, 300, 600, 1200, 1800, 2400, 4800,
           9600, 19200, 38400}

\* termpackspeed, and termunpackspeed
PackSpeed(speed) == IF speed \in Speeds THEN speed ELSE 9600

\* Flag by flag: if it is on, its bit is set in the word.
PackFlags(flags, table) ==
    LET word[n \in 0..Len(table)] ==
            IF n = 0 THEN 0 ELSE word[n - 1] + (IF table[n] \in flags THEN Bit[n] ELSE 0)
    IN  word[Len(table)]

IsSet(word, n) == (word \div Bit[n]) % 2 = 1

\* Mutant: the highest flag of the table is not looked at.
UnpackFlags_ShortTable(word, table) ==
    {table[i] : i \in {j \in 1..(Len(table) - 1) : IsSet(word, j)}}

UnpackFlags(word, table) == {table[i] : i \in {j \in 1..Len(table) : IsSet(word, j)}}

\* termpack: of the character size only whether it is 8 bits.
TermPack(t) ==
    [i |-> PackFlags(t.i, InputFlags), o |-> PackFlags(t.o, OutputFlags),
     c |-> PackFlags(t.c \cup (IF t.size = 8 THEN {"CS8"} ELSE {}), ControlFlags),
     l |-> PackFlags(t.l, LocalFlags),
     ispeed |-> PackSpeed(t.ispeed), ospeed |-> PackSpeed(t.ospeed),
     cc |-> [k \in CarriedChars |-> t.cc[k]]]

\* termunpack: anything but 8 bits is 7 bits, and the special characters that
\* the message does not carry are 0.
TermUnpack(w) ==
    LET control == UnpackFlags(w.c, ControlFlags) IN
    [i |-> UnpackFlags(w.i, InputFlags), o |-> UnpackFlags(w.o, OutputFlags),
     c |-> control \ {"CS8"}, l |-> UnpackFlags(w.l, LocalFlags),
     size |-> IF "CS8" \in control THEN 8 ELSE 7,
     ispeed |-> PackSpeed(w.ispeed), ospeed |-> PackSpeed(w.ospeed),
     cc |-> [k \in Chars |-> IF k \in CarriedChars THEN w.cc[k] ELSE 0]]

\* What a termios structure says in the terms of the protocol: settings that
\* the protocol has no flag for are gone.
Flags(table) == {table[i] : i \in 1..Len(table)}
Portable(t) ==
    [i |-> t.i \cap Flags(InputFlags), o |-> t.o \cap Flags(OutputFlags),
     c |-> t.c \cap Flags(ControlFlags), l |-> t.l \cap Flags(LocalFlags),
     size |-> IF t.size = 8 THEN 8 ELSE 7,
     ispeed |-> IF t.ispeed \in Speeds THEN t.ispeed ELSE 9600,
     ospeed |-> IF t.ospeed \in Speeds THEN t.ospeed ELSE 9600,
     cc |-> [k \in Chars |-> IF k \in CarriedChars THEN t.cc[k] ELSE 0]]
=============================================================================
