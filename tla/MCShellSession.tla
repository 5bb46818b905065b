--------------------------- MODULE MCShellSession ---------------------------
(* ShellSession with three terminals: one with every setting on, and one the *)
(* protocol has no name for; one with everything off and a size and a speed  *)
(* that the protocol cannot say; and a usual one.                            *)
EXTENDS ShellSession

\* No special character; and a usual set, of which the protocol leaves out VMIN.
NoChars == [k \in Chars |-> 0]
UsualChars == [k \in Chars |-> CASE k = "VEOF" -> 4 [] k = "VERASE" -> 127 [] k = "VINTR" -> 3
                                 [] k = "VMIN" -> 1 [] k = "VSUSP" -> 26 [] OTHER -> 0]

AllOn == [i |-> Flags(InputFlags) \cup {"IUTF8"}, o |-> Flags(OutputFlags),
          c |-> Flags(ControlFlags) \ {"CS8"}, l |-> Flags(LocalFlags),
          size |-> 8, ispeed |-> 38400, ospeed |-> 38400, cc |-> UsualChars]
AllOff == [i |-> {}, o |-> {}, c |-> {}, l |-> {}, size |-> 5,
           ispeed |-> 0, ospeed |-> 57600, cc |-> NoChars]
Usual == [i |-> {"ICRNL", "IXON"}, o |-> {"OPOST", "ONLCR"}, c |-> {"HUPCL"},
          l |-> {"ECHO", "ECHOE", "ICANON", "ISIG", "IEXTEN"},
          size |-> 7, ispeed |-> 9600, ospeed |-> 9600, cc |-> UsualChars]
TestTerminals == {AllOn, AllOff, Usual}
=============================================================================
