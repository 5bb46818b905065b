--------------------------- MODULE WindowContract ---------------------------
(***************************************************************************)
(* What a congestion controlled channel promises its network, whatever     *)
(* strategy controls it: the sender keeps a window between two limits,     *)
(* puts a packet on the network only while fewer than `window` packets are *)
(* out, with one more allowed after a timeout, opens the window by no more *)
(* than the packets newly acknowledged and one, never opens it on a loss,  *)
(* and after a timeout starts again from the smallest window.              *)
(***************************************************************************)
EXTENDS Integers

CONSTANTS Smallest, Largest

VARIABLES
    window,  \* packets that may be out
    out,     \* packets that are out
    acked,   \* packets acknowledged so far
    probe    \* a timeout lets one packet out regardless of the window

contractVars == <<window, out, acked, probe>>
Windows == Smallest..Largest

ContractInit == window = Smallest /\ out = 0 /\ acked = 0 /\ probe = FALSE

\* A packet goes out: there is room in the window, or it is the probe.
Send ==
    /\ out' = out + 1
    /\ \/ out < window /\ UNCHANGED probe
       \/ probe /\ probe' = FALSE
    /\ UNCHANGED <<window, acked>>

\* Packets are newly acknowledged, of which some were still counted as out.
Acked ==
    LET n == acked' - acked IN
    /\ n > 0
    /\ out' \in (out - n)..out
    /\ window' \in Windows /\ window' <= window + n + 1
    /\ UNCHANGED probe

\* A packet is taken for lost.
Lost ==
    /\ out' = out - 1
    /\ window' \in Windows /\ window' <= window
    /\ UNCHANGED <<acked, probe>>

\* The retransmission timer expires.
Collapse ==
    /\ window' = Smallest /\ probe' = TRUE
    /\ UNCHANGED <<out, acked>>

\* There is nothing to send as a probe.
NoProbe == probe' = FALSE /\ UNCHANGED <<window, out, acked>>

ContractNext == Send \/ Acked \/ Lost \/ Collapse \/ NoProbe
ContractSpec == ContractInit /\ [][ContractNext]_contractVars
=============================================================================
