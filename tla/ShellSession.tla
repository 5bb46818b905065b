---------------------------- MODULE ShellSession ----------------------------
(***************************************************************************)
(* The remote shell: a client (tools/shell/client) that sends its terminal *)
(* settings and asks for a shell, and the session that serves it           *)
(* (tools/shell/server), with its descriptors, its child process and the   *)
(* thread that waits for the child.                                        *)
(*                                                                         *)
(* Control messages travel in order (module ShellStream).  Reads and       *)
(* writes of async_file always fail at this commit, so data has no effect  *)
(* at the session, and input at the client's terminal ends the client with *)
(* a fatal error.  System calls fail at any time, where the code looks at  *)
(* the result.  Sessions are never deleted.                                *)
(***************************************************************************)
EXTENDS TerminalModes

CONSTANTS
    Terminals,  \* settings a client's terminal may have
    Codes,      \* exit codes of the child process
    None        \* no descriptor, no settings

\* The character size has a field of its own: it is not among the flags.
Settings == [i : SUBSET STRING, o : SUBSET STRING, c : SUBSET STRING, l : SUBSET STRING,
             size : 5..8, ispeed : Nat, ospeed : Nat, cc : [Chars -> 0..255]]

ASSUME CodesAreCodes == Codes \subseteq 0..255
ASSUME TerminalsAssumption ==
    /\ Terminals \subseteq Settings /\ \A t \in Terminals : "CS8" \notin t.c
    /\ None \notin Settings /\ None \notin {"pty", "tty", "dup"}

VARIABLES
    client,     \* "begin", "setup", "running", "exited" or "aborted"
    code,       \* the exit code of the client
    original,   \* history: the settings of the client's terminal at the start
    terminal,   \* the settings of the client's terminal
    saved,      \* termiosSave, or None while termiosChanged is false
    restoreFailed,  \* history: the system call of termiosRestore failed
    toServer,   \* control messages on their way to the session
    toClient,   \* control messages on their way to the client
    ptyfd, ttyfd, aftty,    \* the descriptors the session holds, or None
    fds,        \* the descriptors that are open in the server
    ptyModes,   \* the settings of the pseudo-terminal, None for the system's
    child       \* the child process and what the watcher thread did

clientVars == <<client, code, terminal, saved, restoreFailed, original>>
sessionVars == <<ptyfd, ttyfd, aftty, fds, ptyModes>>
vars == <<clientVars, sessionVars, toServer, toClient, child>>

\* How a process ends.
Statuses == [how : {"exited"}, val : Codes] \cup {[how |-> "signaled", val |-> 0]}
Child(st, status) == [st |-> st, status |-> status]

Init ==
    /\ client = "begin" /\ code = None
    /\ original \in Terminals /\ terminal = original /\ saved = None
    /\ restoreFailed = FALSE
    /\ toServer = <<>> /\ toClient = <<>>
    /\ ptyfd = None /\ ttyfd = None /\ aftty = None /\ fds = {} /\ ptyModes = None
    /\ child = Child("none", None)

-----------------------------------------------------------------------------
(* The client.                                                             *)

\* Input is no longer processed by the client's terminal.
Raw(t) == [t EXCEPT !.l = @ \ {"ICANON", "ISIG", "ECHO"}]

\* setup_terminal, if standard input is a terminal.  Reading the settings, or
\* changing them after the message is sent, may fail with a fatal error.
SetupTerminal ==
    /\ client = "begin"
    /\ \/ client' = "aborted" /\ UNCHANGED <<saved, terminal, toServer>>
       \/ /\ saved' = IF saved = None THEN terminal ELSE saved
          /\ toServer' = Append(toServer, [cmd |-> "Terminal", modes |-> TermPack(terminal)])
          /\ \/ client' = "setup" /\ terminal' = Raw(terminal)
             \/ client' = "aborted" /\ UNCHANGED terminal
    /\ UNCHANGED <<code, restoreFailed, original, toClient, sessionVars, child>>

\* run_shell: a shell, or a command.
RunShell(cmd) ==
    /\ client \in {"begin", "setup"}
    /\ client' = "running"
    /\ toServer' = Append(toServer, [cmd |-> cmd])
    /\ UNCHANGED <<code, original, terminal, saved, restoreFailed, toClient, sessionVars, child>>

\* exit(c), which calls termiosRestore.  If its system call fails, the terminal
\* stays as it is, and the client exits nevertheless.
Exit(c) ==
    /\ client' = "exited" /\ code' = c
    /\ \/ terminal' = (IF saved = None THEN terminal ELSE saved) /\ UNCHANGED restoreFailed
       \/ saved # None /\ UNCHANGED terminal /\ restoreFailed' = TRUE
    /\ saved' = None
    /\ UNCHANGED original

\* in_ready: input at the client's terminal cannot be read.
InputFails ==
    /\ client = "running"
    /\ client' = "aborted"
    /\ UNCHANGED <<code, original, terminal, saved, restoreFailed, toServer, toClient,
                   sessionVars, child>>

\* got_control_packet of the client: what to exit with.
ExitCode(msg) == IF msg.cmd = "ExitStatus" THEN msg.val ELSE 1

\* out_ready: a control message arrives, or the stream is at its end.
OutReady ==
    /\ client = "running"
    /\ toClient # <<>>
    /\ Exit(ExitCode(Head(toClient)))
    /\ toClient' = Tail(toClient)
    /\ UNCHANGED <<toServer, sessionVars, child>>

StreamEnds ==
    /\ client = "running"
    /\ toClient = <<>>
    /\ Exit(0)
    /\ UNCHANGED <<toServer, toClient, sessionVars, child>>

-----------------------------------------------------------------------------
(* The session.                                                            *)

\* open_pty: refused with a descriptor in hand; creating the pseudo-terminal
\* and setting its modes may fail, the latter without consequence.
OpenPty(msg) ==
    \/ (ptyfd # None \/ ttyfd # None) /\ UNCHANGED sessionVars
    \/ /\ ptyfd = None /\ ttyfd = None
       /\ \/ UNCHANGED sessionVars
          \/ /\ ptyfd' = "pty" /\ fds' = fds \cup {"pty"}
             /\ ptyModes' \in {TermUnpack(msg.modes), None}
             /\ UNCHANGED <<ttyfd, aftty>>

\* Mutant: the child's socket stays open when there is no child.
ForkFails_LeakSocket ==
    IF ptyfd # None THEN UNCHANGED <<ttyfd, fds>>
    ELSE ttyfd' = "tty" /\ fds' = fds \cup {"tty", "child"}

\* fork() fails: the child's end of the socket pair is closed, ours is not.
ForkFails ==
    IF ptyfd # None THEN UNCHANGED <<ttyfd, fds>>
    ELSE ttyfd' = "tty" /\ fds' = fds \cup {"tty"}

\* The parent after fork(): I/O is forwarded through a duplicate descriptor.
Forked ==
    /\ ttyfd' = IF ptyfd # None THEN ttyfd ELSE "tty"
    /\ aftty' = "dup"
    /\ fds' = fds \cup {"dup"} \cup (IF ptyfd # None THEN {} ELSE {"tty"})
    /\ child' = Child("running", None)

\* run: refused if there is a socket; making one and the child may fail.
Run ==
    \/ ttyfd # None /\ UNCHANGED <<sessionVars, child>>
    \/ ttyfd = None /\ ptyfd = None /\ UNCHANGED <<sessionVars, child>>
    \/ ttyfd = None /\ ForkFails /\ UNCHANGED <<ptyfd, aftty, ptyModes, child>>
    \/ ttyfd = None /\ Forked /\ UNCHANGED <<ptyfd, ptyModes>>

GotControlPacket(msg) ==
    \/ msg.cmd = "Terminal" /\ OpenPty(msg) /\ UNCHANGED child
    \/ msg.cmd \in {"Shell", "Exec"} /\ Run

\* in_ready: a message arrives.
InReady ==
    /\ toServer # <<>>
    /\ toServer' = Tail(toServer)
    /\ GotControlPacket(Head(toServer))
    /\ UNCHANGED <<clientVars, toClient>>

\* The child process ends.
ChildEnds(status) ==
    /\ child.st = "running"
    /\ child' = Child("ended", status)
    /\ UNCHANGED <<clientVars, sessionVars, toServer, toClient>>

\* Mutant: nothing is sent for a process that was killed.
ExitMessages_StatusOnly(status) ==
    IF status.how = "exited" THEN <<[cmd |-> "ExitStatus", val |-> status.val]>> ELSE <<>>

\* What child_done sends.
ExitMessages(status) ==
    IF status.how = "exited" THEN <<[cmd |-> "ExitStatus", val |-> status.val]>>
                             ELSE <<[cmd |-> "ExitSignal", val |-> status.val]>>

\* The watcher's thread has seen the end of the child and calls child_done.
ChildDone ==
    /\ child.st = "ended"
    /\ child' = [child EXCEPT !.st = "reported"]
    /\ toClient' = toClient \o ExitMessages(child.status)
    /\ UNCHANGED <<clientVars, sessionVars, toServer>>

Next ==
    \/ SetupTerminal \/ InputFails \/ OutReady \/ StreamEnds
    \/ \E cmd \in {"Shell", "Exec"} : RunShell(cmd)
    \/ InReady \/ ChildDone
    \/ \E status \in Statuses : ChildEnds(status)

Spec == Init /\ [][Next]_vars

\* Messages arrive and both programs serve them; the watcher's thread runs.
Fairness == WF_vars(OutReady) /\ WF_vars(ChildDone)

FairSpec == Spec /\ Fairness

-----------------------------------------------------------------------------
\* The descriptors open in the server are those the session will close, after
\* any failure of a step of several: none is lost, and none is closed twice.
DescriptorsAccounted == fds = {ptyfd, ttyfd, aftty} \ {None}

\* The settings of the client's terminal survive the trip: the pseudo-terminal
\* gets all that the protocol can say of them, as they were before the client
\* turned off input processing.  That is all the client ever changes; as long
\* as it may still exit, the settings to go back to are in termiosSave, and it
\* leaves the terminal raw only by a fatal error or a failure of tcsetattr.
SettingsSurvive ==
    /\ ptyModes # None => ptyModes = Portable(original)
    /\ terminal \in {original, Raw(original)}
    /\ terminal # original => \/ client \in {"setup", "running"} /\ saved = original
                              \/ client = "aborted"
                              \/ client = "exited" /\ restoreFailed

\* The end of the child reaches the user: a client that is still there exits,
\* and unless the stream broke off, with the child's code, or 1 if it was killed.
ExitReported ==
    \A status \in Statuses :
        child.st = "ended" /\ child.status = status /\ client = "running" ~>
            \/ client = "aborted"
            \/ /\ client = "exited"
               /\ code \in {0, IF status.how = "exited" THEN status.val ELSE 1}
=============================================================================
